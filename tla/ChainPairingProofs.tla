-------------------------- MODULE ChainPairingProofs --------------------------
(* What ChainPairing.tla promises, for any servers, endpoints, codes and requests,
   whatever is posted from outside to the public route of unpairing.

   The argument in three layers.  Linked: an endpoint and the link beside it
   belong to the same server, in every list, code and request, so whatever matches
   an entry by one of them concerns the server it was meant for.  Dead, Followed and
   the unpairing of the named need no more than that; Followed says of a server
   where no handler is about to take its snapshot that the one snapshot nobody has
   overtaken is of the list as it is.  The third layer, PairInv, is about two
   servers that know each other by one name each (OneName): a request that has met
   no other about the same two has the effect its step says, so the lists agree
   when it ends well. *)
EXTENDS ChainPairing, SequenceTheorems, WellFoundedInduction, TLAPS

(* What a request carries. *)
Asking(q) ==
  /\ q.op = "generate" /\ q.step = "issue"
  /\ q.at \in Servers /\ q.code \in Codes
  /\ q.endpoint \in Endpoints /\ At[q.endpoint] = q.at
  /\ q.link \in Links /\ ExitOf[q.link] = q.at
Pairing(q) ==
  /\ q.op = "pair" /\ q.step \in {"rewrite", "install", "sent", "ok", "refused"}
  /\ q.at \in Servers /\ q.to \in Servers /\ q.code \in Codes
  /\ q.endpoint \in Endpoints /\ At[q.endpoint] = q.at
  /\ q.link \in Links /\ ExitOf[q.link] = q.to
Unpeering(q) ==
  /\ q.op = "unpeer"
  /\ q.step \in {"rewrite", "install", "sent", "serving", "replace", "ok"}
  /\ q.at \in Servers /\ q.to \in Servers
  /\ q.exitEndpoint \in Endpoints /\ At[q.exitEndpoint] = q.to
  /\ q.endpoint = Self[q.at] /\ q.link = None
Unclienting(q) ==
  /\ q.op = "unclient" /\ q.step \in {"sent", "serving", "replace", "ok"}
  /\ q.at \in Servers /\ q.to \in Servers
  /\ q.exitEndpoint = Self[q.at]
  /\ q.endpoint \in Endpoints /\ At[q.endpoint] = q.to
  /\ q.link \in Links /\ ExitOf[q.link] = q.at
Local(q) ==
  q.op \in {"outside", "other"} /\ q.step \in {"rewrite", "install"} /\ q.at \in Servers
Sound(q) ==
  q = NoRequest \/ Asking(q) \/ Pairing(q) \/ Unpeering(q) \/ Unclienting(q) \/ Local(q)

(* An endpoint and the link that goes with it belong to the same server. *)
LinkedPeer(p) == ExitOf[p.link] = At[p.endpoint]
PeersLinked == \A s \in Servers : \A p \in Range(peers[s]) : LinkedPeer(p)
ClientsLinked ==
  \A s \in Servers, e \in Endpoints : clients[s][e] # None => ExitOf[clients[s][e]] = s
CodesLinked ==
  \A k \in Codes : codes[k] # None =>
    At[codes[k].endpoint] = codes[k].by /\ ExitOf[codes[k].link] = codes[k].by
Linked ==
  /\ PeersLinked /\ ClientsLinked /\ CodesLinked
  /\ \A s \in Servers : \A l \in served[s] : ExitOf[l] = s
  /\ \A r \in Requests : Sound(req[r])

Dead == \A k \in withdrawn : codes[k] # None => ~codes[k].listed

Named(e) == e = Self[At[e]]
Distinct(list) ==
  \A i, j \in DOMAIN list : list[i].endpoint = list[j].endpoint => i = j
OneName ==
  /\ \A s \in Servers : Origins[s] \subseteq {Self[s]}
  /\ \A first \in FirstPeers, s \in Servers :
       /\ first[s] # <<>> => Origins[s] # {}
       /\ Distinct(first[s]) /\ \A p \in Range(first[s]) : Named(p.endpoint)

PeersNamed ==
  \A s \in Servers :
    Distinct(peers[s]) /\ \A p \in Range(peers[s]) : Named(p.endpoint)
ClientsNamed == \A s \in Servers, e \in Endpoints : clients[s][e] # None => Named(e)
CodesNamed == \A k \in Codes : codes[k] # None => Named(codes[k].endpoint)
NamedRequest(q) ==
  /\ q.op \in {"generate", "pair", "unclient"} => Named(q.endpoint)
  /\ q.op = "unpeer" => Named(q.exitEndpoint)
NamesInv ==
  PeersNamed /\ ClientsNamed /\ CodesNamed /\ \A r \in Requests : NamedRequest(req[r])

(* The servers a list of peers, or of clients, names. *)
Reached(list) == {At[p.endpoint] : p \in Range(list)}
Entered(map) == {At[e] : e \in {x \in Endpoints : map[x] # None}}

(* A request that is sole is the only one about its two servers; it is sole and
   waited for, or else a doubt about them is remembered. *)
AboutIn(rs, pair) == {r \in Requests : Notifying(rs[r]) /\ Concerned(rs[r]) = pair}
Alone ==
  \A r \in Requests :
    Notifying(req[r]) /\ req[r].sole => AboutIn(req, Concerned(req[r])) = {r}
Doubted ==
  \A r \in Requests :
    Notifying(req[r]) /\ ~(req[r].sole /\ req[r].waiting) => Concerned(req[r]) \in doubt

(* The sender's list is as the request wants it, from its start; the receiver's is
   when the notification has been served. *)
Delivered(q) == q.step \in {"serving", "replace", "ok"}
Effect(q, listed, known) ==
  /\ q.op # "unclient" \/ Delivered(q) => (listed <=> q.op = "pair")
  /\ q.op = "unclient" \/ Delivered(q) => (known <=> q.op = "pair")
Effects ==
  \A r \in Requests, x, y \in Servers :
    Notifying(req[r]) /\ req[r].sole /\ Concerned(req[r]) = <<x, y>> /\ x # y
      => Effect(req[r], y \in Reached(peers[x]), x \in Entered(clients[y]))
Agree ==
  \A x, y \in Servers :
    x # y /\ <<x, y>> \notin doubt /\ AboutIn(req, <<x, y>>) = {}
      => (y \in Reached(peers[x]) <=> x \in Entered(clients[y]))
PairInv == Alone /\ Doubted /\ Effects /\ Agree

-----------------------------------------------------------------------------
(* The operations on the list of peers. *)

(* The entries that are left, each as often as before. *)
LEMMA KeptEntries ==
  ASSUME NEW list \in Seq(Peer), NEW K, K \subseteq DOMAIN list, NEW left \in Kept(list, K)
  PROVE  /\ left \in Seq(Peer)
         /\ Range(left) = {list[k] : k \in K}
         /\ Distinct(list) => Distinct(left)
<1>1. PICK f \in {g \in UNION {[1..m -> K] : m \in 0..Len(list)} : InOrder(g, K)} :
        left = [i \in DOMAIN f |-> list[f[i]]]
  BY DEF Kept
<1>2. PICK m \in 0..Len(list) : f \in [1..m -> K]
  OBVIOUS
<1>3. /\ \A i, j \in 1..m : i < j => f[i] < f[j]
      /\ \A k \in K : \E i \in 1..m : f[i] = k
  BY <1>2 DEF InOrder
<1>4. left = [i \in 1..m |-> list[f[i]]]
  BY <1>1, <1>2
<1>5. DOMAIN list = 1..Len(list) /\ Len(list) \in Nat
  BY LenProperties
<1>6. m \in Nat
  BY <1>5
<1>7. \A i \in 1..m : f[i] \in K /\ f[i] \in 1..Len(list)
  BY <1>2, <1>5
<1>8. left \in Seq(Peer)
  <2>1. \A i \in 1..m : list[f[i]] \in Peer
    BY <1>7, ElementOfSeq
  <2>2. left \in [1..m -> Peer]
    BY <1>4, <2>1
  <2> QED BY <1>6, <2>2, SeqDef
<1>9. Range(left) = {list[k] : k \in K}
  <2>1. Range(left) = {list[f[i]] : i \in 1..m}
    BY <1>4 DEF Range
  <2>2. /\ \A k \in K : \E i \in 1..m : f[i] = k
        /\ \A i \in 1..m : f[i] \in K
    BY <1>3, <1>7
  <2> QED BY <2>1, <2>2, Zenon
<1>10. \A i, j \in 1..m : f[i] = f[j] => i = j
  <2> SUFFICES ASSUME NEW i \in 1..m, NEW j \in 1..m, i < j
               PROVE  f[i] # f[j]
    OBVIOUS
  <2> QED BY <1>3, <1>7
<1>11. ASSUME Distinct(list) PROVE Distinct(left)
  <2>1. DOMAIN left = 1..m
    BY <1>4
  <2> SUFFICES ASSUME NEW i \in 1..m, NEW j \in 1..m, left[i].endpoint = left[j].endpoint
               PROVE  i = j
    BY <2>1 DEF Distinct
  <2>2. list[f[i]].endpoint = list[f[j]].endpoint
    BY <1>4
  <2> QED BY <1>5, <1>7, <1>10, <1>11, <2>2 DEF Distinct
<1> QED BY <1>8, <1>9, <1>11

(* An increasing enumeration of all positions leaves the list as it was: the least
   position it moved would have nothing to come from. *)
LEMMA AllKept ==
  ASSUME NEW list \in Seq(Peer), NEW left \in Kept(list, DOMAIN list)
  PROVE  left = list
<1> DEFINE n == Len(list)
<1>1. n \in Nat /\ DOMAIN list = 1..n /\ list \in [1..n -> Peer]
  BY LenProperties
<1>2. PICK f \in {g \in UNION {[1..m -> 1..n] : m \in 0..n} : InOrder(g, 1..n)} :
        left = [i \in DOMAIN f |-> list[f[i]]]
  BY <1>1 DEF Kept
<1> HIDE DEF n
<1>3. PICK m \in 0..n : f \in [1..m -> 1..n]
  OBVIOUS
<1>4. /\ \A i, j \in 1..m : i < j => f[i] < f[j]
      /\ \A k \in 1..n : \E i \in 1..m : f[i] = k
  BY <1>3 DEF InOrder
<1>5. m \in Nat
  BY <1>1
<1> DEFINE T == {i \in 1..m : f[i] # i}
<1>6. T = {}
  <2> SUFFICES ASSUME T # {} PROVE FALSE
    OBVIOUS
  <2>1. T \subseteq Nat
    BY <1>5
  <2> HIDE DEF T
  <2>2. PICK i \in T : \A j \in T : ~(<<j, i>> \in OpToRel(<, Nat))
    BY <2>1, WFMin, NatLessThanWellFounded
  <2>3. \A j \in T : ~(j < i)
    BY <2>1, <2>2 DEF OpToRel
  <2> USE DEF T
  <2>4. i \in 1..m /\ f[i] \in 1..n /\ f[i] # i
    BY <1>3
  <2>5. \A j \in 1..m : j < i => f[j] = j
    BY <2>3
  <2> HIDE DEF T
  <2>6. ~(f[i] < i)
    <3> SUFFICES ASSUME f[i] < i PROVE FALSE
      OBVIOUS
    <3>1. f[i] \in 1..m
      BY <1>1, <1>5, <2>4
    <3>2. f[f[i]] = f[i]
      BY <2>5, <3>1
    <3>3. f[f[i]] < f[i]
      BY <1>4, <2>4, <3>1
    <3> QED BY <1>1, <2>4, <3>2, <3>3
  <2>7. i \in 1..n /\ i < f[i]
    BY <1>1, <1>5, <2>4, <2>6
  <2>8. PICK j \in 1..m : f[j] = i
    BY <1>4, <2>7
  <2>9. ~(j < i) /\ j # i
    BY <2>4, <2>5, <2>8
  <2>10. i < j
    BY <1>5, <2>4, <2>9
  <2>11. f[i] < f[j]
    BY <1>4, <2>4, <2>10
  <2>12. f[i] < i
    BY <2>8, <2>11
  <2> QED BY <2>6, <2>12
<1>7. \A i \in 1..m : f[i] = i
  BY <1>6
<1>8. n \in 1..m \/ n = 0
  <2>1. n = 0 \/ n \in 1..n
    BY <1>1
  <2>2. CASE n \in 1..n
    <3>1. PICK i \in 1..m : f[i] = n
      BY <1>4, <2>2
    <3> QED BY <1>7, <3>1
  <2> QED BY <2>1, <2>2
<1>9. m = n
  BY <1>1, <1>5, <1>8
<1>10. left = [i \in 1..n |-> list[i]]
  BY <1>2, <1>3, <1>7, <1>9
<1> QED BY <1>1, <1>10

(* A peer is added, or takes the place of one it has the endpoint or link of. *)
LEMMA UpsertedEntries ==
  ASSUME NEW list \in Seq(Peer), NEW p \in Peer, NEW new \in Upserted(list, p)
  PROVE  /\ new \in Seq(Peer)
         /\ p \in Range(new) /\ Range(new) \subseteq Range(list) \cup {p}
         /\ \A q \in Range(list) : q \in Range(new) \/ SamePeer(q, p)
         /\ (/\ Distinct(list)
             /\ \A q \in Range(list) : SamePeer(q, p) => q.endpoint = p.endpoint)
              => Distinct(new)
<1> DEFINE n == Len(list)
           same == {i \in DOMAIN list : SamePeer(list[i], p)}
<1>1. n \in Nat /\ DOMAIN list = 1..n /\ list \in [1..n -> Peer]
  BY LenProperties
<1>2. CASE same = {}
  <2>1. new = Append(list, p)
    BY <1>2 DEF Upserted
  <2>2. new \in Seq(Peer) /\ Len(new) = n + 1
    BY <2>1, AppendProperties
  <2>3. DOMAIN new = 1..(n + 1)
    BY <2>2, LenProperties
  <2>4. new[n + 1] = p /\ \A i \in 1..n : new[i] = list[i]
    BY <2>1, AppendProperties
  <2>5. \A i \in 1..(n + 1) : i \in 1..n \/ i = n + 1
    BY <1>1
  <2>6. \A i \in 1..n : i \in 1..(n + 1)
    BY <1>1
  <2>7. n + 1 \in 1..(n + 1)
    BY <1>1
  <2>8. p \in Range(new)
    BY <2>3, <2>4, <2>7 DEF Range
  <2>9. Range(new) \subseteq Range(list) \cup {p}
    BY <1>1, <2>3, <2>4, <2>5 DEF Range
  <2>10. \A q \in Range(list) : q \in Range(new)
    BY <1>1, <2>3, <2>4, <2>6 DEF Range
  <2>11. ASSUME Distinct(list) PROVE Distinct(new)
    <3>1. \A i \in 1..n : list[i].endpoint # p.endpoint
      BY <1>1, <1>2 DEF SamePeer
    <3> QED BY <1>1, <2>3, <2>4, <2>5, <2>11, <3>1 DEF Distinct
  <2> QED BY <2>2, <2>8, <2>9, <2>10, <2>11
<1>3. CASE same # {}
  <2>1. PICK k \in same : new = [list EXCEPT ![k] = p]
    BY <1>3 DEF Upserted
  <2>2. k \in 1..n /\ SamePeer(list[k], p)
    BY <1>1
  <2>3. new \in Seq(Peer) /\ Len(new) = n
    BY <2>1, <2>2, ExceptSeq
  <2>4. DOMAIN new = 1..n
    BY <2>3, LenProperties
  <2>5. \A i \in 1..n : new[i] = IF i = k THEN p ELSE list[i]
    BY <1>1, <2>1
  <2>6. p \in Range(new)
    BY <2>2, <2>4, <2>5 DEF Range
  <2>7. Range(new) \subseteq Range(list) \cup {p}
    BY <1>1, <2>4, <2>5 DEF Range
  <2>8. \A q \in Range(list) : q \in Range(new) \/ SamePeer(q, p)
    BY <1>1, <2>2, <2>4, <2>5 DEF Range
  <2>9. ASSUME Distinct(list), \A q \in Range(list) : SamePeer(q, p) => q.endpoint = p.endpoint
        PROVE  Distinct(new)
    <3>1. list[k].endpoint = p.endpoint
      BY <1>1, <2>2, <2>9 DEF Range
    <3>2. \A i \in 1..n : new[i].endpoint = list[i].endpoint
      BY <2>5, <3>1
    <3> QED BY <1>1, <2>4, <2>9, <3>2 DEF Distinct
  <2> QED BY <2>3, <2>6, <2>7, <2>8, <2>9
<1> QED BY <1>2, <1>3

-----------------------------------------------------------------------------
(* The requests. *)

(* A request that still carries the same, and one that is touched only in what its
   handler is going to install. *)
Same(p, q) ==
  /\ p.op = q.op /\ p.at = q.at /\ p.to = q.to /\ p.exitEndpoint = q.exitEndpoint
  /\ p.endpoint = q.endpoint /\ p.link = q.link /\ p.code = q.code
Alike(p, q) == Same(p, q) /\ p.step = q.step /\ p.sole = q.sole /\ p.waiting = q.waiting

LEMMA NoRequestIsSound == NoRequest \in Request /\ Sound(NoRequest) /\ ~Notifying(NoRequest)
BY DEF NoRequest, Request, Sound, Notifying

(* Where a request can go: a handler that writes goes on to the installation, a
   notification is sent, served and answered. *)
Onward(p, q) ==
  \/ p.step = q.step
  \/ q.op \in {"outside", "other", "pair", "unpeer"} /\ p.step = "install"
  \/ q.op \in {"pair", "unpeer", "unclient"} /\ p.step \in {"sent", "ok"}
  \/ q.op \in {"unpeer", "unclient"} /\ p.step \in {"serving", "replace"}
  \/ q.op = "pair" /\ p.step = "refused"

LEMMA OnwardIsSound ==
  ASSUME NEW p, NEW q, Sound(q), q # NoRequest, Same(p, q), Onward(p, q)
  PROVE  Sound(p)
<1>1. CASE Asking(q)
  BY <1>1 DEF Same, Onward, Asking, Sound
<1>2. CASE Pairing(q)
  BY <1>2 DEF Same, Onward, Pairing, Sound
<1>3. CASE Unpeering(q)
  BY <1>3 DEF Same, Onward, Unpeering, Sound
<1>4. CASE Unclienting(q)
  BY <1>4 DEF Same, Onward, Unclienting, Sound
<1>5. CASE Local(q)
  BY <1>5 DEF Same, Onward, Local, Sound
<1> QED BY <1>1, <1>2, <1>3, <1>4, <1>5 DEF Sound

(* A request is touched when others cross or overtake it, or its handler returns. *)
LEMMA Touched ==
  ASSUME NEW q \in Request, NEW b \in BOOLEAN
  PROVE  /\ [q EXCEPT !.sole = b] \in Request /\ Same([q EXCEPT !.sole = b], q)
         /\ [q EXCEPT !.waiting = b] \in Request /\ Same([q EXCEPT !.waiting = b], q)
         /\ [q EXCEPT !.overtaken = b] \in Request /\ Alike([q EXCEPT !.overtaken = b], q)
         /\ [q EXCEPT !.sole = b].step = q.step /\ [q EXCEPT !.waiting = b].step = q.step
         /\ [q EXCEPT !.waiting = b].sole = q.sole
BY DEF Request, Same, Alike

LEMMA TouchedIsSound ==
  ASSUME NEW q \in Request, Sound(q), q # NoRequest, NEW b \in BOOLEAN
  PROVE  /\ [q EXCEPT !.sole = b] \in Request /\ Sound([q EXCEPT !.sole = b])
         /\ [q EXCEPT !.waiting = b] \in Request /\ Sound([q EXCEPT !.waiting = b])
         /\ [q EXCEPT !.overtaken = b] \in Request /\ Sound([q EXCEPT !.overtaken = b])
BY Touched, OnwardIsSound DEF Alike, Onward

LEMMA AdvancedIsSame ==
  ASSUME NEW q \in Request, NEW step
  PROVE  /\ Same([q EXCEPT !.step = step], q)
         /\ [q EXCEPT !.step = step].step = step
         /\ [q EXCEPT !.step = step].sole = q.sole
         /\ [q EXCEPT !.step = step].waiting = q.waiting
BY DEF Request, Same

(* Who is concerned, and which requests there can be at each step. *)
LEMMA SoundRequests ==
  ASSUME NEW q \in Request, Sound(q)
  PROVE  /\ Notifying(q) => /\ q.at \in Servers /\ q.to \in Servers
                            /\ Concerned(q) \in Servers \X Servers
         /\ q.step = "issue" => Asking(q)
         /\ q.step \in {"rewrite", "install"} => Pairing(q) \/ Unpeering(q) \/ Local(q)
         /\ q.step \in {"sent", "serving", "replace", "ok", "refused"} => Notifying(q)
         /\ q.step \in {"serving", "replace"} => q.op # "pair"
         /\ q.step = "refused" => q.op = "pair"
         /\ q.op = "pair" => Pairing(q)
         /\ q.op = "unpeer" => Unpeering(q)
         /\ q.op = "unclient" => Unclienting(q)
<1>1. CASE q = NoRequest
  BY <1>1 DEF NoRequest, Notifying
<1>2. CASE Asking(q)
  BY <1>2 DEF Asking, Notifying
<1>3. CASE Pairing(q)
  BY <1>3 DEF Pairing, Notifying, Concerned
<1>4. CASE Unpeering(q)
  BY <1>4 DEF Unpeering, Notifying, Concerned
<1>5. CASE Unclienting(q)
  BY <1>5 DEF Unclienting, Notifying, Concerned
<1>6. CASE Local(q)
  BY <1>6 DEF Local, Notifying
<1> QED BY <1>1, <1>2, <1>3, <1>4, <1>5, <1>6 DEF Sound

(* What Begin makes of the requests. *)
Others(r, q) == About(Concerned(q)) \ {r}
Begun(r, q) ==
  [x \in Requests |->
     IF x = r THEN [q EXCEPT !.sole = (Others(r, q) = {})]
     ELSE IF x \in Others(r, q) THEN [req[x] EXCEPT !.sole = FALSE]
     ELSE req[x]]
Crossed(r, q) == IF Others(r, q) = {} THEN doubt ELSE doubt \cup {Concerned(q)}

AllSound == req \in [Requests -> Request] /\ \A x \in Requests : Sound(req[x])

LEMMA BegunIsSound ==
  ASSUME AllSound, doubt \subseteq Servers \X Servers,
         NEW r \in Requests, NEW q \in Request, Sound(q), Notifying(q)
  PROVE  /\ Begun(r, q) \in [Requests -> Request]
         /\ \A x \in Requests : Sound(Begun(r, q)[x])
         /\ Crossed(r, q) \subseteq Servers \X Servers
<1>1. Concerned(q) \in Servers \X Servers
  BY SoundRequests
<1>2. Crossed(r, q) \subseteq Servers \X Servers
  BY <1>1 DEF Crossed
<1>3. ASSUME NEW x \in Requests
      PROVE  Begun(r, q)[x] \in Request /\ Sound(Begun(r, q)[x])
  <2>1. CASE x = r
    <3>1. (Others(r, q) = {}) \in BOOLEAN
      OBVIOUS
    <3>2. Begun(r, q)[x] = [q EXCEPT !.sole = (Others(r, q) = {})]
      BY <2>1 DEF Begun
    <3> QED BY <3>1, <3>2, TouchedIsSound, NoRequestIsSound
  <2>2. CASE x # r /\ x \in Others(r, q)
    <3>1. Notifying(req[x])
      BY <2>2 DEF Others, About
    <3>2. Begun(r, q)[x] = [req[x] EXCEPT !.sole = FALSE]
      BY <2>2 DEF Begun
    <3> QED BY <3>1, <3>2, TouchedIsSound, NoRequestIsSound DEF AllSound
  <2>3. CASE x # r /\ x \notin Others(r, q)
    <3>1. Begun(r, q)[x] = req[x]
      BY <2>3 DEF Begun
    <3> QED BY <3>1 DEF AllSound
  <2> QED BY <2>1, <2>2, <2>3
<1> QED BY <1>2, <1>3 DEF Begun

(* One request goes on, or ends. *)
LEMMA OneIsChanged ==
  ASSUME AllSound, NEW r \in Requests, NEW q \in Request, Sound(q)
  PROVE  /\ [req EXCEPT ![r] = q] \in [Requests -> Request]
         /\ \A x \in Requests : Sound([req EXCEPT ![r] = q][x])
BY DEF AllSound

(* A snapshot overtakes who is between his own and the installation. *)
LEMMA OvertakingIsSound ==
  ASSUME AllSound, NEW s
  PROVE  /\ Overtaking(s) \in [Requests -> Request]
         /\ \A x \in Requests : /\ Sound(Overtaking(s)[x]) /\ Alike(Overtaking(s)[x], req[x])
                                /\ Overtaking(s)[x].outbound = req[x].outbound
                                /\ Overtaking(s)[x].overtaken <=>
                                     req[x].overtaken \/ Installing(req[x], s)
<1>1. ASSUME NEW x \in Requests
      PROVE  /\ Overtaking(s)[x] \in Request /\ Sound(Overtaking(s)[x])
             /\ Alike(Overtaking(s)[x], req[x])
             /\ Overtaking(s)[x].outbound = req[x].outbound
             /\ Overtaking(s)[x].overtaken <=> req[x].overtaken \/ Installing(req[x], s)
  <2>1. req[x] \in Request /\ Sound(req[x])
    BY DEF AllSound
  <2>2. CASE Installing(req[x], s)
    <3>1. req[x] # NoRequest
      BY <2>2 DEF Installing, NoRequest
    <3>2. Overtaking(s)[x] = [req[x] EXCEPT !.overtaken = TRUE]
      BY <2>2 DEF Overtaking
    <3>3. /\ [req[x] EXCEPT !.overtaken = TRUE] \in Request
          /\ Sound([req[x] EXCEPT !.overtaken = TRUE])
          /\ Alike([req[x] EXCEPT !.overtaken = TRUE], req[x])
      BY <2>1, <3>1, TouchedIsSound, Touched
    <3> QED BY <2>1, <2>2, <3>2, <3>3 DEF Request
  <2>3. CASE ~Installing(req[x], s)
    BY <2>1, <2>3 DEF Overtaking, Alike, Same, Request
  <2> QED BY <2>2, <2>3
<1> QED BY <1>1 DEF Overtaking

-----------------------------------------------------------------------------
(* Types and links, step by step. *)

LEMMA UpsertedPeers ==
  ASSUME NEW list \in Seq(Peer), \A q \in Range(list) : LinkedPeer(q),
         NEW p \in Peer, LinkedPeer(p), NEW new \in Upserted(list, p)
  PROVE  /\ new \in Seq(Peer) /\ \A q \in Range(new) : LinkedPeer(q)
         /\ Reached(new) = Reached(list) \cup {At[p.endpoint]}
<1>1. /\ new \in Seq(Peer)
      /\ p \in Range(new) /\ Range(new) \subseteq Range(list) \cup {p}
      /\ \A q \in Range(list) : q \in Range(new) \/ SamePeer(q, p)
  BY UpsertedEntries
<1>2. \A q \in Range(list) : SamePeer(q, p) => At[q.endpoint] = At[p.endpoint]
  BY DEF SamePeer, LinkedPeer
<1>3. Reached(new) = Reached(list) \cup {At[p.endpoint]}
  BY <1>1, <1>2 DEF Reached
<1> QED BY <1>1, <1>3

Consistent == TypeOK /\ Linked

LEMMA ConsistentRequests == Consistent => AllSound /\ doubt \subseteq Servers \X Servers
BY DEF Consistent, TypeOK, Linked, AllSound

LEMMA AskCodeConsistent ==
  ASSUME Consistent, NEW r \in Requests, NEW s \in Servers, NEW k \in Codes, AskCode(r, s, k)
  PROVE  Consistent'
<1>1. PICK e \in Origins[s], l \in served[s] : Snapshotted(r, s, k, e, l)
  BY DEF AskCode
<1> DEFINE q == [NoRequest EXCEPT !.op = "generate", !.at = s, !.endpoint = e, !.code = k,
                                  !.link = l, !.step = "issue", !.waiting = TRUE]
<1>2. e \in Endpoints /\ At[e] = s
  BY EndpointAssumption
<1>3. l \in Links /\ ExitOf[l] = s
  BY DEF Consistent, TypeOK, Linked
<1>4. q \in Request /\ Asking(q)
  BY <1>2, <1>3 DEF NoRequest, Request, Asking
<1>5. req' = [req EXCEPT ![r] = q]
  BY <1>1 DEF Snapshotted
<1> HIDE DEF q
<1>6. req' \in [Requests -> Request] /\ \A x \in Requests : Sound(req'[x])
  BY <1>4, <1>5, OneIsChanged, ConsistentRequests DEF Sound
<1>7. events' \in 0..MaxEvents
  BY NumbersAssumption DEF AskCode, Count, Consistent, TypeOK
<1>8. UNCHANGED <<peers, clients, disabled, codes, served, exit, doubt, behind, withdrawn>>
  BY DEF AskCode, lists, history
<1>9. TypeOK'
  BY <1>6, <1>7, <1>8 DEF Consistent, TypeOK
<1>10. Linked'
  BY <1>6, <1>8 DEF Consistent, Linked, PeersLinked, ClientsLinked, CodesLinked
<1> QED BY <1>9, <1>10 DEF Consistent

LEMMA IssueCodeConsistent ==
  ASSUME Consistent, NEW r \in Requests, IssueCode(r)
  PROVE  Consistent'
<1> DEFINE q == req[r]
           new == [by |-> q.at, endpoint |-> q.endpoint, link |-> q.link,
                   listed |-> TRUE, used |-> FALSE]
<1>1. Asking(q)
  BY SoundRequests, ConsistentRequests DEF IssueCode, AllSound
<1>2. new \in Code /\ At[new.endpoint] = new.by /\ ExitOf[new.link] = new.by
  BY <1>1 DEF Asking, Code
<1>3. codes' = [codes EXCEPT ![q.code] = new]
  BY DEF IssueCode
<1>4. req' = [req EXCEPT ![r] = NoRequest]
  BY DEF IssueCode
<1> HIDE DEF q, new
<1>5. codes' \in [Codes -> Code \cup {None}] /\ CodesLinked'
  BY <1>2, <1>3 DEF Consistent, TypeOK, Linked, CodesLinked
<1>6. req' \in [Requests -> Request] /\ \A x \in Requests : Sound(req'[x])
  BY <1>4, OneIsChanged, ConsistentRequests, NoRequestIsSound
<1>7. /\ UNCHANGED <<peers, clients, disabled, served, exit, doubt, behind, events>>
      /\ withdrawn' \subseteq withdrawn
  BY DEF IssueCode
<1>8. TypeOK'
  BY <1>5, <1>6, <1>7 DEF Consistent, TypeOK
<1>9. Linked'
  BY <1>5, <1>6, <1>7 DEF Consistent, Linked, PeersLinked, ClientsLinked
<1> QED BY <1>8, <1>9 DEF Consistent

(* The list of one server is exchanged for another one. *)
LEMMA PeersReplaced ==
  ASSUME Consistent, NEW s \in Servers, NEW list \in Seq(Peer),
         \A q \in Range(list) : LinkedPeer(q), peers' = [peers EXCEPT ![s] = list]
  PROVE  peers' \in [Servers -> Seq(Peer)] /\ PeersLinked'
<1>1. peers \in [Servers -> Seq(Peer)]
  BY DEF Consistent, TypeOK
<1>2. \A t \in Servers : peers'[t] = IF t = s THEN list ELSE peers[t]
  BY <1>1
<1>3. PeersLinked'
  BY <1>2 DEF Consistent, Linked, PeersLinked
<1> QED BY <1>1, <1>3

LEMMA PairConsistent ==
  ASSUME Consistent, NEW r \in Requests, NEW s \in Servers, NEW k \in Codes, Pair(r, s, k)
  PROVE  Consistent'
<1> DEFINE p == [endpoint |-> codes[k].endpoint, link |-> codes[k].link]
<1>1. codes[k] \in Code /\ At[codes[k].endpoint] = codes[k].by /\ ExitOf[codes[k].link] = codes[k].by
  BY DEF Pair, Decodable, Consistent, TypeOK, Linked, CodesLinked
<1>2. p \in Peer /\ LinkedPeer(p)
  BY <1>1 DEF Peer, Code, LinkedPeer
<1>3. PICK list \in Upserted(peers[s], p) : peers' = [peers EXCEPT ![s] = list]
  BY DEF Pair, UpsertPeer
<1>4. PICK e \in Origins[s] :
        Begin(r, [NoRequest EXCEPT !.op = "pair", !.at = s, !.to = At[codes[k].endpoint],
                                   !.endpoint = e, !.link = codes[k].link, !.code = k,
                                   !.step = "rewrite", !.waiting = TRUE])
  BY DEF Pair
<1> DEFINE q == [NoRequest EXCEPT !.op = "pair", !.at = s, !.to = At[codes[k].endpoint],
                                  !.endpoint = e, !.link = codes[k].link, !.code = k,
                                  !.step = "rewrite", !.waiting = TRUE]
<1>5. e \in Endpoints /\ At[e] = s
  BY EndpointAssumption
<1>6. q \in Request /\ Pairing(q) /\ Notifying(q)
  BY <1>1, <1>5 DEF NoRequest, Request, Pairing, Notifying, Code
<1>7. req' = Begun(r, q) /\ doubt' = Crossed(r, q)
  BY <1>4 DEF Begin, Begun, Crossed, Others
<1> HIDE DEF p, q
<1>8. /\ req' \in [Requests -> Request] /\ \A x \in Requests : Sound(req'[x])
      /\ doubt' \subseteq Servers \X Servers
  BY <1>6, <1>7, BegunIsSound, ConsistentRequests DEF Sound
<1>9. peers' \in [Servers -> Seq(Peer)] /\ PeersLinked'
  <2>1. peers[s] \in Seq(Peer) /\ \A x \in Range(peers[s]) : LinkedPeer(x)
    BY DEF Consistent, TypeOK, Linked, PeersLinked
  <2>2. list \in Seq(Peer) /\ \A x \in Range(list) : LinkedPeer(x)
    BY <1>2, <1>3, <2>1, UpsertedPeers
  <2> QED BY <1>3, <2>2, PeersReplaced
<1>10. events' \in 0..MaxEvents
  BY NumbersAssumption DEF Pair, Count, Consistent, TypeOK
<1>11. UNCHANGED <<clients, disabled, codes, served, exit, behind, withdrawn>>
  BY DEF Pair
<1>12. TypeOK'
  BY <1>8, <1>9, <1>10, <1>11 DEF Consistent, TypeOK
<1>13. Linked'
  BY <1>8, <1>9, <1>11 DEF Consistent, Linked, ClientsLinked, CodesLinked
<1> QED BY <1>12, <1>13 DEF Consistent

(* A code that is used, or no longer listed, still says what it said. *)
LEMMA CodesMarked ==
  ASSUME Consistent,
         \A k \in Codes : \/ codes'[k] = codes[k]
                          \/ codes[k] # None /\ \E b \in BOOLEAN :
                               \/ codes'[k] = [codes[k] EXCEPT !.used = b]
                               \/ codes'[k] = [codes[k] EXCEPT !.listed = b],
         codes' = [k \in Codes |-> codes'[k]]
  PROVE  codes' \in [Codes -> Code \cup {None}] /\ CodesLinked'
<1>1. ASSUME NEW k \in Codes
      PROVE  /\ codes'[k] \in Code \cup {None}
             /\ codes'[k] # None => /\ At[codes'[k].endpoint] = codes'[k].by
                                    /\ ExitOf[codes'[k].link] = codes'[k].by
  <2>1. codes[k] \in Code \cup {None}
    BY DEF Consistent, TypeOK
  <2>2. codes[k] # None => At[codes[k].endpoint] = codes[k].by /\ ExitOf[codes[k].link] = codes[k].by
    BY DEF Consistent, Linked, CodesLinked
  <2>3. CASE codes'[k] = codes[k]
    BY <2>1, <2>2, <2>3
  <2>4. CASE codes[k] # None /\ \E b \in BOOLEAN : \/ codes'[k] = [codes[k] EXCEPT !.used = b]
                                                   \/ codes'[k] = [codes[k] EXCEPT !.listed = b]
    BY <2>1, <2>2, <2>4 DEF Code
  <2> QED BY <2>3, <2>4
<1> QED BY <1>1 DEF CodesLinked

LEMMA PairLocallyConsistent ==
  ASSUME Consistent, NEW s \in Servers, NEW k \in Codes, PairLocally(s, k)
  PROVE  Consistent'
<1>1. /\ codes[k] # None /\ codes[k] \in Code /\ codes[k].by = s
      /\ ExitOf[codes[k].link] = codes[k].by
  BY DEF PairLocally, Redeemable, Consistent, TypeOK, Linked, CodesLinked
<1>2. PICK e \in Origins[s] : UpsertPeer(s, [endpoint |-> e, link |-> codes[k].link])
  BY DEF PairLocally
<1> DEFINE p == [endpoint |-> e, link |-> codes[k].link]
<1>3. p \in Peer /\ LinkedPeer(p)
  BY <1>1, EndpointAssumption DEF Peer, Code, LinkedPeer
<1>4. PICK list \in Upserted(peers[s], p) : peers' = [peers EXCEPT ![s] = list]
  BY <1>2 DEF UpsertPeer
<1> HIDE DEF p
<1>5. peers' \in [Servers -> Seq(Peer)] /\ PeersLinked'
  <2>1. peers[s] \in Seq(Peer) /\ \A x \in Range(peers[s]) : LinkedPeer(x)
    BY DEF Consistent, TypeOK, Linked, PeersLinked
  <2>2. list \in Seq(Peer) /\ \A x \in Range(list) : LinkedPeer(x)
    BY <1>3, <1>4, <2>1, UpsertedPeers
  <2> QED BY <1>4, <2>2, PeersReplaced
<1>6. codes' \in [Codes -> Code \cup {None}] /\ CodesLinked'
  <2>1. codes' = [codes EXCEPT ![k] = [codes[k] EXCEPT !.used = TRUE]]
    BY DEF PairLocally
  <2>2. codes \in [Codes -> Code \cup {None}]
    BY DEF Consistent, TypeOK
  <2>3. codes' = [x \in Codes |-> codes'[x]]
    BY <2>1, <2>2
  <2> QED BY <1>1, <2>1, <2>2, <2>3, CodesMarked
<1>7. events' \in 0..MaxEvents
  BY NumbersAssumption DEF PairLocally, Count, Consistent, TypeOK
<1>8. /\ UNCHANGED <<clients, disabled, served, exit, doubt, withdrawn>>
      /\ behind' = behind \cup {s} /\ req' = Overtaking(s)
  BY DEF PairLocally
<1>9. req' \in [Requests -> Request] /\ \A x \in Requests : Sound(req'[x])
  BY <1>8, OvertakingIsSound, ConsistentRequests
<1>10. TypeOK'
  BY <1>5, <1>6, <1>7, <1>8, <1>9 DEF Consistent, TypeOK
<1>11. Linked'
  BY <1>5, <1>6, <1>8, <1>9 DEF Consistent, Linked, ClientsLinked
<1> QED BY <1>10, <1>11 DEF Consistent

(* Part of a list is as good as the list. *)
LEMMA PeersKept ==
  ASSUME Consistent, NEW s \in Servers, NEW K, K \subseteq DOMAIN peers[s],
         NEW list \in Kept(peers[s], K), peers' = [peers EXCEPT ![s] = list]
  PROVE  peers' \in [Servers -> Seq(Peer)] /\ PeersLinked'
<1>1. peers[s] \in Seq(Peer) /\ \A q \in Range(peers[s]) : LinkedPeer(q)
  BY DEF Consistent, TypeOK, Linked, PeersLinked
<1>2. list \in Seq(Peer) /\ Range(list) = {peers[s][i] : i \in K}
  BY <1>1, KeptEntries
<1>3. Range(list) \subseteq Range(peers[s])
  BY <1>2 DEF Range
<1> QED BY <1>1, <1>2, <1>3, PeersReplaced

(* The notification of a removed peer. *)
Unpeered(s, e) ==
  [NoRequest EXCEPT !.op = "unpeer", !.at = s, !.to = At[e], !.exitEndpoint = e,
                    !.endpoint = Self[s], !.step = "rewrite", !.waiting = TRUE]

LEMMA RemoveChainPeerConsistent ==
  ASSUME Consistent, NEW r \in Requests, NEW s \in Servers, RemoveChainPeer(r, s)
  PROVE  Consistent'
<1>1. PICK i \in DOMAIN peers[s] :
        /\ KeepPeers(s, DOMAIN peers[s] \ {i})
        /\ Begin(r, Unpeered(s, peers[s][i].endpoint))
  BY DEF RemoveChainPeer, Unpeered
<1> DEFINE e == peers[s][i].endpoint
           q == Unpeered(s, e)
<1>2. PICK list \in Kept(peers[s], DOMAIN peers[s] \ {i}) : peers' = [peers EXCEPT ![s] = list]
  BY <1>1 DEF KeepPeers
<1>3. e \in Endpoints
  <2>1. peers[s] \in Seq(Peer)
    BY DEF Consistent, TypeOK
  <2>2. peers[s][i] \in Peer
    BY <2>1, ElementOfSeq, LenProperties
  <2> QED BY <2>2 DEF Peer
<1>4. At[e] \in Servers /\ Self[s] \in Endpoints \cup {None}
  BY <1>3, EndpointAssumption
<1>5. req' = Begun(r, q) /\ doubt' = Crossed(r, q)
  BY <1>1 DEF Begin, Begun, Crossed, Others
<1> HIDE DEF e
<1>6. q \in Request /\ Unpeering(q) /\ Notifying(q)
  BY <1>3, <1>4 DEF Unpeered, NoRequest, Request, Unpeering, Notifying
<1> HIDE DEF q
<1>7. /\ req' \in [Requests -> Request] /\ \A x \in Requests : Sound(req'[x])
      /\ doubt' \subseteq Servers \X Servers
  BY <1>5, <1>6, BegunIsSound, ConsistentRequests DEF Sound
<1>8. peers' \in [Servers -> Seq(Peer)] /\ PeersLinked'
  BY <1>2, PeersKept
<1>9. events' \in 0..MaxEvents
  BY NumbersAssumption DEF RemoveChainPeer, Count, Consistent, TypeOK
<1>10. UNCHANGED <<clients, disabled, codes, served, exit, behind, withdrawn>>
  BY DEF RemoveChainPeer
<1>11. TypeOK'
  BY <1>7, <1>8, <1>9, <1>10 DEF Consistent, TypeOK
<1>12. Linked'
  BY <1>7, <1>8, <1>10 DEF Consistent, Linked, ClientsLinked, CodesLinked
<1> QED BY <1>11, <1>12 DEF Consistent

(* The notification of a removed client. *)
Unclient(s, e) ==
  [NoRequest EXCEPT !.op = "unclient", !.at = s, !.to = At[e], !.exitEndpoint = Self[s],
                    !.endpoint = e, !.link = clients[s][e], !.step = "sent",
                    !.waiting = TRUE]

LEMMA RemoveChainClientConsistent ==
  ASSUME Consistent, NEW r \in Requests, NEW s \in Servers, RemoveChainClient(r, s)
  PROVE  Consistent'
<1>1. PICK e \in Endpoints :
        /\ clients[s][e] # None
        /\ clients' = [clients EXCEPT ![s][e] = None]
        /\ Begin(r, Unclient(s, e))
  BY DEF RemoveChainClient, Unclient
<1> DEFINE q == Unclient(s, e)
<1>2. clients[s][e] \in Links /\ ExitOf[clients[s][e]] = s
  BY <1>1 DEF Consistent, TypeOK, Linked, ClientsLinked
<1>3. At[e] \in Servers /\ Self[s] \in Endpoints \cup {None}
  BY EndpointAssumption
<1>4. q \in Request /\ Unclienting(q) /\ Notifying(q)
  BY <1>2, <1>3 DEF Unclient, NoRequest, Request, Unclienting, Notifying
<1>5. req' = Begun(r, q) /\ doubt' = Crossed(r, q)
  BY <1>1 DEF Begin, Begun, Crossed, Others
<1> HIDE DEF q
<1>6. /\ req' \in [Requests -> Request] /\ \A x \in Requests : Sound(req'[x])
      /\ doubt' \subseteq Servers \X Servers
  BY <1>4, <1>5, BegunIsSound, ConsistentRequests DEF Sound
<1>7. clients' \in [Servers -> [Endpoints -> Links \cup {None}]] /\ ClientsLinked'
  BY <1>1 DEF Consistent, TypeOK, Linked, ClientsLinked
<1>8. events' \in 0..MaxEvents
  BY NumbersAssumption DEF RemoveChainClient, Count, Consistent, TypeOK
<1>9. UNCHANGED <<peers, disabled, codes, served, exit, behind, withdrawn>>
  BY DEF RemoveChainClient
<1>10. TypeOK'
  BY <1>6, <1>7, <1>8, <1>9 DEF Consistent, TypeOK
<1>11. Linked'
  BY <1>6, <1>7, <1>9 DEF Consistent, Linked, PeersLinked, CodesLinked
<1> QED BY <1>10, <1>11 DEF Consistent

LEMMA SetChainAcceptingConsistent ==
  ASSUME Consistent, NEW s \in Servers, SetChainAccepting(s)
  PROVE  Consistent'
<1> DEFINE own == {k \in Codes : codes[k] # None /\ codes[k].by = s}
<1>1. codes \in [Codes -> Code \cup {None}]
  BY DEF Consistent, TypeOK
<1>2. codes' \in [Codes -> Code \cup {None}] /\ CodesLinked'
  <2>1. CASE disabled'[s]
    <3>1. codes' = [k \in Codes |-> IF k \in own THEN [codes[k] EXCEPT !.listed = FALSE]
                                               ELSE codes[k]]
      BY <2>1 DEF SetChainAccepting
    <3> QED BY <3>1, CodesMarked
  <2>2. CASE ~disabled'[s]
    <3>1. codes' = codes
      BY <2>2 DEF SetChainAccepting
    <3> QED BY <3>1 DEF Consistent, TypeOK, Linked, CodesLinked
  <2> QED BY <2>1, <2>2
<1>3. withdrawn' \subseteq Codes
  BY DEF SetChainAccepting, Consistent, TypeOK
<1>4. disabled' \in [Servers -> BOOLEAN]
  BY DEF SetChainAccepting, Consistent, TypeOK
<1>5. events' \in 0..MaxEvents
  BY NumbersAssumption DEF SetChainAccepting, Count, Consistent, TypeOK
<1>6. UNCHANGED <<peers, clients, served, exit, req, doubt, behind>>
  BY DEF SetChainAccepting
<1>7. TypeOK'
  BY <1>2, <1>3, <1>4, <1>5, <1>6 DEF Consistent, TypeOK
<1>8. Linked'
  BY <1>2, <1>6 DEF Consistent, Linked, PeersLinked, ClientsLinked
<1> QED BY <1>7, <1>8 DEF Consistent

LEMMA AdvancedRequests ==
  ASSUME AllSound, NEW r \in Requests, Notifying(req[r]),
         NEW step \in {"serving", "ok", "refused"},
         step = "serving" => req[r].op # "pair", step = "refused" => req[r].op = "pair",
         req' = [req EXCEPT ![r].step = step]
  PROVE  req' \in [Requests -> Request] /\ \A x \in Requests : Sound(req'[x])
<1> DEFINE q == [req[r] EXCEPT !.step = step]
<1>1. req[r] \in Request /\ Sound(req[r]) /\ req[r] # NoRequest
  BY NoRequestIsSound DEF AllSound
<1>2. q \in Request
  BY <1>1 DEF Request
<1>3. Same(q, req[r]) /\ q.step = step
  BY <1>1, AdvancedIsSame
<1>4. req' = [req EXCEPT ![r] = q]
  OBVIOUS
<1> HIDE DEF q
<1>5. Onward(q, req[r])
  BY <1>3 DEF Onward, Notifying
<1>6. Sound(q)
  BY <1>1, <1>3, <1>5, OnwardIsSound
<1> QED BY <1>2, <1>4, <1>6, OneIsChanged

LEMMA ExitIsLink ==
  ASSUME Consistent
  PROVE  \A s \in Servers : ChainExit(peers[s]) \in Links \cup {None}
<1> SUFFICES ASSUME NEW s \in Servers, peers[s] # <<>>
             PROVE  peers[s][1].link \in Links
  BY DEF ChainExit
<1>1. peers[s] \in Seq(Peer)
  BY DEF Consistent, TypeOK
<1>2. 1 \in 1..Len(peers[s])
  BY <1>1, EmptySeq
<1>3. peers[s][1] \in Peer
  BY <1>1, <1>2, ElementOfSeq
<1> QED BY <1>3 DEF Peer

(* A handler has taken its snapshot: all before it are overtaken. *)
LEMMA LookedRequests ==
  ASSUME Consistent, NEW r \in Requests, NEW s \in Servers, NEW step, Look(r, s, step),
         \/ req[r].step = "rewrite" /\ step = "install"
         \/ req[r].step = "serving" /\ step = "replace"
  PROVE  /\ req' \in [Requests -> Request] /\ \A x \in Requests : Sound(req'[x])
         /\ \A x \in Requests \ {r} : req'[x] = Overtaking(s)[x]
         /\ Same(req'[r], req[r]) /\ req'[r].step = step
         /\ req'[r].sole = req[r].sole /\ req'[r].waiting = req[r].waiting
         /\ req'[r].outbound = ChainExit(peers[s]) /\ ~req'[r].overtaken
<1> DEFINE q == [req[r] EXCEPT !.step = step, !.outbound = ChainExit(peers[s]),
                               !.overtaken = FALSE]
<1>1. AllSound /\ req[r] \in Request /\ Sound(req[r]) /\ req[r] # NoRequest
  BY ConsistentRequests DEF AllSound, NoRequest
<1>2. /\ q.step = step /\ q.sole = req[r].sole /\ q.waiting = req[r].waiting
      /\ q.outbound = ChainExit(peers[s]) /\ q.overtaken = FALSE /\ Same(q, req[r])
  BY <1>1 DEF Request, Same
<1>3. q \in Request
  BY <1>1, ExitIsLink DEF Request
<1>4. req' = [Overtaking(s) EXCEPT ![r] = q]
  BY DEF Look
<1> HIDE DEF q
<1>5. Onward(q, req[r])
  BY <1>1, <1>2, SoundRequests DEF Onward, Pairing, Unpeering, Local, Notifying
<1>6. Sound(q)
  BY <1>1, <1>2, <1>5, OnwardIsSound
<1>7. /\ Overtaking(s) \in [Requests -> Request]
      /\ \A x \in Requests : Sound(Overtaking(s)[x])
  BY <1>1, OvertakingIsSound
<1>8. req'[r] = q /\ \A x \in Requests \ {r} : req'[x] = Overtaking(s)[x]
  BY <1>4, <1>7
<1>9. req' \in [Requests -> Request]
  BY <1>3, <1>4, <1>7
<1> QED BY <1>2, <1>6, <1>7, <1>8, <1>9

(* It has installed what it rendered: its notification or its answer comes next. *)
LEMMA WrittenRequests ==
  ASSUME AllSound, NEW r \in Requests, NEW step, Written(r, step),
         \/ req[r].step = "install" /\ step = "sent"
         \/ req[r].step = "replace" /\ step = "ok"
  PROVE  /\ req' \in [Requests -> Request] /\ \A x \in Requests : Sound(req'[x])
         /\ \A x \in Requests \ {r} : req'[x] = req[x]
         /\ ~Notifying(req[r]) => req'[r] = NoRequest
         /\ Notifying(req[r]) => /\ Same(req'[r], req[r]) /\ req'[r].step = step
                                 /\ req'[r].sole = req[r].sole
                                 /\ req'[r].waiting = req[r].waiting
<1> DEFINE q == [req[r] EXCEPT !.step = step, !.outbound = None, !.overtaken = FALSE]
           new == IF Notifying(req[r]) THEN q ELSE NoRequest
<1>1. req[r] \in Request /\ Sound(req[r]) /\ req[r] # NoRequest
  BY DEF AllSound, NoRequest
<1>2. /\ q.step = step /\ q.sole = req[r].sole /\ q.waiting = req[r].waiting
      /\ Same(q, req[r])
  BY <1>1 DEF Request, Same
<1>3. q \in Request
  BY <1>1 DEF Request
<1>4. req' = [req EXCEPT ![r] = new]
  BY DEF Written
<1> HIDE DEF q
<1>5. Notifying(req[r]) => Onward(q, req[r])
  BY <1>1, <1>2 DEF Onward, Notifying
<1>6. Notifying(req[r]) => Sound(q)
  BY <1>1, <1>2, <1>5, OnwardIsSound
<1>7. new \in Request /\ Sound(new)
  BY <1>3, <1>6, NoRequestIsSound
<1>8. req'[r] = new /\ \A x \in Requests \ {r} : req'[x] = req[x]
  BY <1>4 DEF AllSound
<1>9. ~Notifying(req[r]) => new = NoRequest
  OBVIOUS
<1>10. Notifying(req[r]) => new = q
  OBVIOUS
<1> HIDE DEF new
<1>11. req' \in [Requests -> Request] /\ \A x \in Requests : Sound(req'[x])
  BY <1>4, <1>7, OneIsChanged
<1> QED BY <1>2, <1>8, <1>9, <1>10, <1>11

LEMMA WriteConfigTyped ==
  ASSUME Consistent, NEW q \in Request, NEW s \in Servers, WriteConfig(q, s)
  PROVE  exit' \in [Servers -> Links \cup {None}] /\ behind' \subseteq Servers
<1>1. exit \in [Servers -> Links \cup {None}] /\ behind \subseteq Servers
  BY DEF Consistent, TypeOK
<1>2. q.outbound \in Links \cup {None}
  BY DEF Request
<1> QED BY <1>1, <1>2 DEF WriteConfig

(* Where a request is going to write. *)
LEMMA WritersServers ==
  ASSUME AllSound, NEW r \in Requests
  PROVE  /\ req[r].step \in {"rewrite", "install"} => req[r].at \in Servers
         /\ req[r].step \in {"serving", "replace"} => req[r].to \in Servers
<1>1. req[r] \in Request /\ Sound(req[r])
  BY DEF AllSound
<1> QED BY <1>1, SoundRequests DEF Pairing, Unpeering, Local

LEMMA RewriteConsistent ==
  ASSUME Consistent, NEW r \in Requests, Rewrite(r) \/ ServeRewrite(r)
  PROVE  Consistent'
<1>1. AllSound
  BY ConsistentRequests
<1>2. req' \in [Requests -> Request] /\ \A x \in Requests : Sound(req'[x])
  <2>1. CASE Rewrite(r)
    <3>1. req[r].step = "rewrite" /\ req[r].at \in Servers
      BY <1>1, <2>1, WritersServers DEF Rewrite
    <3> QED BY <2>1, <3>1, LookedRequests DEF Rewrite
  <2>2. CASE ServeRewrite(r)
    <3>1. req[r].step = "serving" /\ req[r].to \in Servers
      BY <1>1, <2>2, WritersServers DEF ServeRewrite
    <3> QED BY <2>2, <3>1, LookedRequests DEF ServeRewrite
  <2> QED BY <2>1, <2>2
<1>3. UNCHANGED <<peers, clients, disabled, codes, served, exit, doubt, behind,
                  withdrawn, events>>
  BY DEF Rewrite, ServeRewrite, lists, history
<1>4. TypeOK'
  BY <1>2, <1>3 DEF Consistent, TypeOK
<1>5. Linked'
  BY <1>2, <1>3 DEF Consistent, Linked, PeersLinked, ClientsLinked, CodesLinked
<1> QED BY <1>4, <1>5 DEF Consistent

LEMMA InstallConsistent ==
  ASSUME Consistent, NEW r \in Requests, Install(r) \/ ServeInstall(r)
  PROVE  Consistent'
<1>1. AllSound /\ req[r] \in Request
  BY ConsistentRequests DEF AllSound
<1>2. req' \in [Requests -> Request] /\ \A x \in Requests : Sound(req'[x])
  <2>1. CASE Install(r)
    BY <1>1, <2>1, WrittenRequests DEF Install
  <2>2. CASE ServeInstall(r)
    BY <1>1, <2>2, WrittenRequests DEF ServeInstall
  <2> QED BY <2>1, <2>2
<1>3. exit' \in [Servers -> Links \cup {None}] /\ behind' \subseteq Servers
  <2>1. CASE Install(r)
    BY <1>1, <2>1, WriteConfigTyped, WritersServers DEF Install
  <2>2. CASE ServeInstall(r)
    BY <1>1, <2>2, WriteConfigTyped, WritersServers DEF ServeInstall
  <2> QED BY <2>1, <2>2
<1>4. UNCHANGED <<peers, clients, disabled, codes, served, doubt, withdrawn, events>>
  BY DEF Install, ServeInstall, lists
<1>5. TypeOK'
  BY <1>2, <1>3, <1>4 DEF Consistent, TypeOK
<1>6. Linked'
  BY <1>2, <1>4 DEF Consistent, Linked, PeersLinked, ClientsLinked, CodesLinked
<1> QED BY <1>5, <1>6 DEF Consistent

LEMMA ChainPublicPairedConsistent ==
  ASSUME Consistent, NEW r \in Requests, ChainPublicPaired(r)
  PROVE  Consistent'
<1> DEFINE q == req[r]
<1>1. AllSound /\ q \in Request /\ Sound(q) /\ Pairing(q) /\ Notifying(q)
  BY ConsistentRequests, SoundRequests DEF AllSound, ChainPublicPaired, Notifying
<1>2. req' \in [Requests -> Request] /\ \A x \in Requests : Sound(req'[x])
  <2>1. q.op = "pair"
    BY <1>1 DEF Pairing
  <2>2. \/ req' = [req EXCEPT ![r].step = "ok"]
        \/ req' = [req EXCEPT ![r].step = "refused"]
    BY DEF ChainPublicPaired, Advance
  <2> QED BY <1>1, <2>1, <2>2, AdvancedRequests
<1>3. /\ q.to \in Servers /\ q.endpoint \in Endpoints
      /\ q.link \in Links /\ ExitOf[q.link] = q.to
  BY <1>1 DEF Pairing
<1>4. \/ /\ clients' = [clients EXCEPT ![q.to][q.endpoint] = q.link]
         /\ codes' = [k \in Codes |->
                 IF k = q.code /\ codes[k] # None /\ codes[k].by = q.to /\ codes[k].listed
                   THEN [codes[k] EXCEPT !.used = TRUE] ELSE codes[k]]
      \/ UNCHANGED <<clients, codes>>
  BY DEF ChainPublicPaired
<1> HIDE DEF q
<1>5. clients' \in [Servers -> [Endpoints -> Links \cup {None}]] /\ ClientsLinked'
  <2>1. clients \in [Servers -> [Endpoints -> Links \cup {None}]] /\ ClientsLinked
    BY DEF Consistent, TypeOK, Linked
  <2>2. CASE clients' = [clients EXCEPT ![q.to][q.endpoint] = q.link]
    BY <1>3, <2>1, <2>2 DEF ClientsLinked
  <2>3. CASE UNCHANGED clients
    BY <2>1, <2>3 DEF ClientsLinked
  <2> QED BY <1>4, <2>2, <2>3
<1>6. codes' \in [Codes -> Code \cup {None}] /\ CodesLinked'
  <2>1. CASE UNCHANGED codes
    BY <2>1 DEF Consistent, TypeOK, Linked, CodesLinked
  <2>2. CASE codes' = [k \in Codes |->
                 IF k = q.code /\ codes[k] # None /\ codes[k].by = q.to /\ codes[k].listed
                   THEN [codes[k] EXCEPT !.used = TRUE] ELSE codes[k]]
    BY <2>2, CodesMarked
  <2> QED BY <1>4, <2>1, <2>2
<1>7. UNCHANGED <<peers, disabled, served, exit, doubt, behind, withdrawn, events>>
  BY DEF ChainPublicPaired, history
<1>8. TypeOK'
  BY <1>2, <1>5, <1>6, <1>7 DEF Consistent, TypeOK
<1>9. Linked'
  BY <1>2, <1>5, <1>6, <1>7 DEF Consistent, Linked, PeersLinked
<1> QED BY <1>8, <1>9 DEF Consistent

(* What an unpairing leaves of the two lists of its server. *)
LEMMA UnpairEffect ==
  ASSUME Consistent, NEW s \in Servers, NEW q, Unpair(s, q)
  PROVE  /\ \E list \in Kept(peers[s], Unmatched(s, q)) :
              /\ peers' = [peers EXCEPT ![s] = list]
              /\ Range(list) = {p \in Range(peers[s]) : ~PeerMatches(p, q)}
         /\ clients' = [clients EXCEPT ![s] =
              [e \in Endpoints |-> IF e = q.endpoint THEN None ELSE clients[s][e]]]
         /\ \A z \in Servers \ {s} : peers'[z] = peers[z] /\ clients'[z] = clients[z]
<1>1. PICK list \in Kept(peers[s], Unmatched(s, q)) : peers' = [peers EXCEPT ![s] = list]
  BY DEF Unpair, KeepPeers
<1>2. /\ peers[s] \in Seq(Peer) /\ peers \in [Servers -> Seq(Peer)]
      /\ clients \in [Servers -> [Endpoints -> Links \cup {None}]]
  BY DEF Consistent, TypeOK
<1>3. Unmatched(s, q) \subseteq DOMAIN peers[s]
  BY DEF Unmatched
<1>4. Range(list) = {peers[s][k] : k \in Unmatched(s, q)}
  BY <1>1, <1>2, <1>3, KeptEntries
<1>5. Range(list) = {p \in Range(peers[s]) : ~PeerMatches(p, q)}
  BY <1>4 DEF Range, Unmatched
<1>6. clients' = [clients EXCEPT ![s] =
        [e \in Endpoints |-> IF e = q.endpoint THEN None ELSE clients[s][e]]]
  BY DEF Unpair
<1>7. \A z \in Servers \ {s} : peers'[z] = peers[z] /\ clients'[z] = clients[z]
  BY <1>1, <1>2, <1>6
<1> QED BY <1>1, <1>5, <1>6, <1>7

LEMMA UnpairConsistent ==
  ASSUME Consistent, NEW s \in Servers, NEW q, Unpair(s, q)
  PROVE  /\ peers' \in [Servers -> Seq(Peer)] /\ PeersLinked'
         /\ clients' \in [Servers -> [Endpoints -> Links \cup {None}]] /\ ClientsLinked'
<1>1. PICK list \in Kept(peers[s], Unmatched(s, q)) : peers' = [peers EXCEPT ![s] = list]
  BY UnpairEffect
<1>2. Unmatched(s, q) \subseteq DOMAIN peers[s]
  BY DEF Unmatched
<1>3. peers' \in [Servers -> Seq(Peer)] /\ PeersLinked'
  BY <1>1, <1>2, PeersKept
<1>4. clients' = [clients EXCEPT ![s] =
        [e \in Endpoints |-> IF e = q.endpoint THEN None ELSE clients[s][e]]]
  BY UnpairEffect
<1>5. clients' \in [Servers -> [Endpoints -> Links \cup {None}]] /\ ClientsLinked'
  BY <1>4 DEF Consistent, TypeOK, Linked, ClientsLinked
<1> QED BY <1>3, <1>5

LEMMA ChainPublicUnpairedConsistent ==
  ASSUME Consistent, NEW r \in Requests, ChainPublicUnpaired(r)
  PROVE  Consistent'
<1> DEFINE q == req[r]
<1>1. AllSound /\ q \in Request /\ Sound(q) /\ Notifying(q) /\ q.op # "pair"
  BY ConsistentRequests, SoundRequests DEF AllSound, ChainPublicUnpaired, Notifying
<1>2. req' \in [Requests -> Request] /\ \A x \in Requests : Sound(req'[x])
  <2>1. \/ req' = [req EXCEPT ![r].step = "ok"]
        \/ req' = [req EXCEPT ![r].step = "serving"]
    BY DEF ChainPublicUnpaired, Advance
  <2> QED BY <1>1, <2>1, AdvancedRequests
<1>3. q.to \in Servers /\ Unpair(q.to, q)
  BY <1>1, SoundRequests DEF ChainPublicUnpaired
<1>4. UNCHANGED <<disabled, codes, served, exit, doubt, behind, withdrawn, events>>
  BY DEF ChainPublicUnpaired, history
<1> HIDE DEF q
<1>5. /\ peers' \in [Servers -> Seq(Peer)] /\ PeersLinked'
      /\ clients' \in [Servers -> [Endpoints -> Links \cup {None}]] /\ ClientsLinked'
  BY <1>3, UnpairConsistent
<1>6. TypeOK'
  BY <1>2, <1>4, <1>5 DEF Consistent, TypeOK
<1>7. Linked'
  BY <1>2, <1>4, <1>5 DEF Consistent, Linked, CodesLinked
<1> QED BY <1>6, <1>7 DEF Consistent

(* A post from outside: what becomes of the requests about the pairs it cuts. *)
LEMMA SeveredRequests ==
  ASSUME Consistent, NEW r \in Requests, NEW s \in Servers, NEW post,
         OutsideUnpaired(r, s, post)
  PROVE  /\ req' \in [Requests -> Request] /\ \A x \in Requests : Sound(req'[x])
         /\ Severed(s, post) \subseteq Servers \X Servers
         /\ Local(req'[r]) /\ req'[r].step = "rewrite" /\ req'[r].at = s
         /\ req'[r].op = "outside"
         /\ \A x \in Requests \ {r} :
              IF Notifying(req[x]) /\ Concerned(req[x]) \in Severed(s, post)
                THEN req'[x] = [req[x] EXCEPT !.sole = FALSE] ELSE req'[x] = req[x]
<1> DEFINE q == [NoRequest EXCEPT !.op = "outside", !.at = s, !.step = "rewrite"]
<1>1. AllSound
  BY ConsistentRequests
<1>2. q \in Request /\ Local(q) /\ q.step = "rewrite" /\ q.at = s /\ q.op = "outside"
  BY DEF NoRequest, Request, Local
<1>3. req' = [x \in Requests |->
                IF x = r THEN q
                ELSE IF Notifying(req[x]) /\ Concerned(req[x]) \in Severed(s, post)
                  THEN [req[x] EXCEPT !.sole = FALSE]
                ELSE req[x]]
  BY DEF OutsideUnpaired
<1> HIDE DEF q
<1>4. ASSUME NEW x \in Requests PROVE req'[x] \in Request /\ Sound(req'[x])
  <2>1. req[x] \in Request /\ Sound(req[x])
    BY <1>1 DEF AllSound
  <2>2. CASE x = r
    BY <1>2, <1>3, <2>2 DEF Sound
  <2>3. CASE x # r /\ Notifying(req[x]) /\ Concerned(req[x]) \in Severed(s, post)
    <3>1. req'[x] = [req[x] EXCEPT !.sole = FALSE]
      BY <1>3, <2>3
    <3> QED BY <2>1, <2>3, <3>1, TouchedIsSound, NoRequestIsSound
  <2>4. CASE x # r /\ ~(Notifying(req[x]) /\ Concerned(req[x]) \in Severed(s, post))
    <3>1. req'[x] = req[x]
      BY <1>3, <2>4
    <3> QED BY <2>1, <3>1
  <2> QED BY <2>2, <2>3, <2>4
<1>5. Severed(s, post) \subseteq Servers \X Servers
  <2>1. peers[s] \in Seq(Peer)
    BY DEF Consistent, TypeOK
  <2>2. ASSUME NEW i \in DOMAIN peers[s] PROVE peers[s][i].endpoint \in Endpoints
    <3>1. peers[s][i] \in Peer
      BY <2>1, ElementOfSeq, LenProperties
    <3> QED BY <3>1 DEF Peer
  <2>3. \A e \in Endpoints : At[e] \in Servers
    BY EndpointAssumption
  <2>4. {<<s, At[peers[s][i].endpoint]>> : i \in DOMAIN peers[s] \ Unmatched(s, post)}
          \subseteq Servers \X Servers
    BY <2>2, <2>3
  <2>5. {<<At[e], s>> : e \in {x \in Endpoints : x = post.endpoint /\ clients[s][x] # None}}
          \subseteq Servers \X Servers
    BY <2>3
  <2> QED BY <2>4, <2>5 DEF Severed
<1>6. req' \in [Requests -> Request]
  BY <1>3, <1>4
<1>7. req'[r] = q /\ \A x \in Requests \ {r} :
        IF Notifying(req[x]) /\ Concerned(req[x]) \in Severed(s, post)
          THEN req'[x] = [req[x] EXCEPT !.sole = FALSE] ELSE req'[x] = req[x]
  BY <1>3
<1> QED BY <1>2, <1>4, <1>5, <1>6, <1>7

LEMMA OutsideUnpairedConsistent ==
  ASSUME Consistent, NEW r \in Requests, NEW s \in Servers, NEW post,
         OutsideUnpaired(r, s, post)
  PROVE  Consistent'
<1>1. req' \in [Requests -> Request] /\ \A x \in Requests : Sound(req'[x])
  BY SeveredRequests
<1>2. doubt' \subseteq Servers \X Servers
  BY SeveredRequests, ConsistentRequests DEF OutsideUnpaired
<1>3. /\ peers' \in [Servers -> Seq(Peer)] /\ PeersLinked'
      /\ clients' \in [Servers -> [Endpoints -> Links \cup {None}]] /\ ClientsLinked'
  BY UnpairConsistent DEF OutsideUnpaired
<1>4. events' \in 0..MaxEvents
  BY NumbersAssumption DEF OutsideUnpaired, Count, Consistent, TypeOK
<1>5. UNCHANGED <<disabled, codes, served, exit, behind, withdrawn>>
  BY DEF OutsideUnpaired
<1>6. TypeOK'
  BY <1>1, <1>2, <1>3, <1>4, <1>5 DEF Consistent, TypeOK
<1>7. Linked'
  BY <1>1, <1>3, <1>5 DEF Consistent, Linked, CodesLinked
<1> QED BY <1>6, <1>7 DEF Consistent

(* A request that ends, or whose handler returns. *)
LEMMA EndConsistent ==
  ASSUME Consistent, NEW r \in Requests, Lose(r) \/ TimeOut(r) \/ Finish(r)
  PROVE  Consistent'
<1>1. AllSound /\ req[r] \in Request /\ Sound(req[r])
  BY ConsistentRequests DEF AllSound
<1>2. Notifying(req[r]) /\ Concerned(req[r]) \in Servers \X Servers
  BY <1>1, SoundRequests DEF Lose, TimeOut, Finish
<1>3. req' \in [Requests -> Request] /\ \A x \in Requests : Sound(req'[x])
  <2>1. \/ req' = [req EXCEPT ![r] = NoRequest]
        \/ req' = [req EXCEPT ![r] = [req[r] EXCEPT !.waiting = FALSE]]
    BY DEF Lose, TimeOut, Finish
  <2>2. [req[r] EXCEPT !.waiting = FALSE] \in Request /\ Sound([req[r] EXCEPT !.waiting = FALSE])
    BY <1>1, <1>2, TouchedIsSound, NoRequestIsSound
  <2>3. CASE req' = [req EXCEPT ![r] = NoRequest]
    BY <1>1, <2>3, OneIsChanged, NoRequestIsSound
  <2>4. CASE req' = [req EXCEPT ![r] = [req[r] EXCEPT !.waiting = FALSE]]
    BY <1>1, <2>2, <2>4, OneIsChanged
  <2> QED BY <2>1, <2>3, <2>4
<1>4. doubt' \subseteq Servers \X Servers
  <2>1. doubt' \subseteq doubt \cup {Concerned(req[r])}
    BY DEF Lose, TimeOut, Finish
  <2> QED BY <1>2, <2>1, ConsistentRequests
<1>5. UNCHANGED <<peers, clients, disabled, codes, served, exit, behind, withdrawn, events>>
  BY DEF Lose, TimeOut, Finish, lists
<1>6. TypeOK'
  BY <1>3, <1>4, <1>5 DEF Consistent, TypeOK
<1>7. Linked'
  BY <1>3, <1>5 DEF Consistent, Linked, PeersLinked, ClientsLinked, CodesLinked
<1> QED BY <1>6, <1>7 DEF Consistent

LEMMA ExpireConsistent ==
  ASSUME Consistent, NEW k \in Codes, Expire(k)
  PROVE  Consistent'
<1>1. codes' \in [Codes -> Code \cup {None}] /\ CodesLinked'
  BY DEF Expire, Consistent, TypeOK, Linked, CodesLinked
<1>2. UNCHANGED <<peers, clients, disabled, served, exit, req, doubt, behind, withdrawn, events>>
  BY DEF Expire, history
<1>3. TypeOK'
  BY <1>1, <1>2 DEF Consistent, TypeOK
<1>4. Linked'
  BY <1>1, <1>2 DEF Consistent, Linked, PeersLinked, ClientsLinked
<1> QED BY <1>3, <1>4 DEF Consistent

LEMMA HandleOtherConsistent ==
  ASSUME Consistent, NEW r \in Requests, NEW s \in Servers, HandleOther(r, s)
  PROVE  Consistent'
<1> DEFINE q == [NoRequest EXCEPT !.op = "other", !.at = s, !.step = "rewrite"]
<1>1. PICK ls \in SUBSET {l \in Links : ExitOf[l] = s} : served' = [served EXCEPT ![s] = ls]
  BY DEF HandleOther
<1>2. /\ served' \in [Servers -> SUBSET Links]
      /\ \A t \in Servers : \A l \in served'[t] : ExitOf[l] = t
  BY <1>1 DEF Consistent, TypeOK, Linked
<1>3. q \in Request /\ Local(q)
  BY DEF NoRequest, Request, Local
<1>4. req' = [req EXCEPT ![r] = q]
  BY DEF HandleOther
<1> HIDE DEF q
<1>5. req' \in [Requests -> Request] /\ \A x \in Requests : Sound(req'[x])
  BY <1>3, <1>4, OneIsChanged, ConsistentRequests DEF Sound
<1>6. events' \in 0..MaxEvents
  BY NumbersAssumption DEF HandleOther, Count, Consistent, TypeOK
<1>7. UNCHANGED <<peers, clients, disabled, codes, exit, doubt, behind, withdrawn>>
  BY DEF HandleOther, history
<1>8. TypeOK'
  BY <1>2, <1>5, <1>6, <1>7 DEF Consistent, TypeOK
<1>9. Linked'
  BY <1>2, <1>5, <1>7 DEF Consistent, Linked, PeersLinked, ClientsLinked, CodesLinked
<1> QED BY <1>8, <1>9 DEF Consistent

(* The requests a crash of s hits, and those it ends. *)
Hit(s) ==
  {r \in Requests : \/ req[r].at = s
                    \/ req[r].to = s /\ req[r].step \in {"serving", "replace"}}
Cut(s) ==
  {r \in Hit(s) : \/ req[r].at = s /\ req[r].step \in {"issue", "rewrite", "install"}
                  \/ req[r].to = s /\ req[r].step \in {"serving", "replace"}}

LEMMA CrashEffect ==
  ASSUME NEW s \in Servers, Crash(s)
  PROVE  /\ req' = [r \in Requests |->
                      IF r \in Cut(s) THEN NoRequest
                      ELSE IF r \in Hit(s) THEN [req[r] EXCEPT !.waiting = FALSE]
                      ELSE req[r]]
         /\ doubt' = doubt \cup {Concerned(req[r]) : r \in {x \in Hit(s) : Notifying(req[x])}}
         /\ \/ behind' = behind \cup {s}
            \/ behind' = behind /\ \A r \in Cut(s) : req[r].step = "issue"
BY DEF Crash, Hit, Cut

LEMMA CrashConsistent ==
  ASSUME Consistent, NEW s \in Servers, Crash(s)
  PROVE  Consistent'
<1>1. AllSound /\ doubt \subseteq Servers \X Servers
  BY ConsistentRequests
<1>2. ASSUME NEW r \in Requests
      PROVE  req'[r] \in Request /\ Sound(req'[r])
  <2>1. req[r] \in Request /\ Sound(req[r])
    BY <1>1 DEF AllSound
  <2>2. CASE r \in Cut(s)
    BY <2>2, CrashEffect, NoRequestIsSound
  <2>3. CASE r \notin Cut(s) /\ r \in Hit(s)
    <3>1. req[r] # NoRequest
      BY <2>3, NoneAssumption DEF Hit, NoRequest
    <3>2. req'[r] = [req[r] EXCEPT !.waiting = FALSE]
      BY <2>3, CrashEffect
    <3> QED BY <2>1, <3>1, <3>2, TouchedIsSound
  <2>4. CASE r \notin Cut(s) /\ r \notin Hit(s)
    BY <2>1, <2>4, CrashEffect
  <2> QED BY <2>2, <2>3, <2>4
<1>3. req' \in [Requests -> Request]
  BY <1>2, CrashEffect
<1>4. doubt' \subseteq Servers \X Servers
  <2>1. \A r \in Hit(s) : Notifying(req[r]) => Concerned(req[r]) \in Servers \X Servers
    BY <1>1, SoundRequests DEF Hit, AllSound
  <2> QED BY <1>1, <2>1, CrashEffect
<1>5. behind' \subseteq Servers
  BY CrashEffect DEF Consistent, TypeOK
<1>6. events' \in 0..MaxEvents
  BY NumbersAssumption DEF Crash, Count, Consistent, TypeOK
<1>7. UNCHANGED <<peers, clients, disabled, codes, served, exit, withdrawn>>
  BY DEF Crash, lists
<1>8. TypeOK'
  BY <1>3, <1>4, <1>5, <1>6, <1>7 DEF Consistent, TypeOK
<1>9. Linked'
  BY <1>2, <1>7 DEF Consistent, Linked, PeersLinked, ClientsLinked, CodesLinked
<1> QED BY <1>8, <1>9 DEF Consistent

(* Servers that are set up and paired. *)
LEMMA InitConsistent == Init => Consistent
<1> SUFFICES ASSUME Init PROVE Consistent
  OBVIOUS
<1>1. /\ peers \in [Servers -> Seq(Peer)]
      /\ \A s \in Servers : \A p \in Range(peers[s]) : LinkedPeer(p)
  BY FirstPeersAssumption DEF Init, LinkedPeer
<1> DEFINE Known(e, s) == {p \in Range(peers[At[e]]) : At[p.endpoint] = s}
<1>2. ASSUME NEW s \in Servers, NEW e \in Endpoints, clients[s][e] # None
      PROVE  \E p \in Known(e, s) : clients[s][e] = p.link
  <2>1. \E p \in Range(peers[At[e]]) : At[p.endpoint] = s
    BY <1>2 DEF Init
  <2>2. clients[s][e] = (CHOOSE p \in Range(peers[At[e]]) : At[p.endpoint] = s).link
    BY <1>2 DEF Init
  <2> QED BY <2>1, <2>2
<1>3. \A e \in Endpoints, s \in Servers : \A p \in Known(e, s) : p.link \in Links /\ ExitOf[p.link] = s
  <2> SUFFICES ASSUME NEW e \in Endpoints, NEW s \in Servers, NEW p \in Known(e, s)
               PROVE  p.link \in Links /\ ExitOf[p.link] = s
    OBVIOUS
  <2>1. At[e] \in Servers
    BY EndpointAssumption
  <2>2. peers[At[e]] \in Seq(Peer)
    BY <1>1, <2>1
  <2>3. p \in Peer
    BY <2>2, LenProperties, ElementOfSeq DEF Range
  <2> QED BY <1>1, <2>1, <2>3 DEF Peer, LinkedPeer
<1>4. clients \in [Servers -> [Endpoints -> Links \cup {None}]] /\ ClientsLinked
  <2>1. clients = [s \in Servers |-> [e \in Endpoints |-> clients[s][e]]]
    BY DEF Init
  <2>2. \A s \in Servers, e \in Endpoints : clients[s][e] \in Links \cup {None}
    BY <1>2, <1>3
  <2>3. ClientsLinked
    BY <1>2, <1>3 DEF ClientsLinked
  <2> QED BY <2>1, <2>2, <2>3
<1>5. exit \in [Servers -> Links \cup {None}]
  <2> SUFFICES ASSUME NEW s \in Servers, peers[s] # <<>>
               PROVE  peers[s][1].link \in Links
    BY DEF Init, ChainExit
  <2>1. peers[s] \in Seq(Peer) /\ 1 \in 1..Len(peers[s])
    BY <1>1, EmptySeq
  <2>2. peers[s][1] \in Peer
    BY <2>1, ElementOfSeq
  <2> QED BY <2>2 DEF Peer
<1>6. req \in [Requests -> Request] /\ \A r \in Requests : Sound(req[r])
  BY NoRequestIsSound DEF Init
<1>7. 0 \in 0..MaxEvents
  BY NumbersAssumption
<1>8. TypeOK
  BY <1>1, <1>4, <1>5, <1>6, <1>7 DEF Init, TypeOK
<1>9. Linked
  BY <1>1, <1>4, <1>6, NoneAssumption DEF Init, Linked, PeersLinked, CodesLinked
<1> QED BY <1>8, <1>9 DEF Consistent

LEMMA StepConsistent == Consistent /\ [Next]_vars => Consistent'
<1> SUFFICES ASSUME Consistent, [Next]_vars PROVE Consistent'
  OBVIOUS
<1>1. ASSUME NEW r \in Requests, NEW s \in Servers, NEW k \in Codes, AskCode(r, s, k) \/ Pair(r, s, k)
      PROVE  Consistent'
  BY <1>1, AskCodeConsistent, PairConsistent
<1>2. ASSUME NEW r \in Requests, NEW s \in Servers,
             \/ RemoveChainPeer(r, s) \/ RemoveChainClient(r, s) \/ HandleOther(r, s)
             \/ \E post \in Posts : OutsideUnpaired(r, s, post)
      PROVE  Consistent'
  BY <1>2, RemoveChainPeerConsistent, RemoveChainClientConsistent, HandleOtherConsistent,
     OutsideUnpairedConsistent
<1>3. ASSUME NEW s \in Servers, NEW k \in Codes, PairLocally(s, k)
      PROVE  Consistent'
  BY <1>3, PairLocallyConsistent
<1>4. ASSUME NEW s \in Servers, SetChainAccepting(s) \/ Crash(s)
      PROVE  Consistent'
  BY <1>4, SetChainAcceptingConsistent, CrashConsistent
<1>5. ASSUME NEW r \in Requests, Proceed(r)
      PROVE  Consistent'
  BY <1>5, IssueCodeConsistent, RewriteConsistent, InstallConsistent,
     ChainPublicPairedConsistent, ChainPublicUnpairedConsistent, EndConsistent DEF Proceed
<1>6. ASSUME NEW k \in Codes, Expire(k)
      PROVE  Consistent'
  BY <1>6, ExpireConsistent
<1>7. CASE UNCHANGED vars
  <2>1. TypeOK'
    BY <1>7 DEF vars, Consistent, TypeOK
  <2>2. Linked'
    BY <1>7 DEF vars, Consistent, Linked, PeersLinked, ClientsLinked, CodesLinked
  <2> QED BY <2>1, <2>2 DEF Consistent
<1> QED BY <1>1, <1>2, <1>3, <1>4, <1>5, <1>6, <1>7 DEF Next, Administrate

LEMMA StaysConsistent == Spec => []Consistent
BY InitConsistent, StepConsistent, PTL DEF Spec

(* Lists, codes, requests and histories are always what they are declared to be: no
   code without a link is issued, and nothing is written under a server's name that
   does not exist. *)
THEOREM TypeCorrect == Spec => []TypeOK
<1>1. Consistent => TypeOK
  BY DEF Consistent
<1> QED BY <1>1, StaysConsistent, PTL

-----------------------------------------------------------------------------
(* Withdrawn codes. *)

LEMMA StepDead == Consistent /\ Dead /\ [Next]_vars => Dead'
<1> SUFFICES ASSUME Consistent, Dead, [Next]_vars PROVE Dead'
  OBVIOUS
<1>1. CASE UNCHANGED <<codes, withdrawn>>
  BY <1>1 DEF Dead
<1>2. ASSUME NEW r \in Requests, IssueCode(r) PROVE Dead'
  BY <1>2 DEF IssueCode, Dead, Consistent, TypeOK
<1>3. ASSUME NEW s \in Servers, NEW k \in Codes, PairLocally(s, k) PROVE Dead'
  <2>1. codes[k] \in Code
    BY <1>3 DEF PairLocally, Redeemable, Consistent, TypeOK
  <2>2. /\ codes' = [codes EXCEPT ![k] = [codes[k] EXCEPT !.used = TRUE]]
        /\ withdrawn' = withdrawn
    BY <1>3 DEF PairLocally
  <2>3. [codes[k] EXCEPT !.used = TRUE].listed = codes[k].listed
    BY <2>1 DEF Code
  <2>4. codes[k] # None
    BY <1>3 DEF PairLocally, Redeemable
  <2> QED BY <2>2, <2>3, <2>4 DEF Dead, Consistent, TypeOK
<1>4. ASSUME NEW s \in Servers, SetChainAccepting(s) PROVE Dead'
  <2>1. CASE disabled'[s]
    <3> SUFFICES ASSUME NEW k \in Codes, k \in withdrawn', codes'[k] # None
                 PROVE  ~codes'[k].listed
      BY <1>4, <2>1 DEF SetChainAccepting, Dead, Consistent, TypeOK
    <3>1. CASE codes[k] # None /\ codes[k].by = s
      <4>1. codes'[k] = [codes[k] EXCEPT !.listed = FALSE] /\ codes[k] \in Code
        BY <1>4, <2>1, <3>1 DEF SetChainAccepting, Consistent, TypeOK
      <4> QED BY <4>1 DEF Code
    <3>2. CASE ~(codes[k] # None /\ codes[k].by = s)
      <4>1. codes'[k] = codes[k] /\ k \in withdrawn
        BY <1>4, <2>1, <3>2 DEF SetChainAccepting
      <4> QED BY <4>1 DEF Dead
    <3> QED BY <3>1, <3>2
  <2>2. CASE ~disabled'[s]
    BY <1>1, <1>4, <2>2 DEF SetChainAccepting
  <2> QED BY <2>1, <2>2
<1>5. ASSUME NEW r \in Requests, ChainPublicPaired(r) PROVE Dead'
  <2>1. withdrawn' = withdrawn /\ withdrawn \subseteq Codes
    BY <1>5 DEF ChainPublicPaired, history, Consistent, TypeOK
  <2> SUFFICES ASSUME NEW k \in Codes, k \in withdrawn, codes'[k] # None
               PROVE  ~codes'[k].listed
    BY <2>1 DEF Dead
  <2>2. \/ codes'[k] = codes[k]
        \/ codes[k] # None /\ codes'[k] = [codes[k] EXCEPT !.used = TRUE]
    BY <1>5 DEF ChainPublicPaired
  <2>3. codes[k] # None => codes[k] \in Code
    BY DEF Consistent, TypeOK
  <2> QED BY <2>2, <2>3 DEF Dead, Code
<1>6. ASSUME NEW k \in Codes, Expire(k) PROVE Dead'
  BY <1>6 DEF Expire, history, Dead, Consistent, TypeOK
<1>7. ASSUME NEW r \in Requests, NEW s \in Servers, NEW k \in Codes,
             AskCode(r, s, k) \/ Pair(r, s, k)
      PROVE  Dead'
  BY <1>1, <1>7 DEF AskCode, Pair, lists, history
<1>8. ASSUME NEW r \in Requests, NEW s \in Servers,
             RemoveChainPeer(r, s) \/ RemoveChainClient(r, s)
      PROVE  Dead'
  BY <1>1, <1>8 DEF RemoveChainPeer, RemoveChainClient
<1>9. ASSUME NEW s \in Servers, Crash(s) PROVE Dead'
  BY <1>1, <1>9 DEF Crash, lists
<1>10. ASSUME NEW r \in Requests,
              \/ Rewrite(r) \/ Install(r) \/ ChainPublicUnpaired(r)
              \/ ServeRewrite(r) \/ ServeInstall(r)
              \/ Lose(r) \/ TimeOut(r) \/ Finish(r)
       PROVE  Dead'
  BY <1>1, <1>10
     DEF Rewrite, Install, ChainPublicUnpaired, ServeRewrite, ServeInstall, Lose, TimeOut,
         Finish, lists, history
<1>11. ASSUME NEW r \in Requests, NEW s \in Servers,
              HandleOther(r, s) \/ \E post \in Posts : OutsideUnpaired(r, s, post)
       PROVE  Dead'
  BY <1>1, <1>11 DEF HandleOther, OutsideUnpaired, history
<1> QED BY <1>1, <1>2, <1>3, <1>4, <1>5, <1>6, <1>7, <1>8, <1>9, <1>10, <1>11
           DEF Next, Administrate, Proceed, vars

(* ChainPublicPaired takes an entry in on a code only while the code is listed, and a
   code that was withdrawn never is again: SetChainAccepting leaves no other way in
   than a link that is still served. *)
THEOREM WithdrawnCodesStayDead == Spec => WithdrawnCodeIsDead
<1>1. Init => Dead
  BY DEF Init, Dead
<1>2. Spec => [](Consistent /\ Dead)
  BY <1>1, InitConsistent, StepConsistent, StepDead, PTL DEF Spec
<1>3. Consistent /\ Dead =>
        \A r \in Requests :
          ChainPublicPaired(r) /\ req[r].code \in withdrawn /\ clients' # clients
            => req[r].link \in served[req[r].to]
  <2> SUFFICES ASSUME Consistent, Dead, NEW r \in Requests, ChainPublicPaired(r),
                      req[r].code \in withdrawn, clients' # clients
               PROVE  req[r].link \in served[req[r].to]
    OBVIOUS
  <2>1. Invited(req[r])
    BY DEF ChainPublicPaired
  <2> QED BY <2>1 DEF Invited, Dead
<1> QED BY <1>2, <1>3, PTL DEF WithdrawnCodeIsDead

-----------------------------------------------------------------------------
(* The configuration of the service. *)

(* Somebody is going to take a snapshot of s; somebody has one that is still the
   newest. *)
Rewriting(q, s) == \/ q.step = "rewrite" /\ q.at = s
                   \/ q.step = "serving" /\ q.to = s
Holding(q, s) == Installing(q, s) /\ ~q.overtaken

(* While nobody is about to look, the snapshot that nobody has overtaken is of the
   list as it is; and somebody has it, or its exit has been installed. *)
Followed(s) ==
  \/ \E r \in Requests : Rewriting(req[r], s)
  \/ /\ \A r \in Requests : Holding(req[r], s) => req[r].outbound = ChainExit(peers[s])
     /\ \/ s \in behind
        \/ \E r \in Requests : Holding(req[r], s)
        \/ exit[s] = ChainExit(peers[s])

LEMMA ExitFollows == (\A s \in Servers : Followed(s)) => ExitFollowsPeers
BY DEF ExitFollowsPeers, Followed, Rewriting, Holding

(* A request that writes what it was to write, where it was to. *)
Unmoved(p, q, s) ==
  /\ Rewriting(q, s) => Rewriting(p, s)
  /\ Holding(p, s) <=> Holding(q, s)
  /\ Holding(q, s) => p.outbound = q.outbound

(* A step that leaves the server's list, its configuration and its writers alone. *)
LEMMA StillFollowed ==
  ASSUME NEW s \in Servers, Followed(s), behind \subseteq behind',
         peers'[s] = peers[s], exit'[s] = exit[s],
         \A r \in Requests : Unmoved(req'[r], req[r], s)
  PROVE  Followed(s)'
<1>1. ChainExit(peers[s])' = ChainExit(peers[s])
  BY DEF ChainExit
<1>2. CASE \E r \in Requests : Rewriting(req[r], s)
  BY <1>2 DEF Followed, Unmoved, Rewriting
<1>3. CASE ~\E r \in Requests : Rewriting(req[r], s)
  <2>1. \A r \in Requests : /\ Holding(req'[r], s) <=> Holding(req[r], s)
                            /\ Holding(req[r], s) => req'[r].outbound = req[r].outbound
    BY DEF Unmoved
  <2>2. \A r \in Requests : Holding(req'[r], s) => req'[r].outbound = ChainExit(peers[s])
    BY <1>3, <2>1 DEF Followed
  <2>3. \/ s \in behind
        \/ \E r \in Requests : Holding(req'[r], s)
        \/ exit[s] = ChainExit(peers[s])
    BY <1>3, <2>1 DEF Followed
  <2> QED BY <1>1, <2>2, <2>3 DEF Followed, Rewriting, Holding, Installing
<1> QED BY <1>2, <1>3

LEMMA TouchedIsUnmoved ==
  ASSUME NEW q \in Request, NEW s, NEW b
  PROVE  /\ Unmoved(q, q, s)
         /\ Unmoved([q EXCEPT !.sole = b], q, s) /\ Unmoved([q EXCEPT !.waiting = b], q, s)
BY DEF Unmoved, Rewriting, Holding, Installing, Request

(* Who neither looks nor installs before and after. *)
Writes(q) == q.step \in {"rewrite", "install", "serving", "replace"}
LEMMA NoWriterIsUnmoved ==
  ASSUME NEW p, NEW q, NEW s, ~Writes(p), ~Writes(q)
  PROVE  Unmoved(p, q, s)
BY DEF Unmoved, Rewriting, Holding, Installing, Writes

(* One request goes on, and neither was to write nor is going to. *)
LEMMA OthersUnmoved ==
  ASSUME AllSound, NEW r \in Requests, NEW q, req' = [req EXCEPT ![r] = q],
         NEW s, ~Writes(req[r]), ~Writes(q)
  PROVE  \A x \in Requests : Unmoved(req'[x], req[x], s)
<1>1. req'[r] = q /\ \A x \in Requests \ {r} : req'[x] = req[x] /\ req[x] \in Request
  BY DEF AllSound
<1> QED BY <1>1, TouchedIsUnmoved, NoWriterIsUnmoved

(* The same for a request that begins; whom it meets is only touched. *)
LEMMA BegunUnmoved ==
  ASSUME AllSound, NEW r \in Requests, Idle(r), NEW q, req' = Begun(r, q), NEW s,
         q.step = "sent" \/ (q.step = "rewrite" /\ q.at # s), q \in Request
  PROVE  \A x \in Requests : Unmoved(req'[x], req[x], s)
<1> SUFFICES ASSUME NEW x \in Requests PROVE Unmoved(req'[x], req[x], s)
  OBVIOUS
<1>1. CASE x = r
  <2>1. req[x] = NoRequest
    BY <1>1 DEF Idle
  <2>2. req'[x] = [q EXCEPT !.sole = (Others(r, q) = {})]
    BY <1>1 DEF Begun
  <2>3. req'[x].step = q.step /\ req'[x].at = q.at
    BY <2>2 DEF Request
  <2> QED BY <2>1, <2>3 DEF Unmoved, Rewriting, Holding, Installing, NoRequest
<1>2. CASE x # r
  <2>1. req'[x] = req[x] \/ req'[x] = [req[x] EXCEPT !.sole = FALSE]
    BY <1>2 DEF Begun
  <2>2. req[x] \in Request
    BY DEF AllSound
  <2>3. Unmoved(req[x], req[x], s) /\ Unmoved([req[x] EXCEPT !.sole = FALSE], req[x], s)
    BY <2>2, TouchedIsUnmoved
  <2> QED BY <2>1, <2>3
<1> QED BY <1>1, <1>2

(* A snapshot is of no concern to who writes elsewhere. *)
LEMMA OvertakingUnmoved ==
  ASSUME AllSound, NEW s, NEW t, s # t, NEW x \in Requests,
         Alike(req'[x], req[x]), req'[x].outbound = req[x].outbound,
         req'[x].overtaken <=> req[x].overtaken \/ Installing(req[x], s)
  PROVE  Unmoved(req'[x], req[x], t)
BY DEF Unmoved, Rewriting, Holding, Installing, Alike, Same

(* Whoever changes the list is going to look at it himself. *)
LEMMA LookingFollowed ==
  ASSUME NEW t, NEW r \in Requests, Rewriting(req'[r], t)
  PROVE  Followed(t)'
BY DEF Followed, Rewriting

LEMMA PairFollowed ==
  ASSUME Consistent, NEW r \in Requests, NEW s \in Servers, NEW k \in Codes, Pair(r, s, k),
         NEW t \in Servers, Followed(t)
  PROVE  Followed(t)'
<1>1. PICK e \in Origins[s] :
        Begin(r, [NoRequest EXCEPT !.op = "pair", !.at = s, !.to = At[codes[k].endpoint],
                                   !.endpoint = e, !.link = codes[k].link, !.code = k,
                                   !.step = "rewrite", !.waiting = TRUE])
  BY DEF Pair
<1> DEFINE q == [NoRequest EXCEPT !.op = "pair", !.at = s, !.to = At[codes[k].endpoint],
                                  !.endpoint = e, !.link = codes[k].link, !.code = k,
                                  !.step = "rewrite", !.waiting = TRUE]
<1>2. req' = Begun(r, q)
  BY <1>1 DEF Begin, Begun, Others
<1>3. q \in Request /\ q.step = "rewrite" /\ q.at = s
  <2>1. codes[k] \in Code
    BY DEF Pair, Decodable, Consistent, TypeOK
  <2> QED BY <2>1, EndpointAssumption DEF NoRequest, Request, Code
<1> HIDE DEF q
<1>4. CASE t = s
  <2>1. req'[r] = [q EXCEPT !.sole = (Others(r, q) = {})]
    BY <1>2 DEF Begun
  <2>2. Rewriting(req'[r], t)
    BY <1>3, <1>4, <2>1 DEF Rewriting, Request
  <2> QED BY <2>2, LookingFollowed
<1>5. CASE t # s
  <2>1. peers'[t] = peers[t]
    BY <1>5 DEF Pair, UpsertPeer, Consistent, TypeOK
  <2>2. exit' = exit /\ behind' = behind /\ Idle(r)
    BY DEF Pair
  <2>3. \A x \in Requests : Unmoved(req'[x], req[x], t)
    BY <1>2, <1>3, <1>5, <2>2, BegunUnmoved, ConsistentRequests
  <2> QED BY <2>1, <2>2, <2>3, StillFollowed
<1> QED BY <1>4, <1>5

LEMMA RemoveChainPeerFollowed ==
  ASSUME Consistent, NEW r \in Requests, NEW s \in Servers, RemoveChainPeer(r, s),
         NEW t \in Servers, Followed(t)
  PROVE  Followed(t)'
<1>1. PICK i \in DOMAIN peers[s] :
        /\ KeepPeers(s, DOMAIN peers[s] \ {i})
        /\ Begin(r, Unpeered(s, peers[s][i].endpoint))
  BY DEF RemoveChainPeer, Unpeered
<1> DEFINE q == Unpeered(s, peers[s][i].endpoint)
<1>2. req' = Begun(r, q)
  BY <1>1 DEF Begin, Begun, Others
<1>3. q \in Request /\ q.step = "rewrite" /\ q.at = s
  <2>1. peers[s] \in Seq(Peer)
    BY DEF Consistent, TypeOK
  <2>2. peers[s][i] \in Peer
    BY <2>1, ElementOfSeq, LenProperties
  <2>3. peers[s][i].endpoint \in Endpoints
    BY <2>2 DEF Peer
  <2> QED BY <2>3, EndpointAssumption DEF NoRequest, Request, Unpeered
<1> HIDE DEF q
<1>4. CASE t = s
  <2>1. req'[r] = [q EXCEPT !.sole = (Others(r, q) = {})]
    BY <1>2 DEF Begun
  <2>2. Rewriting(req'[r], t)
    BY <1>3, <1>4, <2>1 DEF Rewriting, Request
  <2> QED BY <2>2, LookingFollowed
<1>5. CASE t # s
  <2>1. peers'[t] = peers[t]
    BY <1>1, <1>5 DEF KeepPeers, Consistent, TypeOK
  <2>2. exit' = exit /\ behind' = behind /\ Idle(r)
    BY DEF RemoveChainPeer
  <2>3. \A x \in Requests : Unmoved(req'[x], req[x], t)
    BY <1>2, <1>3, <1>5, <2>2, BegunUnmoved, ConsistentRequests
  <2> QED BY <2>1, <2>2, <2>3, StillFollowed
<1> QED BY <1>4, <1>5

LEMMA RemoveChainClientFollowed ==
  ASSUME Consistent, NEW r \in Requests, NEW s \in Servers, RemoveChainClient(r, s),
         NEW t \in Servers, Followed(t)
  PROVE  Followed(t)'
<1>1. PICK e \in Endpoints :
        clients[s][e] # None /\ Begin(r, Unclient(s, e))
  BY DEF RemoveChainClient, Unclient
<1> DEFINE q == Unclient(s, e)
<1>2. req' = Begun(r, q)
  BY <1>1 DEF Begin, Begun, Others
<1>3. q \in Request /\ q.step = "sent"
  <2>1. clients[s][e] \in Links
    BY <1>1 DEF Consistent, TypeOK
  <2> QED BY <2>1, EndpointAssumption DEF Unclient, NoRequest, Request
<1> HIDE DEF q
<1>4. peers' = peers /\ exit' = exit /\ behind' = behind /\ Idle(r)
  BY DEF RemoveChainClient
<1>5. \A x \in Requests : Unmoved(req'[x], req[x], t)
  BY <1>2, <1>3, <1>4, BegunUnmoved, ConsistentRequests
<1> QED BY <1>4, <1>5, StillFollowed

(* A bare code leaves its server behind, and no snapshot of it is the newest. *)
LEMMA PairLocallyFollowed ==
  ASSUME Consistent, NEW s \in Servers, NEW k \in Codes, PairLocally(s, k),
         NEW t \in Servers, Followed(t)
  PROVE  Followed(t)'
<1>1. AllSound
  BY ConsistentRequests
<1>2. exit' = exit /\ req' = Overtaking(s) /\ behind' = behind \cup {s}
  BY DEF PairLocally
<1>3. \A x \in Requests : /\ Alike(req'[x], req[x]) /\ req'[x].outbound = req[x].outbound
                          /\ req'[x].overtaken <=> req[x].overtaken \/ Installing(req[x], s)
  BY <1>1, <1>2, OvertakingIsSound
<1>4. CASE t = s
  <2>1. \A x \in Requests : ~Holding(req'[x], s)
    BY <1>3 DEF Holding, Installing, Alike, Same
  <2> QED BY <1>2, <1>4, <2>1 DEF Followed, Holding, Installing
<1>5. CASE t # s
  <2>1. peers'[t] = peers[t]
    BY <1>5 DEF PairLocally, UpsertPeer, Consistent, TypeOK
  <2>2. \A x \in Requests : Unmoved(req'[x], req[x], t)
    BY <1>1, <1>3, <1>5, OvertakingUnmoved
  <2> QED BY <1>2, <2>1, <2>2, StillFollowed
<1> QED BY <1>4, <1>5

(* A notification that changes nothing is answered at once; otherwise the receiver
   goes on to write. *)
LEMMA ChainPublicUnpairedFollowed ==
  ASSUME Consistent, NEW r \in Requests, ChainPublicUnpaired(r), NEW t \in Servers, Followed(t)
  PROVE  Followed(t)'
<1> DEFINE q == req[r]
<1>1. AllSound /\ q \in Request /\ Sound(q) /\ Notifying(q) /\ q.to \in Servers /\ q.step = "sent"
  BY ConsistentRequests, SoundRequests DEF AllSound, ChainPublicUnpaired, Notifying
<1>2. Unpair(q.to, q)
  BY DEF ChainPublicUnpaired
<1>3. /\ ~Removes(q.to, q) => req' = [req EXCEPT ![r] = [q EXCEPT !.step = "ok"]]
      /\ Removes(q.to, q) => req' = [req EXCEPT ![r] = [q EXCEPT !.step = "serving"]]
  BY DEF ChainPublicUnpaired, Advance
<1>4. exit' = exit /\ behind' = behind
  BY DEF ChainPublicUnpaired, history
<1>5. peers \in [Servers -> Seq(Peer)]
  BY DEF Consistent, TypeOK
<1> HIDE DEF q
<1>6. CASE t = q.to /\ Removes(q.to, q)
  <2>1. req'[r] = [q EXCEPT !.step = "serving"]
    BY <1>1, <1>3, <1>6 DEF AllSound
  <2>2. Rewriting(req'[r], t)
    BY <1>1, <1>6, <2>1 DEF Rewriting, Request
  <2> QED BY <2>2, LookingFollowed
<1>7. CASE t # q.to \/ ~Removes(q.to, q)
  <2>1. PICK list \in Kept(peers[q.to], Unmatched(q.to, q)) :
          peers' = [peers EXCEPT ![q.to] = list]
    BY <1>1, <1>2, UnpairEffect
  <2>2. peers'[t] = peers[t]
    <3>1. CASE t # q.to
      BY <1>5, <2>1, <3>1
    <3>2. CASE t = q.to /\ ~Removes(q.to, q)
      <4>1. peers[t] \in Seq(Peer) /\ list \in Kept(peers[t], DOMAIN peers[t])
        BY <1>5, <2>1, <3>2 DEF Removes
      <4>2. list = peers[t]
        BY <4>1, AllKept
      <4> QED BY <1>5, <2>1, <3>2, <4>2
    <3> QED BY <1>7, <3>1, <3>2
  <2>3. PICK step \in {"ok", "serving"} : req' = [req EXCEPT ![r] = [q EXCEPT !.step = step]]
    BY <1>3
  <2>4. req'[r] = [q EXCEPT !.step = step] /\ \A x \in Requests \ {r} : req'[x] = req[x]
    BY <1>1, <2>3 DEF AllSound
  <2>5. Unmoved(req'[r], q, t)
    BY <1>1, <2>4 DEF Unmoved, Rewriting, Holding, Installing, Request
  <2>6. \A x \in Requests \ {r} : Unmoved(req'[x], req[x], t)
    BY <1>1, <2>4, TouchedIsUnmoved DEF AllSound
  <2>7. \A x \in Requests : Unmoved(req'[x], req[x], t)
    BY <2>5, <2>6 DEF q
  <2> QED BY <1>4, <2>2, <2>7, StillFollowed
<1> QED BY <1>6, <1>7

(* A post from outside that removes something makes its server write. *)
LEMMA OutsideUnpairedFollowed ==
  ASSUME Consistent, NEW r \in Requests, NEW s \in Servers, NEW post,
         OutsideUnpaired(r, s, post), NEW t \in Servers, Followed(t)
  PROVE  Followed(t)'
<1>1. CASE t = s
  <2>1. Rewriting(req'[r], t)
    BY <1>1, SeveredRequests DEF Rewriting
  <2> QED BY <2>1, LookingFollowed
<1>2. CASE t # s
  <2>1. peers'[t] = peers[t]
    BY <1>2, UnpairEffect DEF OutsideUnpaired
  <2>2. exit' = exit /\ behind' = behind /\ Idle(r)
    BY DEF OutsideUnpaired
  <2>3. Unmoved(req'[r], req[r], t)
    BY <1>2, <2>2, SeveredRequests
       DEF Idle, NoRequest, Unmoved, Rewriting, Holding, Installing
  <2>4. ASSUME NEW x \in Requests \ {r} PROVE Unmoved(req'[x], req[x], t)
    <3>1. req'[x] = req[x] \/ req'[x] = [req[x] EXCEPT !.sole = FALSE]
      BY SeveredRequests
    <3>2. req[x] \in Request
      BY ConsistentRequests DEF AllSound
    <3>3. Unmoved(req[x], req[x], t) /\ Unmoved([req[x] EXCEPT !.sole = FALSE], req[x], t)
      BY <3>2, TouchedIsUnmoved
    <3> QED BY <3>1, <3>3
  <2> QED BY <2>1, <2>2, <2>3, <2>4, StillFollowed
<1> QED BY <1>1, <1>2

LEMMA HandleOtherFollowed ==
  ASSUME Consistent, NEW r \in Requests, NEW s \in Servers, HandleOther(r, s),
         NEW t \in Servers, Followed(t)
  PROVE  Followed(t)'
<1> DEFINE q == [NoRequest EXCEPT !.op = "other", !.at = s, !.step = "rewrite"]
<1>1. AllSound
  BY ConsistentRequests
<1>2. req' = [req EXCEPT ![r] = q] /\ q.step = "rewrite" /\ q.at = s
  BY DEF HandleOther, NoRequest
<1> HIDE DEF q
<1>3. req'[r] = q /\ \A x \in Requests \ {r} : req'[x] = req[x]
  BY <1>1, <1>2 DEF AllSound
<1>4. CASE t = s
  <2>1. Rewriting(req'[r], t)
    BY <1>2, <1>3, <1>4 DEF Rewriting
  <2> QED BY <2>1, LookingFollowed
<1>5. CASE t # s
  <2>1. peers' = peers /\ exit' = exit /\ behind' = behind /\ Idle(r)
    BY DEF HandleOther, history
  <2>2. Unmoved(req'[r], req[r], t)
    BY <1>2, <1>3, <1>5, <2>1 DEF Idle, NoRequest, Unmoved, Rewriting, Holding, Installing
  <2>3. \A x \in Requests \ {r} : Unmoved(req'[x], req[x], t)
    BY <1>1, <1>3, TouchedIsUnmoved DEF AllSound
  <2> QED BY <2>1, <2>2, <2>3, StillFollowed
<1> QED BY <1>4, <1>5

(* Who looks holds the only snapshot that nobody has overtaken. *)
LEMMA RewriteFollowed ==
  ASSUME Consistent, NEW r \in Requests, Rewrite(r) \/ ServeRewrite(r),
         NEW t \in Servers, Followed(t)
  PROVE  Followed(t)'
<1>1. AllSound
  BY ConsistentRequests
<1>2. peers' = peers /\ exit' = exit /\ behind' = behind
  BY DEF Rewrite, ServeRewrite, lists, history
<1>3. PICK s \in Servers, step \in {"install", "replace"} :
        /\ Look(r, s, step)
        /\ \/ req[r].step = "rewrite" /\ step = "install" /\ s = req[r].at
           \/ req[r].step = "serving" /\ step = "replace" /\ s = req[r].to
  BY <1>1, WritersServers DEF Rewrite, ServeRewrite
<1>4. /\ \A x \in Requests \ {r} : req'[x] = Overtaking(s)[x]
      /\ Same(req'[r], req[r]) /\ req'[r].step = step
      /\ req'[r].outbound = ChainExit(peers[s]) /\ ~req'[r].overtaken
  BY <1>3, LookedRequests
<1>5. \A x \in Requests \ {r} :
        /\ Alike(req'[x], req[x]) /\ req'[x].outbound = req[x].outbound
        /\ req'[x].overtaken <=> req[x].overtaken \/ Installing(req[x], s)
  BY <1>1, <1>4, OvertakingIsSound
<1>6. Installing(req'[r], s) /\ ~Installing(req[r], s)
  BY <1>3, <1>4 DEF Installing, Same
<1>7. CASE t = s
  <2>1. \A x \in Requests \ {r} : ~Holding(req'[x], s)
    BY <1>5 DEF Holding, Installing, Alike, Same
  <2>2. Holding(req'[r], s) /\ req'[r].outbound = ChainExit(peers'[s])
    BY <1>2, <1>4, <1>6 DEF Holding
  <2> QED BY <1>7, <2>1, <2>2 DEF Followed, Holding, Installing, ChainExit
<1>8. CASE t # s
  <2>1. \A x \in Requests \ {r} : Unmoved(req'[x], req[x], t)
    BY <1>1, <1>5, <1>8, OvertakingUnmoved
  <2>2. Unmoved(req'[r], req[r], t)
    BY <1>3, <1>4, <1>8 DEF Unmoved, Rewriting, Holding, Installing, Same
  <2> QED BY <1>2, <2>1, <2>2, StillFollowed
<1> QED BY <1>7, <1>8

(* What is installed is of the list as it is, or the server is known to be behind. *)
LEMMA InstallFollowed ==
  ASSUME Consistent, NEW r \in Requests, Install(r) \/ ServeInstall(r),
         NEW t \in Servers, Followed(t)
  PROVE  Followed(t)'
<1>1. AllSound
  BY ConsistentRequests
<1>2. peers' = peers
  BY DEF Install, ServeInstall, lists
<1>3. PICK s \in Servers, step \in {"sent", "ok"} :
        /\ WriteConfig(req[r], s) /\ Written(r, step) /\ Installing(req[r], s)
        /\ \/ req[r].step = "install" /\ step = "sent" /\ s = req[r].at
           \/ req[r].step = "replace" /\ step = "ok" /\ s = req[r].to
  BY <1>1, WritersServers DEF Install, ServeInstall, Installing
<1>4. /\ \A x \in Requests \ {r} : req'[x] = req[x]
      /\ req'[r] = NoRequest \/ req'[r].step = step
  BY <1>1, <1>3, WrittenRequests
<1>5. ~Writes(req'[r])
  BY <1>3, <1>4 DEF Writes, NoRequest
<1>6. ~Rewriting(req[r], t)
  BY <1>3 DEF Rewriting
<1>7. exit \in [Servers -> Links \cup {None}]
  BY DEF Consistent, TypeOK
<1>8. \A x \in Requests \ {r} : Unmoved(req'[x], req[x], t)
  BY <1>1, <1>4, TouchedIsUnmoved DEF AllSound
<1>9. CASE t # s
  <2>1. exit'[t] = exit[t] /\ (t \in behind => t \in behind')
    BY <1>3, <1>7, <1>9 DEF WriteConfig
  <2>2. Unmoved(req'[r], req[r], t)
    BY <1>3, <1>5, <1>9 DEF Unmoved, Rewriting, Holding, Installing, Writes
  <2>3. \A x \in Requests : Unmoved(req'[x], req[x], t)
    BY <1>8, <2>2
  <2> QED BY <1>2, <2>1, <2>3 DEF Followed, Unmoved, Rewriting, Holding, Installing, ChainExit
<1>10. CASE t = s /\ \E x \in Requests : Rewriting(req[x], t)
  <2>1. PICK x \in Requests \ {r} : Rewriting(req[x], t)
    BY <1>6, <1>10
  <2>2. Rewriting(req'[x], t)
    BY <1>4, <2>1
  <2> QED BY <2>2, LookingFollowed
<1>11. CASE t = s /\ ~\E x \in Requests : Rewriting(req[x], t)
  <2>1. \A x \in Requests : Holding(req'[x], t) =>
          Holding(req[x], t) /\ req'[x].outbound = req[x].outbound
    BY <1>4, <1>5 DEF Holding, Installing, Writes
  <2>2. \A x \in Requests : Holding(req'[x], t) => req'[x].outbound = ChainExit(peers'[t])
    BY <1>2, <1>11, <2>1 DEF Followed
  <2>3. t \in behind' \/ exit'[t] = ChainExit(peers'[t])
    <3>1. CASE exit' = [exit EXCEPT ![s] = req[r].outbound] /\ ~req[r].overtaken
      <4>1. Holding(req[r], t)
        BY <1>3, <1>11, <3>1 DEF Holding
      <4>2. req[r].outbound = ChainExit(peers[t])
        BY <1>11, <4>1 DEF Followed
      <4> QED BY <1>2, <1>7, <1>11, <3>1, <4>2
    <3>2. CASE behind' = behind \cup {s}
      BY <1>11, <3>2
    <3> QED BY <1>3, <3>1, <3>2 DEF WriteConfig
  <2> QED BY <2>2, <2>3 DEF Followed, Holding, Installing, ChainExit
<1> QED BY <1>9, <1>10, <1>11

(* Nobody that ends, or is answered, had still to write. *)
LEMMA AnswerFollowed ==
  ASSUME Consistent, NEW r \in Requests,
         ChainPublicPaired(r) \/ Lose(r) \/ TimeOut(r) \/ Finish(r) \/ IssueCode(r),
         NEW t \in Servers, Followed(t)
  PROVE  Followed(t)'
<1>1. AllSound /\ req[r] \in Request
  BY ConsistentRequests DEF AllSound
<1>2. peers' = peers /\ exit' = exit /\ behind' = behind
  BY DEF ChainPublicPaired, Lose, TimeOut, Finish, IssueCode, lists, history
<1>3. CASE ChainPublicPaired(r) \/ Lose(r) \/ Finish(r) \/ IssueCode(r)
  <2>1. ~Writes(req[r])
    BY <1>3 DEF ChainPublicPaired, Lose, Finish, IssueCode, Writes
  <2>2. PICK q : req' = [req EXCEPT ![r] = q] /\ ~Writes(q)
    <3>1. ~Writes(NoRequest)
      BY DEF Writes, NoRequest
    <3>2. \A step \in {"ok", "refused"} : ~Writes([req[r] EXCEPT !.step = step])
      BY <1>1 DEF Writes, Request
    <3>3. CASE ChainPublicPaired(r)
      <4>1. \E step \in {"ok", "refused"} : req' = [req EXCEPT ![r] = [req[r] EXCEPT !.step = step]]
        BY <3>3 DEF ChainPublicPaired, Advance
      <4> QED BY <3>2, <4>1
    <3>4. CASE Lose(r) \/ Finish(r) \/ IssueCode(r)
      BY <3>1, <3>4 DEF Lose, Finish, IssueCode
    <3> QED BY <1>3, <3>3, <3>4
  <2>3. \A x \in Requests : Unmoved(req'[x], req[x], t)
    BY <1>1, <2>1, <2>2, OthersUnmoved
  <2> QED BY <1>2, <2>3, StillFollowed
<1>4. CASE TimeOut(r)
  <2>1. req' = [req EXCEPT ![r] = [req[r] EXCEPT !.waiting = FALSE]]
    BY <1>4 DEF TimeOut
  <2>2. Unmoved([req[r] EXCEPT !.waiting = FALSE], req[r], t)
    BY <1>1, TouchedIsUnmoved
  <2>3. \A x \in Requests \ {r} : Unmoved(req'[x], req[x], t)
    BY <1>1, <2>1, TouchedIsUnmoved DEF AllSound
  <2>4. req'[r] = [req[r] EXCEPT !.waiting = FALSE]
    BY <1>1, <2>1 DEF AllSound
  <2> QED BY <1>2, <2>2, <2>3, <2>4, StillFollowed
<1> QED BY <1>3, <1>4

(* A crash ends all writers of its own server, and none of another one. *)
LEMMA CrashFollowed ==
  ASSUME Consistent, NEW s \in Servers, Crash(s), NEW t \in Servers, Followed(t)
  PROVE  Followed(t)'
<1>1. AllSound
  BY ConsistentRequests
<1>2. peers' = peers /\ exit' = exit /\ behind \subseteq behind'
  BY CrashEffect DEF Crash, lists
<1>3. ASSUME NEW x \in Requests, NEW z \in Servers
      PROVE  /\ Unmoved(req[x], req[x], z)
             /\ Unmoved([req[x] EXCEPT !.waiting = FALSE], req[x], z)
  <2>1. req[x] \in Request
    BY <1>1 DEF AllSound
  <2> QED BY <2>1, TouchedIsUnmoved
<1>4. CASE t = s /\ s \in behind'
  <2>1. ASSUME NEW x \in Requests PROVE ~Holding(req'[x], s)
    <3>1. CASE x \in Cut(s)
      BY <3>1, CrashEffect DEF Holding, Installing, NoRequest
    <3>2. CASE x \notin Cut(s)
      <4>1. req'[x] = req[x] \/ req'[x] = [req[x] EXCEPT !.waiting = FALSE]
        BY <3>2, CrashEffect
      <4>2. Unmoved(req'[x], req[x], s)
        BY <1>3, <4>1
      <4>3. ~Holding(req[x], s)
        BY <3>2 DEF Cut, Hit, Holding, Installing
      <4> QED BY <4>2, <4>3 DEF Unmoved
    <3> QED BY <3>1, <3>2
  <2> QED BY <1>4, <2>1 DEF Followed, Holding, Installing
<1>5. CASE t # s \/ s \notin behind'
  <2> SUFFICES ASSUME NEW x \in Requests PROVE Unmoved(req'[x], req[x], t)
    BY <1>2, StillFollowed
  <2>1. CASE x \in Cut(s)
    <3>1. req'[x] = NoRequest
      BY <2>1, CrashEffect
    <3>2. ~Rewriting(req[x], t) /\ ~Holding(req[x], t)
      <4>1. CASE t # s
        BY <2>1, <4>1 DEF Cut, Rewriting, Holding, Installing
      <4>2. CASE s \notin behind'
        <5>1. req[x].step = "issue"
          BY <2>1, <4>2, CrashEffect
        <5> QED BY <5>1 DEF Rewriting, Holding, Installing
      <4> QED BY <1>5, <4>1, <4>2
    <3> QED BY <3>1, <3>2 DEF Unmoved, Rewriting, Holding, Installing, NoRequest
  <2>2. CASE x \notin Cut(s)
    <3>1. req'[x] = req[x] \/ req'[x] = [req[x] EXCEPT !.waiting = FALSE]
      BY <2>2, CrashEffect
    <3> QED BY <1>3, <3>1
  <2> QED BY <2>1, <2>2
<1> QED BY <1>4, <1>5

LEMMA StepFollowed ==
  ASSUME Consistent, [Next]_vars, NEW t \in Servers, Followed(t)
  PROVE  Followed(t)'
<1>1. ASSUME NEW r \in Requests, NEW s \in Servers, NEW k \in Codes, AskCode(r, s, k)
      PROVE  Followed(t)'
  <2>1. PICK e, l : Snapshotted(r, s, k, e, l)
    BY <1>1 DEF AskCode
  <2> DEFINE q == [NoRequest EXCEPT !.op = "generate", !.at = s, !.endpoint = e, !.code = k,
                                    !.link = l, !.step = "issue", !.waiting = TRUE]
  <2>2. req' = [req EXCEPT ![r] = q] /\ ~Writes(q)
    BY <2>1 DEF Snapshotted, NoRequest, Writes
  <2> HIDE DEF q
  <2>3. ~Writes(req[r])
    BY <1>1 DEF AskCode, Idle, NoRequest, Writes
  <2>4. peers' = peers /\ exit' = exit /\ behind' = behind
    BY <1>1 DEF AskCode, lists, history
  <2> QED BY <2>2, <2>3, <2>4, OthersUnmoved, StillFollowed, ConsistentRequests
<1>2. ASSUME NEW r \in Requests, NEW s \in Servers, NEW k \in Codes, Pair(r, s, k)
      PROVE  Followed(t)'
  BY <1>2, PairFollowed
<1>3. ASSUME NEW r \in Requests, NEW s \in Servers,
             RemoveChainPeer(r, s) \/ RemoveChainClient(r, s) \/ HandleOther(r, s)
      PROVE  Followed(t)'
  BY <1>3, RemoveChainPeerFollowed, RemoveChainClientFollowed, HandleOtherFollowed
<1>4. ASSUME NEW r \in Requests, NEW s \in Servers, NEW post \in Posts,
             OutsideUnpaired(r, s, post)
      PROVE  Followed(t)'
  BY <1>4, OutsideUnpairedFollowed
<1>5. ASSUME NEW s \in Servers, NEW k \in Codes, PairLocally(s, k)
      PROVE  Followed(t)'
  BY <1>5, PairLocallyFollowed
<1>6. ASSUME NEW s \in Servers, Crash(s)
      PROVE  Followed(t)'
  BY <1>6, CrashFollowed
<1>7. ASSUME UNCHANGED <<peers, exit, behind, req>>
      PROVE  Followed(t)'
  BY <1>7 DEF Followed, ChainExit
<1>8. ASSUME NEW s \in Servers, SetChainAccepting(s)
      PROVE  Followed(t)'
  BY <1>7, <1>8 DEF SetChainAccepting
<1>9. ASSUME NEW r \in Requests, Proceed(r)
      PROVE  Followed(t)'
  BY <1>9, AnswerFollowed, RewriteFollowed, InstallFollowed, ChainPublicUnpairedFollowed
     DEF Proceed
<1>10. ASSUME NEW k \in Codes, Expire(k)
       PROVE  Followed(t)'
  BY <1>7, <1>10 DEF Expire, history
<1> QED BY <1>1, <1>2, <1>3, <1>4, <1>5, <1>6, <1>7, <1>8, <1>9, <1>10
           DEF Next, Administrate, vars

(* Whatever handlers overlap on any number of servers, sing-box's chain outbound is the
   one of the first peer once all who looked at the list have written, unless the last
   write failed, was cut or left out, or came from a handler that another one had
   overtaken between its snapshot and its write. *)
THEOREM ExitFollowsFirstPeer == Spec => []ExitFollowsPeers
<1> DEFINE Inv == Consistent /\ \A s \in Servers : Followed(s)
<1>1. Init => \A s \in Servers : Followed(s)
  BY DEF Init, Followed, Holding, Installing, NoRequest
<1>2. Inv /\ [Next]_vars => Inv'
  <2> SUFFICES ASSUME Inv, [Next]_vars PROVE Inv'
    OBVIOUS
  <2>1. Consistent'
    BY StepConsistent
  <2>2. ASSUME NEW t \in Servers PROVE Followed(t)'
    BY StepFollowed
  <2> QED BY <2>1, <2>2
<1>3. Init => Inv
  BY <1>1, InitConsistent
<1>4. Inv => ExitFollowsPeers
  BY ExitFollows
<1> HIDE DEF Inv
<1> QED BY <1>2, <1>3, <1>4, PTL DEF Spec

-----------------------------------------------------------------------------
(* Whom an unpairing concerns. *)

LEMMA PeersReached == \A s : PeersOf(s) = Reached(peers[s])
BY DEF PeersOf, Reached, Range

LEMMA ClientsEntered == \A s : ClientsOf(s) = Entered(clients[s])
BY DEF ClientsOf, Entered

Vanishes(s, t) ==
  \/ t \in Reached(peers[s]) /\ t \notin Reached(peers'[s])
  \/ t \in Entered(clients[s]) /\ t \notin Entered(clients'[s])
Unpairing(s, t) ==
  \/ \E r \in Requests : /\ req'[r].op \in {"unpeer", "unclient"}
                         /\ {req'[r].at, req'[r].to} = {s, t}
  \/ \E r \in Requests, post \in Posts : OutsideUnpaired(r, s, post) /\ Names(post, t)

LEMMA PairTakesNobodyOut ==
  ASSUME Consistent, NEW s \in Servers, NEW k \in Codes,
         (\E r \in Requests : Pair(r, s, k)) \/ PairLocally(s, k),
         NEW u \in Servers, NEW t
  PROVE  ~Vanishes(u, t)
<1>1. PICK p \in Peer : LinkedPeer(p) /\ UpsertPeer(s, p)
  <2>1. CASE \E r \in Requests : Pair(r, s, k)
    <3>1. /\ codes[k] \in Code /\ At[codes[k].endpoint] = codes[k].by
          /\ ExitOf[codes[k].link] = codes[k].by
      BY <2>1 DEF Pair, Decodable, Consistent, TypeOK, Linked, CodesLinked
    <3> DEFINE p == [endpoint |-> codes[k].endpoint, link |-> codes[k].link]
    <3>2. p \in Peer /\ LinkedPeer(p)
      BY <3>1 DEF Peer, Code, LinkedPeer
    <3>3. UpsertPeer(s, p)
      BY <2>1 DEF Pair
    <3> QED BY <3>2, <3>3
  <2>2. CASE PairLocally(s, k)
    <3>1. /\ codes[k] \in Code /\ codes[k].by = s
          /\ ExitOf[codes[k].link] = codes[k].by
      BY <2>2 DEF PairLocally, Redeemable, Consistent, TypeOK, Linked, CodesLinked
    <3>2. PICK e \in Origins[s] : UpsertPeer(s, [endpoint |-> e, link |-> codes[k].link])
      BY <2>2 DEF PairLocally
    <3> DEFINE p == [endpoint |-> e, link |-> codes[k].link]
    <3>3. p \in Peer /\ LinkedPeer(p)
      BY <3>1, EndpointAssumption DEF Peer, Code, LinkedPeer
    <3> QED BY <3>2, <3>3
  <2> QED BY <2>1, <2>2
<1>2. PICK list \in Upserted(peers[s], p) : peers' = [peers EXCEPT ![s] = list]
  BY <1>1 DEF UpsertPeer
<1>3. clients' = clients
  BY DEF Pair, PairLocally
<1>4. peers[s] \in Seq(Peer) /\ \A x \in Range(peers[s]) : LinkedPeer(x)
  BY DEF Consistent, TypeOK, Linked, PeersLinked
<1>5. Reached(peers[s]) \subseteq Reached(list)
  BY <1>1, <1>2, <1>4, UpsertedPeers
<1>6. peers'[s] = list /\ \A v \in Servers \ {s} : peers'[v] = peers[v]
  BY <1>2 DEF Consistent, TypeOK
<1> QED BY <1>3, <1>5, <1>6 DEF Vanishes

LEMMA RemovingVanishes ==
  ASSUME Consistent, NEW r \in Requests, NEW s \in Servers,
         RemoveChainPeer(r, s) \/ RemoveChainClient(r, s),
         NEW u \in Servers, NEW t \in Servers, Vanishes(u, t)
  PROVE  Unpairing(u, t)
<1>1. CASE RemoveChainPeer(r, s)
  <2>1. PICK i \in DOMAIN peers[s] :
          /\ KeepPeers(s, DOMAIN peers[s] \ {i})
          /\ Begin(r, Unpeered(s, peers[s][i].endpoint))
    BY <1>1 DEF RemoveChainPeer, Unpeered
  <2>2. PICK list \in Kept(peers[s], DOMAIN peers[s] \ {i}) : peers' = [peers EXCEPT ![s] = list]
    BY <2>1 DEF KeepPeers
  <2>3. peers[s] \in Seq(Peer) /\ peers \in [Servers -> Seq(Peer)]
    BY DEF Consistent, TypeOK
  <2>4. Range(list) = {peers[s][k] : k \in DOMAIN peers[s] \ {i}}
    BY <2>2, <2>3, KeptEntries
  <2>5. u = s /\ t \in Reached(peers[s]) /\ t \notin Reached(list)
    <3>1. clients' = clients
      BY <1>1 DEF RemoveChainPeer
    <3> QED BY <2>2, <2>3, <3>1 DEF Vanishes
  <2>6. t = At[peers[s][i].endpoint]
    BY <2>4, <2>5 DEF Reached, Range
  <2> DEFINE q == Unpeered(s, peers[s][i].endpoint)
  <2>7. req' = Begun(r, q)
    BY <2>1 DEF Begin, Begun, Others
  <2>8. LET p == [q EXCEPT !.sole = (Others(r, q) = {})]
        IN  p.op = "unpeer" /\ p.at = s /\ p.to = t
    BY <2>6 DEF Unpeered, NoRequest
  <2> HIDE DEF q
  <2> QED BY <2>5, <2>7, <2>8 DEF Begun, Unpairing
<1>2. CASE RemoveChainClient(r, s)
  <2>1. PICK e \in Endpoints :
          /\ clients' = [clients EXCEPT ![s][e] = None]
          /\ Begin(r, Unclient(s, e))
    BY <1>2 DEF RemoveChainClient, Unclient
  <2>2. clients \in [Servers -> [Endpoints -> Links \cup {None}]]
    BY DEF Consistent, TypeOK
  <2>3. u = s /\ t = At[e]
    <3>1. peers' = peers
      BY <1>2 DEF RemoveChainClient
    <3> QED BY <2>1, <2>2, <3>1 DEF Vanishes, Entered
  <2> DEFINE q == Unclient(s, e)
  <2>4. req' = Begun(r, q)
    BY <2>1 DEF Begin, Begun, Others
  <2>5. LET p == [q EXCEPT !.sole = (Others(r, q) = {})]
        IN  p.op = "unclient" /\ p.at = s /\ p.to = t
    BY <2>3 DEF Unclient, NoRequest
  <2> HIDE DEF q
  <2> QED BY <2>3, <2>4, <2>5 DEF Begun, Unpairing
<1> QED BY <1>1, <1>2

(* What the receiver of an unpairing removes belongs to the sender, or is its own. *)
LEMMA RemovedBelongs ==
  ASSUME Consistent, NEW q \in Request, Sound(q), q.op \in {"unpeer", "unclient"}
  PROVE  /\ \A p \in Range(peers[q.to]) :
              PeerMatches(p, q) => At[p.endpoint] = IF q.op = "unclient" THEN q.at ELSE q.to
         /\ \A e \in Endpoints :
              e = q.endpoint => At[e] = IF q.op = "unclient" THEN q.to ELSE q.at
<1>1. q.to \in Servers /\ q.at \in Servers
  BY SoundRequests DEF Notifying
<1>2. \A p \in Range(peers[q.to]) : p \in Peer /\ LinkedPeer(p)
  <2>1. peers[q.to] \in Seq(Peer)
    BY <1>1 DEF Consistent, TypeOK
  <2> QED BY <1>1, <2>1, LenProperties, ElementOfSeq DEF Consistent, Linked, PeersLinked, Range
<1>3. CASE q.op = "unpeer"
  <2>1. Unpeering(q)
    BY <1>3, SoundRequests
  <2> QED BY <1>1, <1>2, <1>3, <2>1, EndpointAssumption, NoneAssumption
          DEF Unpeering, PeerMatches, Peer, LinkedPeer
<1>4. CASE q.op = "unclient"
  <2>1. Unclienting(q)
    BY <1>4, SoundRequests
  <2> QED BY <1>1, <1>2, <1>4, <2>1, EndpointAssumption, NoneAssumption
          DEF Unclienting, PeerMatches, Peer, LinkedPeer
<1> QED BY <1>3, <1>4

(* Who vanishes had an entry that what was posted matches. *)
LEMMA UnpairVanishes ==
  ASSUME Consistent, NEW s \in Servers, NEW q, Unpair(s, q),
         NEW u \in Servers, NEW t, Vanishes(u, t)
  PROVE  /\ u = s
         /\ \/ \E p \in Range(peers[s]) : t = At[p.endpoint] /\ PeerMatches(p, q)
            \/ \E e \in Endpoints : t = At[e] /\ e = q.endpoint
<1>1. /\ peers \in [Servers -> Seq(Peer)]
      /\ clients \in [Servers -> [Endpoints -> Links \cup {None}]]
  BY DEF Consistent, TypeOK
<1>2. PICK list \in Kept(peers[s], Unmatched(s, q)) :
        /\ peers' = [peers EXCEPT ![s] = list]
        /\ Range(list) = {p \in Range(peers[s]) : ~PeerMatches(p, q)}
  BY UnpairEffect
<1>3. /\ clients' = [clients EXCEPT ![s] =
           [e \in Endpoints |-> IF e = q.endpoint THEN None ELSE clients[s][e]]]
      /\ \A z \in Servers \ {s} : peers'[z] = peers[z] /\ clients'[z] = clients[z]
  BY UnpairEffect
<1>4. u = s
  BY <1>3 DEF Vanishes
<1>5. CASE t \in Reached(peers[u]) /\ t \notin Reached(peers'[u])
  <2>1. t \in Reached(peers[s]) /\ t \notin Reached(list)
    BY <1>1, <1>2, <1>4, <1>5
  <2>2. \E p \in Range(peers[s]) : t = At[p.endpoint] /\ PeerMatches(p, q)
    BY <1>2, <2>1 DEF Reached
  <2> QED BY <1>4, <2>2
<1>6. CASE t \in Entered(clients[u]) /\ t \notin Entered(clients'[u])
  <2>1. \A e \in Endpoints : clients'[s][e] = IF e = q.endpoint THEN None ELSE clients[s][e]
    BY <1>1, <1>3
  <2>2. \E e \in Endpoints : t = At[e] /\ e = q.endpoint
    BY <1>4, <1>6, <2>1 DEF Entered
  <2> QED BY <1>4, <2>2
<1> QED BY <1>5, <1>6 DEF Vanishes

LEMMA UnpairedVanishes ==
  ASSUME Consistent, NEW r \in Requests, ChainPublicUnpaired(r),
         NEW u \in Servers, NEW t \in Servers, u # t, Vanishes(u, t)
  PROVE  Unpairing(u, t)
<1> DEFINE q == req[r]
<1>1. /\ AllSound /\ q \in Request /\ Sound(q) /\ q.op \in {"unpeer", "unclient"}
      /\ q.to \in Servers /\ Unpair(q.to, q)
  BY ConsistentRequests, SoundRequests DEF AllSound, ChainPublicUnpaired, Notifying
<1>2. \E step : req' = [req EXCEPT ![r] = [q EXCEPT !.step = step]]
  BY DEF ChainPublicUnpaired, Advance
<1> HIDE DEF q
<1>3. /\ u = q.to
      /\ \/ \E p \in Range(peers[q.to]) : t = At[p.endpoint] /\ PeerMatches(p, q)
         \/ \E e \in Endpoints : t = At[e] /\ e = q.endpoint
  BY <1>1, UnpairVanishes
<1>4. t = q.at
  BY <1>1, <1>3, RemovedBelongs
<1>5. req'[r].op = q.op /\ req'[r].at = q.at /\ req'[r].to = q.to
  BY <1>1, <1>2 DEF AllSound, Request
<1> QED BY <1>1, <1>3, <1>4, <1>5 DEF Unpairing

(* A post from outside takes away whom it names, by an endpoint or by his link. *)
LEMMA OutsideVanishes ==
  ASSUME Consistent, NEW r \in Requests, NEW s \in Servers, NEW post \in Posts,
         OutsideUnpaired(r, s, post), NEW u \in Servers, NEW t \in Servers, Vanishes(u, t)
  PROVE  Unpairing(u, t)
<1>1. Unpair(s, post)
  BY DEF OutsideUnpaired
<1>2. /\ u = s
      /\ \/ \E p \in Range(peers[s]) : t = At[p.endpoint] /\ PeerMatches(p, post)
         \/ \E e \in Endpoints : t = At[e] /\ e = post.endpoint
  BY <1>1, UnpairVanishes
<1>3. ASSUME \E e \in Endpoints : t = At[e] /\ e = post.endpoint PROVE Names(post, t)
  BY <1>3 DEF Names
<1>4. CASE \E p \in Range(peers[s]) : t = At[p.endpoint] /\ PeerMatches(p, post)
  <2>1. PICK p \in Range(peers[s]) : t = At[p.endpoint] /\ PeerMatches(p, post)
    BY <1>4
  <2>2. p \in Peer /\ LinkedPeer(p)
    <3>1. peers[s] \in Seq(Peer)
      BY DEF Consistent, TypeOK
    <3> QED BY <3>1, LenProperties, ElementOfSeq DEF Consistent, Linked, PeersLinked, Range
  <2>3. p.endpoint \in Endpoints /\ p.link \in Links /\ ExitOf[p.link] = t
    BY <2>1, <2>2 DEF Peer, LinkedPeer
  <2>4. Names(post, t)
    BY <2>1, <2>3 DEF PeerMatches, Names
  <2> QED BY <1>2, <2>4 DEF Unpairing
<1>5. Names(post, t) => Unpairing(u, t)
  BY <1>2 DEF Unpairing
<1> QED BY <1>2, <1>3, <1>4, <1>5

LEMMA StepVanishes ==
  ASSUME Consistent, Next, NEW u \in Servers, NEW t \in Servers, u # t, Vanishes(u, t)
  PROVE  Unpairing(u, t)
<1>1. CASE UNCHANGED <<peers, clients>>
  BY <1>1 DEF Vanishes
<1>2. ASSUME NEW r \in Requests, NEW s \in Servers, NEW k \in Codes, AskCode(r, s, k)
      PROVE  Unpairing(u, t)
  BY <1>1, <1>2 DEF AskCode, lists
<1>3. ASSUME NEW r \in Requests, NEW s \in Servers, NEW k \in Codes, Pair(r, s, k)
      PROVE  Unpairing(u, t)
  BY <1>3, PairTakesNobodyOut
<1>4. ASSUME NEW s \in Servers, NEW k \in Codes, PairLocally(s, k)
      PROVE  Unpairing(u, t)
  BY <1>4, PairTakesNobodyOut
<1>5. ASSUME NEW r \in Requests, NEW s \in Servers,
             RemoveChainPeer(r, s) \/ RemoveChainClient(r, s)
      PROVE  Unpairing(u, t)
  BY <1>5, RemovingVanishes
<1>6. ASSUME NEW s \in Servers,
             SetChainAccepting(s) \/ Crash(s) \/ \E r \in Requests : HandleOther(r, s)
      PROVE  Unpairing(u, t)
  BY <1>1, <1>6 DEF SetChainAccepting, Crash, HandleOther, lists
<1>7. ASSUME NEW r \in Requests, ChainPublicPaired(r)
      PROVE  Unpairing(u, t)
  <2>1. AllSound /\ Sound(req[r]) /\ req[r] \in Request /\ req[r].op = "pair"
    BY <1>7, ConsistentRequests DEF AllSound, ChainPublicPaired
  <2>2. req[r].link \in Links
    BY <2>1, SoundRequests DEF Pairing
  <2>3. peers' = peers
    BY <1>7 DEF ChainPublicPaired
  <2>4. \/ clients' = clients
        \/ clients' = [clients EXCEPT ![req[r].to][req[r].endpoint] = req[r].link]
    BY <1>7 DEF ChainPublicPaired
  <2>5. req[r].link # None /\ clients \in [Servers -> [Endpoints -> Links \cup {None}]]
    BY <2>2, NoneAssumption DEF Consistent, TypeOK
  <2>6. \A e \in Endpoints : clients[u][e] # None => clients'[u][e] # None
    BY <2>4, <2>5
  <2>7. Entered(clients[u]) \subseteq Entered(clients'[u])
    BY <2>6 DEF Entered
  <2> QED BY <2>3, <2>7 DEF Vanishes
<1>8. ASSUME NEW r \in Requests, ChainPublicUnpaired(r)
      PROVE  Unpairing(u, t)
  BY <1>8, UnpairedVanishes
<1>9. ASSUME NEW r \in Requests, \/ IssueCode(r) \/ Rewrite(r) \/ Install(r)
                                 \/ ServeRewrite(r) \/ ServeInstall(r)
                                 \/ Lose(r) \/ TimeOut(r) \/ Finish(r)
      PROVE  Unpairing(u, t)
  BY <1>1, <1>9
     DEF IssueCode, Rewrite, Install, ServeRewrite, ServeInstall, Lose, TimeOut, Finish, lists
<1>10. ASSUME NEW k \in Codes, Expire(k)
       PROVE  Unpairing(u, t)
  BY <1>1, <1>10 DEF Expire
<1>11. ASSUME NEW r \in Requests, NEW s \in Servers, NEW post \in Posts,
              OutsideUnpaired(r, s, post)
       PROVE  Unpairing(u, t)
  BY <1>11, OutsideVanishes
<1> QED BY <1>2, <1>3, <1>4, <1>5, <1>6, <1>7, <1>8, <1>9, <1>10, <1>11
           DEF Next, Administrate, Proceed

(* RemoveChainPeer, RemoveChainClient and ChainPublicUnpaired match entries by
   endpoint or link, upsertChainPeer overwrites one by the same test.  Whatever
   removes an entry, the handlers of these servers concern nobody but the sender and
   the receiver, and a post from outside nobody but whom it names. *)
THEOREM OthersAreLeftAlone == Spec => OnlyTheNamedAreUnpaired
<1> DEFINE A == \A s, t \in Servers :
       \/ s = t
       \/ t \notin (PeersOf(s) \ PeersOf(s)') \cup (ClientsOf(s) \ ClientsOf(s)')
       \/ \E r \in Requests : /\ req'[r].op \in {"unpeer", "unclient"}
                              /\ {req'[r].at, req'[r].to} = {s, t}
       \/ \E r \in Requests, post \in Posts :
            OutsideUnpaired(r, s, post) /\ Names(post, t)
<1>1. Consistent /\ Next => A
  <2> SUFFICES ASSUME Consistent, Next, NEW s \in Servers, NEW t \in Servers, s # t,
                      t \in (PeersOf(s) \ PeersOf(s)') \cup (ClientsOf(s) \ ClientsOf(s)')
               PROVE  Unpairing(s, t)
    BY DEF Unpairing
  <2>1. PeersOf(s)' = Reached(peers'[s]) /\ ClientsOf(s)' = Entered(clients'[s])
    BY DEF PeersOf, ClientsOf, Reached, Entered, Range
  <2>2. Vanishes(s, t)
    BY <2>1, PeersReached, ClientsEntered DEF Vanishes
  <2> QED BY <2>2, StepVanishes
<1>2. Consistent /\ [Next]_vars => [A]_vars
  BY <1>1
<1> HIDE DEF A
<1>3. Spec => [][A]_vars
  BY <1>2, StaysConsistent, PTL DEF Spec
<1> USE DEF A
<1> QED BY <1>3, PTL DEF OnlyTheNamedAreUnpaired

-----------------------------------------------------------------------------
(* The names servers go by. *)

LEMMA SameRequest ==
  ASSUME NEW p, NEW q, Same(p, q)
  PROVE  /\ Notifying(p) <=> Notifying(q)
         /\ Concerned(p) = Concerned(q)
         /\ NamedRequest(p) <=> NamedRequest(q)
BY DEF Same, Notifying, Concerned, NamedRequest

LEMMA RequestsStayNamed ==
  ASSUME \A x \in Requests : NamedRequest(req[x]),
         \A x \in Requests : \/ Same(req'[x], req[x])
                             \/ req'[x] = NoRequest
                             \/ NamedRequest(req'[x])
  PROVE  \A x \in Requests : NamedRequest(req'[x])
<1>1. NamedRequest(NoRequest)
  BY DEF NamedRequest, NoRequest
<1> QED BY <1>1, SameRequest

LEMMA BegunIsSame ==
  ASSUME AllSound, NEW r \in Requests, NEW q \in Request
  PROVE  /\ \A x \in Requests \ {r} : Same(Begun(r, q)[x], req[x])
         /\ Same(Begun(r, q)[r], q)
<1>1. ASSUME NEW x \in Requests \ {r} PROVE Same(Begun(r, q)[x], req[x])
  <2>1. req[x] \in Request
    BY DEF AllSound
  <2>2. Begun(r, q)[x] = req[x] \/ Begun(r, q)[x] = [req[x] EXCEPT !.sole = FALSE]
    BY DEF Begun
  <2>3. Same(req[x], req[x]) /\ Same([req[x] EXCEPT !.sole = FALSE], req[x])
    BY <2>1, Touched DEF Same
  <2> QED BY <2>2, <2>3
<1>2. Begun(r, q)[r] = [q EXCEPT !.sole = (Others(r, q) = {})]
  BY DEF Begun
<1>3. Same([q EXCEPT !.sole = (Others(r, q) = {})], q)
  BY Touched
<1> QED BY <1>1, <1>2, <1>3

LEMMA CodesStayNamed ==
  ASSUME Consistent, CodesNamed,
         \A k \in Codes : \/ codes'[k] = None
                          \/ codes'[k] = codes[k]
                          \/ codes[k] # None /\ \E b \in BOOLEAN :
                               \/ codes'[k] = [codes[k] EXCEPT !.used = b]
                               \/ codes'[k] = [codes[k] EXCEPT !.listed = b]
  PROVE  CodesNamed'
<1> SUFFICES ASSUME NEW k \in Codes, codes'[k] # None PROVE Named(codes'[k].endpoint)
  BY DEF CodesNamed, Named
<1>1. codes[k] \in Code \cup {None}
  BY DEF Consistent, TypeOK
<1>2. codes'[k].endpoint = codes[k].endpoint /\ codes[k] # None
  BY <1>1 DEF Code
<1> QED BY <1>2 DEF CodesNamed

(* Two names of one server are one name, so an entry is overwritten by its like. *)
LEMMA UpsertedNames ==
  ASSUME Consistent, PeersNamed, NEW s \in Servers,
         NEW p \in Peer, LinkedPeer(p), Named(p.endpoint), UpsertPeer(s, p)
  PROVE  PeersNamed'
<1>1. PICK list \in Upserted(peers[s], p) : peers' = [peers EXCEPT ![s] = list]
  BY DEF UpsertPeer
<1>2. /\ peers[s] \in Seq(Peer) /\ peers \in [Servers -> Seq(Peer)]
      /\ \A q \in Range(peers[s]) : LinkedPeer(q) /\ Named(q.endpoint)
      /\ Distinct(peers[s])
  BY DEF Consistent, TypeOK, Linked, PeersLinked, PeersNamed
<1>3. \A q \in Range(peers[s]) : SamePeer(q, p) => q.endpoint = p.endpoint
  BY <1>2 DEF SamePeer, LinkedPeer, Named
<1>4. Distinct(list) /\ Range(list) \subseteq Range(peers[s]) \cup {p}
  BY <1>1, <1>2, <1>3, UpsertedEntries
<1>5. \A q \in Range(list) : Named(q.endpoint)
  BY <1>2, <1>4
<1>6. \A t \in Servers : peers'[t] = IF t = s THEN list ELSE peers[t]
  BY <1>1, <1>2
<1> QED BY <1>4, <1>5, <1>6 DEF PeersNamed, Distinct, Named

LEMMA KeptNames ==
  ASSUME Consistent, PeersNamed, NEW s \in Servers, NEW K, K \subseteq DOMAIN peers[s],
         KeepPeers(s, K)
  PROVE  PeersNamed'
<1>1. PICK list \in Kept(peers[s], K) : peers' = [peers EXCEPT ![s] = list]
  BY DEF KeepPeers
<1>2. /\ peers[s] \in Seq(Peer) /\ peers \in [Servers -> Seq(Peer)]
      /\ \A q \in Range(peers[s]) : Named(q.endpoint)
      /\ Distinct(peers[s])
  BY DEF Consistent, TypeOK, PeersNamed
<1>3. Distinct(list) /\ Range(list) = {peers[s][k] : k \in K}
  BY <1>1, <1>2, KeptEntries
<1>4. \A q \in Range(list) : Named(q.endpoint)
  BY <1>2, <1>3 DEF Range
<1>5. \A t \in Servers : peers'[t] = IF t = s THEN list ELSE peers[t]
  BY <1>1, <1>2
<1> QED BY <1>3, <1>4, <1>5 DEF PeersNamed, Distinct, Named

LEMMA OriginIsName ==
  ASSUME OneName
  PROVE  \A s \in Servers : \A e \in Origins[s] : e \in Endpoints /\ At[e] = s /\ Named(e)
BY EndpointAssumption DEF OneName, Named

LEMMA PairNamed ==
  ASSUME Consistent, NamesInv, OneName,
         NEW r \in Requests, NEW s \in Servers, NEW k \in Codes, Pair(r, s, k)
  PROVE  NamesInv'
<1> DEFINE p == [endpoint |-> codes[k].endpoint, link |-> codes[k].link]
<1>1. /\ codes[k] \in Code /\ At[codes[k].endpoint] = codes[k].by
      /\ ExitOf[codes[k].link] = codes[k].by /\ Named(codes[k].endpoint)
  BY DEF Pair, Decodable, Consistent, TypeOK, Linked, CodesLinked, NamesInv, CodesNamed
<1>2. p \in Peer /\ LinkedPeer(p) /\ Named(p.endpoint)
  BY <1>1 DEF Peer, Code, LinkedPeer
<1>3. UpsertPeer(s, p)
  BY DEF Pair
<1>4. PICK e \in Origins[s] :
        Begin(r, [NoRequest EXCEPT !.op = "pair", !.at = s, !.to = At[codes[k].endpoint],
                                   !.endpoint = e, !.link = codes[k].link, !.code = k,
                                   !.step = "rewrite", !.waiting = TRUE])
  BY DEF Pair
<1> DEFINE q == [NoRequest EXCEPT !.op = "pair", !.at = s, !.to = At[codes[k].endpoint],
                                  !.endpoint = e, !.link = codes[k].link, !.code = k,
                                  !.step = "rewrite", !.waiting = TRUE]
<1>5. e \in Endpoints /\ At[e] = s /\ Named(e)
  BY OriginIsName
<1>6. q \in Request /\ NamedRequest(q)
  BY <1>1, <1>5, EndpointAssumption DEF NoRequest, Request, NamedRequest, Code
<1>7. req' = Begun(r, q)
  BY <1>4 DEF Begin, Begun, Others
<1>8. clients' = clients /\ codes' = codes
  BY DEF Pair
<1> HIDE DEF p, q
<1>9. PeersNamed'
  BY <1>2, <1>3, UpsertedNames DEF NamesInv
<1>10. \A x \in Requests : NamedRequest(req'[x])
  <2>1. \A x \in Requests \ {r} : Same(req'[x], req[x])
    BY <1>6, <1>7, BegunIsSame, ConsistentRequests
  <2>2. NamedRequest(req'[r])
    BY <1>6, <1>7, BegunIsSame, ConsistentRequests, SameRequest
  <2> QED BY <2>1, <2>2, RequestsStayNamed DEF NamesInv
<1> QED BY <1>8, <1>9, <1>10 DEF NamesInv, ClientsNamed, CodesNamed, Named, NamedRequest

LEMMA RemoveChainPeerNamed ==
  ASSUME Consistent, NamesInv, NEW r \in Requests, NEW s \in Servers, RemoveChainPeer(r, s)
  PROVE  NamesInv'
<1>1. PICK i \in DOMAIN peers[s] :
        /\ KeepPeers(s, DOMAIN peers[s] \ {i})
        /\ Begin(r, Unpeered(s, peers[s][i].endpoint))
  BY DEF RemoveChainPeer, Unpeered
<1> DEFINE e == peers[s][i].endpoint
           q == Unpeered(s, e)
<1>2. e \in Endpoints /\ Named(e)
  <2>1. peers[s] \in Seq(Peer)
    BY DEF Consistent, TypeOK
  <2>2. peers[s][i] \in Peer
    BY <2>1, ElementOfSeq, LenProperties
  <2> QED BY <2>2 DEF Peer, NamesInv, PeersNamed, Range
<1>3. req' = Begun(r, q)
  BY <1>1 DEF Begin, Begun, Others
<1> HIDE DEF e
<1>4. q \in Request /\ NamedRequest(q)
  BY <1>2, EndpointAssumption DEF Unpeered, NoRequest, Request, NamedRequest
<1> HIDE DEF q
<1>5. PeersNamed'
  BY <1>1, KeptNames DEF NamesInv
<1>6. \A x \in Requests : NamedRequest(req'[x])
  <2>1. \A x \in Requests \ {r} : Same(req'[x], req[x])
    BY <1>3, <1>4, BegunIsSame, ConsistentRequests
  <2>2. NamedRequest(req'[r])
    BY <1>3, <1>4, BegunIsSame, ConsistentRequests, SameRequest
  <2> QED BY <2>1, <2>2, RequestsStayNamed DEF NamesInv
<1>7. clients' = clients /\ codes' = codes
  BY DEF RemoveChainPeer
<1> QED BY <1>5, <1>6, <1>7 DEF NamesInv, ClientsNamed, CodesNamed, Named, NamedRequest

LEMMA RemoveChainClientNamed ==
  ASSUME Consistent, NamesInv, NEW r \in Requests, NEW s \in Servers, RemoveChainClient(r, s)
  PROVE  NamesInv'
<1>1. PICK e \in Endpoints :
        /\ clients[s][e] # None
        /\ clients' = [clients EXCEPT ![s][e] = None]
        /\ Begin(r, Unclient(s, e))
  BY DEF RemoveChainClient, Unclient
<1> DEFINE q == Unclient(s, e)
<1>2. Named(e) /\ clients[s][e] \in Links
  BY <1>1 DEF NamesInv, ClientsNamed, Consistent, TypeOK
<1>3. req' = Begun(r, q)
  BY <1>1 DEF Begin, Begun, Others
<1>4. q \in Request /\ NamedRequest(q)
  BY <1>2, EndpointAssumption DEF Unclient, NoRequest, Request, NamedRequest
<1> HIDE DEF q
<1>5. ClientsNamed'
  BY <1>1 DEF NamesInv, ClientsNamed, Consistent, TypeOK, Named
<1>6. \A x \in Requests : NamedRequest(req'[x])
  <2>1. \A x \in Requests \ {r} : Same(req'[x], req[x])
    BY <1>3, <1>4, BegunIsSame, ConsistentRequests
  <2>2. NamedRequest(req'[r])
    BY <1>3, <1>4, BegunIsSame, ConsistentRequests, SameRequest
  <2> QED BY <2>1, <2>2, RequestsStayNamed DEF NamesInv
<1>7. peers' = peers /\ codes' = codes
  BY DEF RemoveChainClient
<1> QED BY <1>5, <1>6, <1>7 DEF NamesInv, PeersNamed, CodesNamed, Named, NamedRequest

LEMMA AskCodeNamed ==
  ASSUME Consistent, NamesInv, OneName,
         NEW r \in Requests, NEW s \in Servers, NEW k \in Codes, AskCode(r, s, k)
  PROVE  NamesInv'
<1>1. AllSound
  BY ConsistentRequests
<1>2. PICK e \in Origins[s], l \in served[s] : Snapshotted(r, s, k, e, l)
  BY DEF AskCode
<1>3. Named(e)
  BY OriginIsName
<1>4. /\ req'[r].op = "generate" /\ req'[r].endpoint = e
      /\ \A x \in Requests \ {r} : req'[x] = req[x]
  BY <1>1, <1>2 DEF Snapshotted, AllSound, NoRequest
<1>5. \A x \in Requests : NamedRequest(req'[x])
  BY <1>3, <1>4 DEF NamedRequest, NamesInv
<1>6. peers' = peers /\ clients' = clients /\ codes' = codes
  BY DEF AskCode, lists
<1> QED BY <1>5, <1>6 DEF NamesInv, PeersNamed, ClientsNamed, CodesNamed, Named, NamedRequest

LEMMA IssueCodeNamed ==
  ASSUME Consistent, NamesInv, NEW r \in Requests, IssueCode(r)
  PROVE  NamesInv'
<1>1. AllSound
  BY ConsistentRequests
<1>2. Asking(req[r]) /\ NamedRequest(req[r])
  BY <1>1, SoundRequests DEF IssueCode, AllSound, NamesInv
<1>3. Named(req[r].endpoint)
  BY <1>2 DEF Asking, NamedRequest
<1>4. CodesNamed'
  BY <1>3 DEF IssueCode, NamesInv, CodesNamed, Named, Consistent, TypeOK
<1>5. \A x \in Requests : NamedRequest(req'[x])
  <2>1. \A x \in Requests : req'[x] = NoRequest \/ req'[x] = req[x]
    BY <1>1 DEF IssueCode, AllSound
  <2> QED BY <2>1, RequestsStayNamed DEF NamesInv, Same
<1>6. peers' = peers /\ clients' = clients
  BY DEF IssueCode
<1> QED BY <1>4, <1>5, <1>6 DEF NamesInv, PeersNamed, ClientsNamed, Named, NamedRequest

LEMMA PairLocallyNamed ==
  ASSUME Consistent, NamesInv, OneName, NEW s \in Servers, NEW k \in Codes, PairLocally(s, k)
  PROVE  NamesInv'
<1>1. codes[k] \in Code /\ ExitOf[codes[k].link] = s
  BY DEF PairLocally, Redeemable, Consistent, TypeOK, Linked, CodesLinked
<1>2. PICK e \in Origins[s] : UpsertPeer(s, [endpoint |-> e, link |-> codes[k].link])
  BY DEF PairLocally
<1> DEFINE p == [endpoint |-> e, link |-> codes[k].link]
<1>3. p \in Peer /\ LinkedPeer(p) /\ Named(p.endpoint)
  BY <1>1, OriginIsName DEF Peer, Code, LinkedPeer
<1>4. UpsertPeer(s, p)
  BY <1>2
<1> HIDE DEF p
<1>5. PeersNamed'
  BY <1>3, <1>4, UpsertedNames DEF NamesInv
<1>6. \A x \in Codes : \/ codes'[x] = codes[x]
                       \/ codes[x] # None /\ codes'[x] = [codes[x] EXCEPT !.used = TRUE]
  BY DEF PairLocally, Redeemable, Consistent, TypeOK
<1>7. CodesNamed'
  BY <1>6, CodesStayNamed DEF NamesInv
<1>8. clients' = clients /\ req' = Overtaking(s)
  BY DEF PairLocally
<1>9. \A x \in Requests : NamedRequest(req'[x])
  <2>1. \A x \in Requests : Same(req'[x], req[x])
    BY <1>8, OvertakingIsSound, ConsistentRequests DEF Alike
  <2> QED BY <2>1, RequestsStayNamed DEF NamesInv
<1> QED BY <1>5, <1>7, <1>8, <1>9 DEF NamesInv, ClientsNamed, Named, NamedRequest

(* Codes that are withdrawn or expire. *)
LEMMA VoidedNamed ==
  ASSUME Consistent, NamesInv,
         (\E s \in Servers : SetChainAccepting(s)) \/ (\E k \in Codes : Expire(k))
  PROVE  NamesInv'
<1>1. \A x \in Codes : \/ codes'[x] = None
                       \/ codes'[x] = codes[x]
                       \/ codes[x] # None /\ codes'[x] = [codes[x] EXCEPT !.listed = FALSE]
  <2>1. codes \in [Codes -> Code \cup {None}]
    BY DEF Consistent, TypeOK
  <2>2. CASE \E k \in Codes : Expire(k)
    BY <2>1, <2>2 DEF Expire
  <2>3. CASE \E s \in Servers : SetChainAccepting(s)
    BY <2>3 DEF SetChainAccepting
  <2> QED BY <2>2, <2>3
<1>2. CodesNamed'
  BY <1>1, CodesStayNamed DEF NamesInv
<1>3. peers' = peers /\ clients' = clients /\ req' = req
  BY DEF SetChainAccepting, Expire
<1> QED BY <1>2, <1>3 DEF NamesInv, PeersNamed, ClientsNamed, Named, NamedRequest

(* What an unpairing leaves of lists in which nobody has two names. *)
LEMMA UnpairNamed ==
  ASSUME Consistent, PeersNamed, ClientsNamed, NEW s \in Servers, NEW q, Unpair(s, q)
  PROVE  PeersNamed' /\ ClientsNamed'
<1>1. KeepPeers(s, Unmatched(s, q)) /\ Unmatched(s, q) \subseteq DOMAIN peers[s]
  BY DEF Unpair, Unmatched
<1>2. PeersNamed'
  BY <1>1, KeptNames
<1>3. clients' = [clients EXCEPT ![s] =
        [e \in Endpoints |-> IF e = q.endpoint THEN None ELSE clients[s][e]]]
  BY UnpairEffect
<1>4. ClientsNamed'
  BY <1>3 DEF ClientsNamed, Named, Consistent, TypeOK
<1> QED BY <1>2, <1>4

LEMMA NotifiedNamed ==
  ASSUME Consistent, NamesInv, NEW r \in Requests,
         ChainPublicPaired(r) \/ ChainPublicUnpaired(r)
  PROVE  NamesInv'
<1> DEFINE q == req[r]
<1>1. /\ AllSound /\ q \in Request /\ Sound(q) /\ Notifying(q) /\ NamedRequest(q)
      /\ q.to \in Servers
  BY ConsistentRequests, SoundRequests
     DEF AllSound, ChainPublicPaired, ChainPublicUnpaired, Notifying, NamesInv
<1>2. \A x \in Requests : NamedRequest(req'[x])
  <2>1. \E step : req' = [req EXCEPT ![r] = [q EXCEPT !.step = step]]
    BY DEF ChainPublicPaired, ChainPublicUnpaired, Advance
  <2>2. \A step : Same([q EXCEPT !.step = step], q)
    BY <1>1, AdvancedIsSame
  <2> HIDE DEF q
  <2>3. \A x \in Requests : Same(req'[x], req[x])
    BY <1>1, <2>1, <2>2 DEF AllSound, Same, q
  <2> QED BY <2>3, RequestsStayNamed DEF NamesInv
<1>3. CASE ChainPublicPaired(r)
  <2>1. q.op = "pair"
    BY <1>3 DEF ChainPublicPaired
  <2>2. Named(q.endpoint)
    BY <1>1, <2>1 DEF NamedRequest
  <2>3. clients' = clients \/ clients' = [clients EXCEPT ![q.to][q.endpoint] = q.link]
    BY <1>3 DEF ChainPublicPaired
  <2>4. \A x \in Codes : \/ codes'[x] = codes[x]
                         \/ codes[x] # None /\ codes'[x] = [codes[x] EXCEPT !.used = TRUE]
    BY <1>3 DEF ChainPublicPaired
  <2>5. peers' = peers
    BY <1>3 DEF ChainPublicPaired
  <2> HIDE DEF q
  <2>6. ClientsNamed'
    <3>1. clients \in [Servers -> [Endpoints -> Links \cup {None}]] /\ ClientsNamed
      BY DEF Consistent, TypeOK, NamesInv
    <3>2. CASE clients' = clients
      BY <3>1, <3>2 DEF ClientsNamed, Named
    <3>3. CASE clients' = [clients EXCEPT ![q.to][q.endpoint] = q.link]
      BY <2>2, <3>1, <3>3 DEF ClientsNamed, Named
    <3> QED BY <2>3, <3>2, <3>3
  <2>7. CodesNamed'
    BY <2>4, CodesStayNamed DEF NamesInv
  <2> QED BY <1>2, <2>5, <2>6, <2>7 DEF NamesInv, PeersNamed, Named, NamedRequest
<1>4. CASE ChainPublicUnpaired(r)
  <2>1. Unpair(q.to, q) /\ codes' = codes
    BY <1>4 DEF ChainPublicUnpaired
  <2> HIDE DEF q
  <2>2. PeersNamed' /\ ClientsNamed'
    BY <1>1, <2>1, UnpairNamed DEF NamesInv
  <2> QED BY <1>2, <2>1, <2>2 DEF NamesInv, CodesNamed, Named, NamedRequest
<1> QED BY <1>3, <1>4

LEMMA OutsideUnpairedNamed ==
  ASSUME Consistent, NamesInv, NEW r \in Requests, NEW s \in Servers, NEW post,
         OutsideUnpaired(r, s, post)
  PROVE  NamesInv'
<1>1. AllSound
  BY ConsistentRequests
<1>2. Unpair(s, post) /\ codes' = codes
  BY DEF OutsideUnpaired
<1>3. PeersNamed' /\ ClientsNamed'
  BY <1>2, UnpairNamed DEF NamesInv
<1>4. ASSUME NEW x \in Requests \ {r} PROVE Same(req'[x], req[x])
  <2>1. req'[x] = req[x] \/ req'[x] = [req[x] EXCEPT !.sole = FALSE]
    BY SeveredRequests
  <2>2. Same(req[x], req[x]) /\ Same([req[x] EXCEPT !.sole = FALSE], req[x])
    BY <1>1, Touched DEF AllSound, Same
  <2> QED BY <2>1, <2>2
<1>5. NamedRequest(req'[r])
  BY SeveredRequests DEF NamedRequest
<1>6. \A x \in Requests : NamedRequest(req'[x])
  BY <1>4, <1>5, RequestsStayNamed DEF NamesInv
<1> QED BY <1>2, <1>3, <1>6 DEF NamesInv, CodesNamed, Named, NamedRequest

(* The steps that touch no list. *)
LEMMA OtherStepsNamed ==
  ASSUME Consistent, NamesInv,
         \/ \E r \in Requests : \/ Rewrite(r) \/ Install(r) \/ ServeRewrite(r)
                                \/ ServeInstall(r) \/ Lose(r) \/ TimeOut(r) \/ Finish(r)
         \/ \E r \in Requests, s \in Servers : HandleOther(r, s)
         \/ \E s \in Servers : Crash(s)
         \/ UNCHANGED vars
  PROVE  NamesInv'
<1>1. AllSound
  BY ConsistentRequests
<1>2. peers' = peers /\ clients' = clients /\ codes' = codes
  BY DEF Rewrite, Install, ServeRewrite, ServeInstall, Lose, TimeOut, Finish, HandleOther,
         Crash, lists, vars
<1>3. \A x \in Requests : \/ Same(req'[x], req[x])
                          \/ req'[x] = NoRequest
                          \/ req'[x].op = "other"
  <2>1. CASE \E r \in Requests : Rewrite(r) \/ ServeRewrite(r)
    <3>1. PICK r \in Requests, s \in Servers, step \in {"install", "replace"} :
            /\ Look(r, s, step)
            /\ \/ req[r].step = "rewrite" /\ step = "install"
               \/ req[r].step = "serving" /\ step = "replace"
      BY <1>1, <2>1, WritersServers DEF Rewrite, ServeRewrite
    <3>2. /\ Same(req'[r], req[r])
          /\ \A x \in Requests \ {r} : req'[x] = Overtaking(s)[x]
      BY <3>1, LookedRequests
    <3>3. \A x \in Requests : Same(Overtaking(s)[x], req[x])
      BY <1>1, OvertakingIsSound DEF Alike
    <3> QED BY <3>2, <3>3
  <2>2. CASE \E r \in Requests : Install(r) \/ ServeInstall(r)
    <3>1. PICK r \in Requests, step \in {"sent", "ok"} :
            /\ Written(r, step)
            /\ \/ req[r].step = "install" /\ step = "sent"
               \/ req[r].step = "replace" /\ step = "ok"
      BY <2>2 DEF Install, ServeInstall
    <3>2. /\ \A x \in Requests \ {r} : req'[x] = req[x]
          /\ req'[r] = NoRequest \/ Same(req'[r], req[r])
      BY <1>1, <3>1, WrittenRequests
    <3> QED BY <3>2 DEF Same
  <2>3. CASE \E r \in Requests : Lose(r) \/ TimeOut(r) \/ Finish(r)
    <3>1. PICK r \in Requests :
            \/ req' = [req EXCEPT ![r] = NoRequest]
            \/ req' = [req EXCEPT ![r] = [req[r] EXCEPT !.waiting = FALSE]]
      BY <2>3 DEF Lose, TimeOut, Finish
    <3>2. \A x \in Requests \ {r} : req'[x] = req[x]
      BY <1>1, <3>1 DEF AllSound
    <3>3. req'[r] = NoRequest \/ req'[r] = [req[r] EXCEPT !.waiting = FALSE]
      BY <1>1, <3>1 DEF AllSound
    <3>4. Same([req[r] EXCEPT !.waiting = FALSE], req[r])
      BY <1>1, Touched DEF AllSound
    <3> QED BY <3>2, <3>3, <3>4 DEF Same
  <2>4. CASE \E r \in Requests, s \in Servers : HandleOther(r, s)
    <3>1. PICK r \in Requests, s \in Servers :
            req' = [req EXCEPT ![r] =
                      [NoRequest EXCEPT !.op = "other", !.at = s, !.step = "rewrite"]]
      BY <2>4 DEF HandleOther
    <3>2. req'[r].op = "other" /\ \A x \in Requests \ {r} : req'[x] = req[x]
      BY <1>1, <3>1 DEF AllSound, NoRequest
    <3> QED BY <3>2 DEF Same
  <2>5. CASE \E s \in Servers : Crash(s)
    <3>1. ASSUME NEW x \in Requests PROVE Same(req'[x], req[x]) \/ req'[x] = NoRequest
      <4>1. \/ req'[x] = NoRequest
            \/ req'[x] = [req[x] EXCEPT !.waiting = FALSE]
            \/ req'[x] = req[x]
        BY <2>5 DEF Crash
      <4>2. Same(req[x], req[x]) /\ Same([req[x] EXCEPT !.waiting = FALSE], req[x])
        BY <1>1, Touched DEF AllSound, Same
      <4> QED BY <4>1, <4>2
    <3> QED BY <3>1
  <2>6. CASE UNCHANGED vars
    BY <2>6 DEF vars, Same
  <2> QED BY <2>1, <2>2, <2>3, <2>4, <2>5, <2>6
<1>4. \A x \in Requests : NamedRequest(req'[x])
  BY <1>3, RequestsStayNamed DEF NamesInv, NamedRequest
<1> QED BY <1>2, <1>4 DEF NamesInv, PeersNamed, ClientsNamed, CodesNamed, Named, NamedRequest

LEMMA StepNamed == Consistent /\ NamesInv /\ OneName /\ [Next]_vars => NamesInv'
<1> SUFFICES ASSUME Consistent, NamesInv, OneName, [Next]_vars PROVE NamesInv'
  OBVIOUS
<1>1. ASSUME NEW r \in Requests, NEW s \in Servers, NEW k \in Codes, AskCode(r, s, k) \/ Pair(r, s, k)
      PROVE  NamesInv'
  BY <1>1, AskCodeNamed, PairNamed
<1>2. ASSUME NEW r \in Requests, NEW s \in Servers,
             RemoveChainPeer(r, s) \/ RemoveChainClient(r, s)
      PROVE  NamesInv'
  BY <1>2, RemoveChainPeerNamed, RemoveChainClientNamed
<1>3. ASSUME NEW s \in Servers, NEW k \in Codes, PairLocally(s, k)
      PROVE  NamesInv'
  BY <1>3, PairLocallyNamed
<1>4. ASSUME NEW r \in Requests, IssueCode(r)
      PROVE  NamesInv'
  BY <1>4, IssueCodeNamed
<1>5. ASSUME NEW r \in Requests, ChainPublicPaired(r) \/ ChainPublicUnpaired(r)
      PROVE  NamesInv'
  BY <1>5, NotifiedNamed
<1>6. ASSUME NEW r \in Requests, NEW s \in Servers, NEW post \in Posts,
             OutsideUnpaired(r, s, post)
      PROVE  NamesInv'
  BY <1>6, OutsideUnpairedNamed
<1> QED BY <1>1, <1>2, <1>3, <1>4, <1>5, <1>6, VoidedNamed, OtherStepsNamed
           DEF Next, Administrate, Proceed

LEMMA InitNamed == Init /\ OneName => NamesInv
<1> SUFFICES ASSUME Init, OneName PROVE NamesInv
  OBVIOUS
<1>1. PeersNamed
  BY DEF Init, OneName, PeersNamed
<1>2. ClientsNamed
  <2> SUFFICES ASSUME NEW s \in Servers, NEW e \in Endpoints, clients[s][e] # None
               PROVE  Named(e)
    BY DEF ClientsNamed
  <2>1. e \in Origins[At[e]] /\ At[e] \in Servers
    BY EndpointAssumption DEF Init
  <2> QED BY <2>1, OriginIsName
<1>3. CodesNamed /\ \A r \in Requests : NamedRequest(req[r])
  BY DEF Init, CodesNamed, NamedRequest, NoRequest
<1> QED BY <1>1, <1>2, <1>3 DEF NamesInv

-----------------------------------------------------------------------------
(* Two servers and the requests about them. *)

Listed(x, y) == y \in Reached(peers[x])
Known(x, y) == x \in Entered(clients[y])

(* A step that begins no request and touches no list: a request goes on as it was,
   or ends with a doubt, unless it ended as it should; and only this takes a doubt
   away. *)
LEMMA Quiet ==
  ASSUME PairInv,
         \A x \in Requests : Notifying(req'[x]) =>
           /\ Same(req'[x], req[x]) /\ req'[x].sole = req[x].sole
           /\ req'[x].waiting = req[x].waiting \/ Concerned(req[x]) \in doubt'
           /\ Delivered(req'[x]) => Delivered(req[x]),
         \A x \in Requests : Notifying(req[x]) /\ ~Notifying(req'[x]) =>
           Concerned(req[x]) \in doubt' \/ (req[x].sole /\ Delivered(req[x])),
         \A pair \in doubt \ doubt' : \E x \in Requests :
           /\ Notifying(req[x]) /\ ~Notifying(req'[x])
           /\ Concerned(req[x]) = pair /\ req[x].sole,
         \A x, y \in Servers : x # y =>
           (Listed(x, y)' <=> Listed(x, y)) /\ (Known(x, y)' <=> Known(x, y))
  PROVE  PairInv'
<1>1. \A x \in Requests : Notifying(req'[x]) =>
        Notifying(req[x]) /\ Concerned(req'[x]) = Concerned(req[x])
  BY SameRequest
<1>2. \A pair : AboutIn(req', pair) \subseteq AboutIn(req, pair)
  BY <1>1 DEF AboutIn
<1>3. \A pair \in doubt \ doubt' : AboutIn(req', pair) = {}
  <2> SUFFICES ASSUME NEW pair \in doubt \ doubt' PROVE AboutIn(req', pair) = {}
    OBVIOUS
  <2>1. PICK x \in Requests : /\ Notifying(req[x]) /\ ~Notifying(req'[x])
                              /\ Concerned(req[x]) = pair /\ req[x].sole
    OBVIOUS
  <2>2. AboutIn(req, pair) = {x}
    BY <2>1 DEF PairInv, Alone
  <2>3. x \notin AboutIn(req', pair)
    BY <2>1 DEF AboutIn
  <2> QED BY <1>2, <2>2, <2>3
<1>4. Alone'
  <2> SUFFICES ASSUME NEW r \in Requests, Notifying(req'[r]), req'[r].sole
               PROVE  AboutIn(req', Concerned(req'[r])) = {r}
    BY DEF Alone, AboutIn
  <2>1. AboutIn(req, Concerned(req'[r])) = {r}
    BY <1>1 DEF PairInv, Alone
  <2>2. r \in AboutIn(req', Concerned(req'[r]))
    BY DEF AboutIn
  <2> QED BY <1>2, <2>1, <2>2
<1>5. Doubted'
  <2> SUFFICES ASSUME NEW r \in Requests, Notifying(req'[r]), ~(req'[r].sole /\ req'[r].waiting)
               PROVE  Concerned(req'[r]) \in doubt'
    BY DEF Doubted
  <2>1. Notifying(req[r]) /\ Concerned(req'[r]) = Concerned(req[r])
    BY <1>1
  <2>2. CASE Concerned(req[r]) \in doubt'
    BY <2>1, <2>2
  <2>3. CASE req'[r].waiting = req[r].waiting
    <3>1. Concerned(req[r]) \in doubt
      BY <2>1, <2>3 DEF PairInv, Doubted
    <3>2. r \in AboutIn(req', Concerned(req[r]))
      BY <2>1 DEF AboutIn
    <3> QED BY <1>3, <2>1, <3>1, <3>2
  <2> QED BY <2>2, <2>3
<1>6. Effects'
  <2> SUFFICES ASSUME NEW r \in Requests, NEW x \in Servers, NEW y \in Servers,
                      Notifying(req'[r]), req'[r].sole, Concerned(req'[r]) = <<x, y>>, x # y
               PROVE  Effect(req'[r], Listed(x, y)', Known(x, y)')
    BY DEF Effects, Listed, Known
  <2>1. Notifying(req[r]) /\ req[r].sole /\ Concerned(req[r]) = <<x, y>>
    BY <1>1
  <2>2. Effect(req[r], Listed(x, y), Known(x, y))
    BY <2>1 DEF PairInv, Effects, Listed, Known
  <2>3. req'[r].op = req[r].op /\ (Delivered(req'[r]) => Delivered(req[r]))
    BY DEF Same
  <2>4. (Listed(x, y)' <=> Listed(x, y)) /\ (Known(x, y)' <=> Known(x, y))
    OBVIOUS
  <2> QED BY <2>2, <2>3, <2>4 DEF Effect
<1>7. Agree'
  <2> SUFFICES ASSUME NEW x \in Servers, NEW y \in Servers, x # y, <<x, y>> \notin doubt',
                      AboutIn(req', <<x, y>>) = {}
               PROVE  Listed(x, y)' <=> Known(x, y)'
    BY DEF Agree, Listed, Known
  <2>1. (Listed(x, y)' <=> Listed(x, y)) /\ (Known(x, y)' <=> Known(x, y))
    OBVIOUS
  <2>2. CASE AboutIn(req, <<x, y>>) = {}
    <3>1. <<x, y>> \notin doubt
      BY <2>2 DEF AboutIn
    <3> QED BY <2>1, <2>2, <3>1 DEF PairInv, Agree, Listed, Known
  <2>3. CASE AboutIn(req, <<x, y>>) # {}
    <3>1. PICK r \in Requests : Notifying(req[r]) /\ Concerned(req[r]) = <<x, y>>
      BY <2>3 DEF AboutIn
    <3>2. ~Notifying(req'[r])
      BY <1>1, <3>1 DEF AboutIn
    <3>3. req[r].sole /\ Delivered(req[r])
      BY <3>1, <3>2
    <3>4. Effect(req[r], Listed(x, y), Known(x, y))
      BY <3>1, <3>3 DEF PairInv, Effects, Listed, Known
    <3> QED BY <2>1, <3>3, <3>4 DEF Effect
  <2> QED BY <2>2, <2>3
<1> QED BY <1>4, <1>5, <1>6, <1>7 DEF PairInv

(* A notification arrives and changes what its receiver has of the sender. *)
LEMMA Delivery ==
  ASSUME PairInv, NEW r \in Requests, Notifying(req[r]), Same(req'[r], req[r]),
         req'[r].sole = req[r].sole, req'[r].waiting = req[r].waiting,
         \A x \in Requests \ {r} : req'[x] = req[x], doubt' = doubt,
         \A x, y \in Servers : x # y =>
           IF Concerned(req[r]) = <<x, y>>
             THEN req[r].sole => Effect(req'[r], Listed(x, y)', Known(x, y)')
             ELSE (Listed(x, y)' <=> Listed(x, y)) /\ (Known(x, y)' <=> Known(x, y))
  PROVE  PairInv'
<1>1. \A x \in Requests : /\ Notifying(req'[x]) <=> Notifying(req[x])
                          /\ Concerned(req'[x]) = Concerned(req[x])
                          /\ req'[x].sole = req[x].sole /\ req'[x].waiting = req[x].waiting
  BY SameRequest
<1>2. \A pair : AboutIn(req', pair) = AboutIn(req, pair)
  BY <1>1 DEF AboutIn
<1>3. Alone' /\ Doubted'
  BY <1>1, <1>2 DEF PairInv, Alone, Doubted
<1>4. Effects'
  <2> SUFFICES ASSUME NEW x \in Requests, NEW u \in Servers, NEW v \in Servers,
                      Notifying(req'[x]), req'[x].sole, Concerned(req'[x]) = <<u, v>>, u # v
               PROVE  Effect(req'[x], Listed(u, v)', Known(u, v)')
    BY DEF Effects, Listed, Known
  <2>1. Notifying(req[x]) /\ req[x].sole /\ Concerned(req[x]) = <<u, v>>
    BY <1>1
  <2>2. CASE x = r
    BY <2>1, <2>2
  <2>3. CASE x # r
    <3>1. AboutIn(req, <<u, v>>) = {x}
      BY <2>1 DEF PairInv, Alone
    <3>2. Concerned(req[r]) # <<u, v>>
      BY <2>3, <3>1 DEF AboutIn
    <3>3. (Listed(u, v)' <=> Listed(u, v)) /\ (Known(u, v)' <=> Known(u, v))
      BY <3>2
    <3>4. Effect(req[x], Listed(u, v), Known(u, v))
      BY <2>1 DEF PairInv, Effects, Listed, Known
    <3>5. req'[x] = req[x]
      BY <2>3
    <3> QED BY <3>3, <3>4, <3>5 DEF Effect
  <2> QED BY <2>2, <2>3
<1>5. Agree'
  <2> SUFFICES ASSUME NEW u \in Servers, NEW v \in Servers, u # v, <<u, v>> \notin doubt',
                      AboutIn(req', <<u, v>>) = {}
               PROVE  Listed(u, v)' <=> Known(u, v)'
    BY DEF Agree, Listed, Known
  <2>1. AboutIn(req, <<u, v>>) = {}
    BY <1>2
  <2>2. Concerned(req[r]) # <<u, v>>
    BY <2>1 DEF AboutIn
  <2>3. (Listed(u, v)' <=> Listed(u, v)) /\ (Known(u, v)' <=> Known(u, v))
    BY <2>2
  <2> QED BY <2>1, <2>3 DEF PairInv, Agree, Listed, Known
<1> QED BY <1>3, <1>4, <1>5 DEF PairInv

(* A request begins with the change of its sender's list; the others about the same
   two servers are no longer sole, and a doubt remembers that they met. *)
LEMMA Beginning ==
  ASSUME AllSound, PairInv, NEW r \in Requests, Idle(r),
         NEW q \in Request, Notifying(q), q.waiting, ~Delivered(q),
         req' = Begun(r, q), doubt' = Crossed(r, q),
         \A x, y \in Servers : x # y =>
           IF Concerned(q) = <<x, y>>
             THEN Effect(q, Listed(x, y)', Known(x, y)')
             ELSE (Listed(x, y)' <=> Listed(x, y)) /\ (Known(x, y)' <=> Known(x, y))
  PROVE  PairInv'
<1> DEFINE new == [q EXCEPT !.sole = (Others(r, q) = {})]
<1>1. req'[r] = new
  BY DEF Begun
<1>2. Same(new, q) /\ new.waiting = q.waiting /\ new.step = q.step /\ new.sole = (Others(r, q) = {})
  BY DEF Request, Same
<1> HIDE DEF new
<1>3. Notifying(req'[r]) /\ Concerned(req'[r]) = Concerned(q)
  BY <1>1, <1>2, SameRequest
<1>4. \A x \in Requests \ {r} : /\ Notifying(req'[x]) <=> Notifying(req[x])
                                /\ Concerned(req'[x]) = Concerned(req[x])
  BY BegunIsSame, SameRequest
<1>5. ~Notifying(req[r])
  BY NoRequestIsSound DEF Idle
<1>6. Others(r, q) = AboutIn(req, Concerned(q))
  BY <1>5 DEF Others, About, AboutIn
<1>7. AboutIn(req', Concerned(q)) = Others(r, q) \cup {r}
  BY <1>3, <1>4, <1>5, <1>6 DEF AboutIn
<1>8. \A pair : pair # Concerned(q) => AboutIn(req', pair) = AboutIn(req, pair)
  BY <1>3, <1>4, <1>5 DEF AboutIn
<1>9. \A x \in Requests \ {r} : x \notin Others(r, q) => req'[x] = req[x]
  BY DEF Begun
<1>10. \A x \in Others(r, q) : x \in Requests \ {r} /\ Concerned(req'[x]) = Concerned(q) /\ ~req'[x].sole
  <2> SUFFICES ASSUME NEW x \in Others(r, q)
               PROVE  x \in Requests \ {r} /\ Concerned(req'[x]) = Concerned(q) /\ ~req'[x].sole
    OBVIOUS
  <2>1. x \in Requests \ {r} /\ Concerned(req[x]) = Concerned(q)
    BY DEF Others, About
  <2>2. req'[x] = [req[x] EXCEPT !.sole = FALSE] /\ req[x] \in Request
    BY <2>1 DEF Begun, AllSound
  <2>3. ~req'[x].sole
    BY <2>2 DEF Request
  <2> QED BY <1>4, <2>1, <2>3
<1>11. ASSUME NEW x \in Requests \ {r}, Notifying(req'[x]), Concerned(req'[x]) # Concerned(q)
       PROVE  req'[x] = req[x] /\ Notifying(req[x])
  BY <1>4, <1>9, <1>10, <1>11
<1>12. Alone'
  <2> SUFFICES ASSUME NEW x \in Requests, Notifying(req'[x]), req'[x].sole
               PROVE  AboutIn(req', Concerned(req'[x])) = {x}
    BY DEF Alone, AboutIn
  <2>1. CASE x = r
    BY <1>1, <1>2, <1>3, <1>7, <2>1
  <2>2. CASE x # r
    <3>1. Concerned(req'[x]) # Concerned(q)
      BY <1>4, <1>6, <1>10, <2>2 DEF AboutIn
    <3>2. req'[x] = req[x] /\ Notifying(req[x])
      BY <1>11, <2>2, <3>1
    <3> QED BY <1>8, <3>1, <3>2 DEF PairInv, Alone
  <2> QED BY <2>1, <2>2
<1>13. Doubted'
  <2> SUFFICES ASSUME NEW x \in Requests, Notifying(req'[x]), ~(req'[x].sole /\ req'[x].waiting)
               PROVE  Concerned(req'[x]) \in doubt'
    BY DEF Doubted
  <2>1. CASE x = r
    <3>1. Others(r, q) # {}
      BY <1>1, <1>2, <2>1
    <3> QED BY <1>3, <2>1, <3>1 DEF Crossed
  <2>2. CASE x # r /\ Concerned(req'[x]) = Concerned(q)
    <3>1. x \in Others(r, q)
      BY <1>4, <1>6, <2>2 DEF AboutIn
    <3> QED BY <2>2, <3>1 DEF Crossed
  <2>3. CASE x # r /\ Concerned(req'[x]) # Concerned(q)
    <3>1. req'[x] = req[x] /\ Notifying(req[x])
      BY <1>11, <2>3
    <3> QED BY <3>1 DEF PairInv, Doubted, Crossed
  <2> QED BY <2>1, <2>2, <2>3
<1>14. Effects'
  <2> SUFFICES ASSUME NEW x \in Requests, NEW u \in Servers, NEW v \in Servers,
                      Notifying(req'[x]), req'[x].sole, Concerned(req'[x]) = <<u, v>>, u # v
               PROVE  Effect(req'[x], Listed(u, v)', Known(u, v)')
    BY DEF Effects, Listed, Known
  <2>1. CASE x = r
    <3>1. Effect(q, Listed(u, v)', Known(u, v)')
      BY <1>3, <2>1
    <3>2. req'[r].op = q.op /\ (Delivered(req'[r]) <=> Delivered(q))
      BY <1>1, <1>2 DEF Same, Delivered
    <3> QED BY <2>1, <3>1, <3>2 DEF Effect
  <2>2. CASE x # r
    <3>1. Concerned(req'[x]) # Concerned(q)
      BY <1>4, <1>6, <1>10, <2>2 DEF AboutIn
    <3>2. req'[x] = req[x] /\ Notifying(req[x])
      BY <1>11, <2>2, <3>1
    <3>3. (Listed(u, v)' <=> Listed(u, v)) /\ (Known(u, v)' <=> Known(u, v))
      BY <3>1
    <3>4. Effect(req[x], Listed(u, v), Known(u, v))
      BY <3>2 DEF PairInv, Effects, Listed, Known
    <3> QED BY <3>2, <3>3, <3>4 DEF Effect
  <2> QED BY <2>1, <2>2
<1>15. Agree'
  <2> SUFFICES ASSUME NEW u \in Servers, NEW v \in Servers, u # v, <<u, v>> \notin doubt',
                      AboutIn(req', <<u, v>>) = {}
               PROVE  Listed(u, v)' <=> Known(u, v)'
    BY DEF Agree, Listed, Known
  <2>1. Concerned(q) # <<u, v>>
    BY <1>7
  <2>2. AboutIn(req, <<u, v>>) = {} /\ <<u, v>> \notin doubt
    BY <1>8, <2>1 DEF Crossed
  <2>3. (Listed(u, v)' <=> Listed(u, v)) /\ (Known(u, v)' <=> Known(u, v))
    BY <2>1
  <2> QED BY <2>2, <2>3 DEF PairInv, Agree, Listed, Known
<1> QED BY <1>12, <1>13, <1>14, <1>15 DEF PairInv

-----------------------------------------------------------------------------
(* What the steps make of the two lists. *)

LEMMA UpsertedLists ==
  ASSUME Consistent, NEW s \in Servers, NEW p \in Peer, LinkedPeer(p),
         UpsertPeer(s, p), clients' = clients
  PROVE  \A x, y \in Servers :
           /\ Listed(x, y)' <=> Listed(x, y) \/ <<x, y>> = <<s, At[p.endpoint]>>
           /\ Known(x, y)' <=> Known(x, y)
<1>1. PICK list \in Upserted(peers[s], p) : peers' = [peers EXCEPT ![s] = list]
  BY DEF UpsertPeer
<1>2. /\ peers[s] \in Seq(Peer) /\ peers \in [Servers -> Seq(Peer)]
      /\ \A q \in Range(peers[s]) : LinkedPeer(q)
  BY DEF Consistent, TypeOK, Linked, PeersLinked
<1>3. Reached(list) = Reached(peers[s]) \cup {At[p.endpoint]}
  BY <1>1, <1>2, UpsertedPeers
<1>4. \A x \in Servers : peers'[x] = IF x = s THEN list ELSE peers[x]
  BY <1>1, <1>2
<1> QED BY <1>3, <1>4 DEF Listed, Known

(* One entry goes, and with it the server, which has no other. *)
LEMMA RemovedLists ==
  ASSUME Consistent, NamesInv, NEW s \in Servers, NEW i \in DOMAIN peers[s],
         KeepPeers(s, DOMAIN peers[s] \ {i}), clients' = clients
  PROVE  \A x, y \in Servers :
           /\ Listed(x, y)' <=> Listed(x, y) /\ <<x, y>> # <<s, At[peers[s][i].endpoint]>>
           /\ Known(x, y)' <=> Known(x, y)
<1> DEFINE t == At[peers[s][i].endpoint]
<1>1. PICK list \in Kept(peers[s], DOMAIN peers[s] \ {i}) : peers' = [peers EXCEPT ![s] = list]
  BY DEF KeepPeers
<1>2. peers[s] \in Seq(Peer) /\ peers \in [Servers -> Seq(Peer)]
  BY DEF Consistent, TypeOK
<1>3. Range(list) = {peers[s][k] : k \in DOMAIN peers[s] \ {i}}
  BY <1>1, <1>2, KeptEntries
<1>4. \A k \in DOMAIN peers[s] \ {i} : At[peers[s][k].endpoint] # t
  <2> SUFFICES ASSUME NEW k \in DOMAIN peers[s] \ {i}, At[peers[s][k].endpoint] = t
               PROVE  FALSE
    OBVIOUS
  <2>1. Named(peers[s][k].endpoint) /\ Named(peers[s][i].endpoint) /\ Distinct(peers[s])
    BY DEF NamesInv, PeersNamed, Range
  <2>2. peers[s][k].endpoint = peers[s][i].endpoint
    BY <2>1 DEF Named
  <2> QED BY <2>1, <2>2 DEF Distinct
<1>5. Reached(list) = Reached(peers[s]) \ {t}
  BY <1>3, <1>4 DEF Reached, Range
<1>6. \A x \in Servers : peers'[x] = IF x = s THEN list ELSE peers[x]
  BY <1>1, <1>2
<1> QED BY <1>5, <1>6 DEF Listed, Known

LEMMA PairAgreed ==
  ASSUME Consistent, PairInv, NEW r \in Requests, NEW s \in Servers, NEW k \in Codes, Pair(r, s, k)
  PROVE  PairInv'
<1>1. /\ codes[k] \in Code /\ At[codes[k].endpoint] = codes[k].by
      /\ ExitOf[codes[k].link] = codes[k].by
  BY DEF Pair, Decodable, Consistent, TypeOK, Linked, CodesLinked
<1>2. PICK p \in Peer :
        /\ p = [endpoint |-> codes[k].endpoint, link |-> codes[k].link]
        /\ LinkedPeer(p) /\ UpsertPeer(s, p) /\ clients' = clients
  BY <1>1 DEF Pair, Peer, Code, LinkedPeer
<1>3. PICK e \in Origins[s] :
        Begin(r, [NoRequest EXCEPT !.op = "pair", !.at = s, !.to = At[codes[k].endpoint],
                                   !.endpoint = e, !.link = codes[k].link, !.code = k,
                                   !.step = "rewrite", !.waiting = TRUE])
  BY DEF Pair
<1> DEFINE q == [NoRequest EXCEPT !.op = "pair", !.at = s, !.to = At[codes[k].endpoint],
                                  !.endpoint = e, !.link = codes[k].link, !.code = k,
                                  !.step = "rewrite", !.waiting = TRUE]
<1>4. q \in Request
  BY <1>1, EndpointAssumption DEF NoRequest, Request, Code
<1>5. /\ q.op = "pair" /\ q.waiting /\ q.step = "rewrite"
      /\ Concerned(q) = <<s, At[p.endpoint]>>
  BY <1>2 DEF NoRequest, Concerned
<1>6. req' = Begun(r, q) /\ doubt' = Crossed(r, q)
  BY <1>3 DEF Begin, Begun, Crossed, Others
<1>7. Idle(r)
  BY DEF Pair
<1> HIDE DEF q
<1>8. Notifying(q) /\ ~Delivered(q)
  BY <1>5 DEF Notifying, Delivered
<1>9. \A x, y \in Servers :
        /\ Listed(x, y)' <=> Listed(x, y) \/ <<x, y>> = <<s, At[p.endpoint]>>
        /\ Known(x, y)' <=> Known(x, y)
  BY <1>2, UpsertedLists
<1>10. \A x, y \in Servers : x # y =>
         IF Concerned(q) = <<x, y>>
           THEN Effect(q, Listed(x, y)', Known(x, y)')
           ELSE (Listed(x, y)' <=> Listed(x, y)) /\ (Known(x, y)' <=> Known(x, y))
  BY <1>5, <1>8, <1>9 DEF Effect
<1> QED BY <1>4, <1>5, <1>6, <1>7, <1>8, <1>10, Beginning, ConsistentRequests

LEMMA RemoveChainPeerAgreed ==
  ASSUME Consistent, NamesInv, PairInv,
         NEW r \in Requests, NEW s \in Servers, RemoveChainPeer(r, s)
  PROVE  PairInv'
<1>1. PICK i \in DOMAIN peers[s] :
        /\ KeepPeers(s, DOMAIN peers[s] \ {i})
        /\ Begin(r, Unpeered(s, peers[s][i].endpoint))
  BY DEF RemoveChainPeer, Unpeered
<1> DEFINE e == peers[s][i].endpoint
           q == Unpeered(s, e)
<1>2. e \in Endpoints
  <2>1. peers[s] \in Seq(Peer)
    BY DEF Consistent, TypeOK
  <2>2. peers[s][i] \in Peer
    BY <2>1, ElementOfSeq, LenProperties
  <2> QED BY <2>2 DEF Peer
<1>3. req' = Begun(r, q) /\ doubt' = Crossed(r, q)
  BY <1>1 DEF Begin, Begun, Crossed, Others
<1>4. Idle(r) /\ clients' = clients
  BY DEF RemoveChainPeer
<1>5. \A x, y \in Servers :
        /\ Listed(x, y)' <=> Listed(x, y) /\ <<x, y>> # <<s, At[e]>>
        /\ Known(x, y)' <=> Known(x, y)
  BY <1>1, <1>4, RemovedLists
<1> HIDE DEF e
<1>6. q \in Request
  BY <1>2, EndpointAssumption DEF Unpeered, NoRequest, Request
<1>7. q.op = "unpeer" /\ q.waiting /\ q.step = "rewrite" /\ Concerned(q) = <<s, At[e]>>
  BY DEF Unpeered, NoRequest, Concerned
<1> HIDE DEF q
<1>8. Notifying(q) /\ ~Delivered(q)
  BY <1>7 DEF Notifying, Delivered
<1>9. \A x, y \in Servers : x # y =>
        IF Concerned(q) = <<x, y>>
          THEN Effect(q, Listed(x, y)', Known(x, y)')
          ELSE (Listed(x, y)' <=> Listed(x, y)) /\ (Known(x, y)' <=> Known(x, y))
  BY <1>5, <1>7, <1>8 DEF Effect
<1> QED BY <1>3, <1>4, <1>6, <1>7, <1>8, <1>9, Beginning, ConsistentRequests

LEMMA RemoveChainClientAgreed ==
  ASSUME Consistent, NamesInv, PairInv,
         NEW r \in Requests, NEW s \in Servers, RemoveChainClient(r, s)
  PROVE  PairInv'
<1>1. PICK e \in Endpoints :
        /\ clients[s][e] # None
        /\ clients' = [clients EXCEPT ![s][e] = None]
        /\ Begin(r, Unclient(s, e))
  BY DEF RemoveChainClient, Unclient
<1> DEFINE q == Unclient(s, e)
<1>2. Named(e) /\ clients[s][e] \in Links
  BY <1>1 DEF NamesInv, ClientsNamed, Consistent, TypeOK
<1>3. req' = Begun(r, q) /\ doubt' = Crossed(r, q)
  BY <1>1 DEF Begin, Begun, Crossed, Others
<1>4. Idle(r) /\ peers' = peers
  BY DEF RemoveChainClient
<1>5. q \in Request
  BY <1>2, EndpointAssumption DEF Unclient, NoRequest, Request
<1>6. q.op = "unclient" /\ q.waiting /\ q.step = "sent" /\ Concerned(q) = <<At[e], s>>
  BY DEF Unclient, NoRequest, Concerned
<1> HIDE DEF q
<1>7. Notifying(q) /\ ~Delivered(q)
  BY <1>6 DEF Notifying, Delivered
<1>8. /\ \A x \in Servers : Known(x, s)' <=> Known(x, s) /\ x # At[e]
      /\ \A x, y \in Servers : y # s => (Known(x, y)' <=> Known(x, y))
  <2>1. clients \in [Servers -> [Endpoints -> Links \cup {None}]]
    BY DEF Consistent, TypeOK
  <2>2. \A x \in Endpoints : clients'[s][x] = IF x = e THEN None ELSE clients[s][x]
    BY <1>1, <2>1
  <2>3. \A y \in Servers \ {s} : clients'[y] = clients[y]
    BY <1>1, <2>1
  <2>4. \A x \in Endpoints : clients[s][x] # None /\ At[x] = At[e] => x = e
    BY <1>2 DEF NamesInv, ClientsNamed, Named
  <2>5. Entered(clients'[s]) = Entered(clients[s]) \ {At[e]}
    BY <2>2, <2>4 DEF Entered
  <2> QED BY <2>3, <2>5 DEF Known
<1>9. \A x, y \in Servers : Listed(x, y)' <=> Listed(x, y)
  BY <1>4 DEF Listed
<1>10. \A x, y \in Servers : x # y =>
         IF Concerned(q) = <<x, y>>
           THEN Effect(q, Listed(x, y)', Known(x, y)')
           ELSE (Listed(x, y)' <=> Listed(x, y)) /\ (Known(x, y)' <=> Known(x, y))
  BY <1>6, <1>7, <1>8, <1>9 DEF Effect
<1> QED BY <1>3, <1>4, <1>5, <1>6, <1>7, <1>10, Beginning, ConsistentRequests

(* One request goes on or ends, and the lists stay. *)
LEMMA QuietStep ==
  ASSUME PairInv, NEW r \in Requests, \A x \in Requests \ {r} : Alike(req'[x], req[x]),
         Notifying(req'[r]) =>
           /\ Same(req'[r], req[r]) /\ req'[r].sole = req[r].sole
           /\ req'[r].waiting = req[r].waiting \/ Concerned(req[r]) \in doubt'
           /\ Delivered(req'[r]) => Delivered(req[r]),
         Notifying(req[r]) /\ ~Notifying(req'[r]) =>
           Concerned(req[r]) \in doubt' \/ (req[r].sole /\ Delivered(req[r])),
         \A pair \in doubt \ doubt' :
           /\ Notifying(req[r]) /\ ~Notifying(req'[r])
           /\ Concerned(req[r]) = pair /\ req[r].sole,
         peers' = peers, clients' = clients
  PROVE  PairInv'
<1>1. \A x \in Requests : x = r \/ (Alike(req'[x], req[x]) /\ Same(req'[x], req[x])
                                     /\ (Notifying(req'[x]) <=> Notifying(req[x]))
                                     /\ (Delivered(req'[x]) <=> Delivered(req[x])))
  BY SameRequest DEF Alike, Delivered
<1>2. \A x, y \in Servers : (Listed(x, y)' <=> Listed(x, y)) /\ (Known(x, y)' <=> Known(x, y))
  BY DEF Listed, Known
<1>3. \A x \in Requests : Notifying(req'[x]) =>
        /\ Same(req'[x], req[x]) /\ req'[x].sole = req[x].sole
        /\ req'[x].waiting = req[x].waiting \/ Concerned(req[x]) \in doubt'
        /\ Delivered(req'[x]) => Delivered(req[x])
  BY <1>1 DEF Alike
<1>4. \A x \in Requests : Notifying(req[x]) /\ ~Notifying(req'[x]) =>
        Concerned(req[x]) \in doubt' \/ (req[x].sole /\ Delivered(req[x]))
  BY <1>1
<1> QED BY <1>2, <1>3, <1>4, Quiet

(* The entry is entered, or refused. *)
LEMMA ChainPublicPairedAgreed ==
  ASSUME Consistent, PairInv, NEW r \in Requests, ChainPublicPaired(r)
  PROVE  PairInv'
<1> DEFINE q == req[r]
<1>1. /\ AllSound /\ q \in Request /\ Sound(q) /\ Pairing(q) /\ Notifying(q)
      /\ q.op = "pair" /\ q.step = "sent"
  BY ConsistentRequests, SoundRequests DEF AllSound, ChainPublicPaired, Notifying
<1>2. peers' = peers /\ doubt' = doubt
  BY DEF ChainPublicPaired, history
<1>3. CASE ~disabled[q.to] /\ Invited(q)
  <2>1. /\ clients' = [clients EXCEPT ![q.to][q.endpoint] = q.link]
        /\ req' = [req EXCEPT ![r] = [q EXCEPT !.step = "ok"]]
    BY <1>3 DEF ChainPublicPaired, Advance
  <2>2. /\ q.at \in Servers /\ q.to \in Servers /\ q.endpoint \in Endpoints
        /\ At[q.endpoint] = q.at /\ q.link \in Links /\ q.link # None
    BY <1>1, NoneAssumption DEF Pairing
  <2>3. Concerned(q) = <<q.at, q.to>>
    BY <1>1 DEF Concerned
  <2> HIDE DEF q
  <2>4. /\ Same([q EXCEPT !.step = "ok"], q)
        /\ [q EXCEPT !.step = "ok"].sole = q.sole /\ [q EXCEPT !.step = "ok"].waiting = q.waiting
        /\ [q EXCEPT !.step = "ok"].op = "pair"
    BY <1>1, AdvancedIsSame DEF Same
  <2>5. req'[r] = [q EXCEPT !.step = "ok"] /\ \A x \in Requests \ {r} : req'[x] = req[x]
    BY <1>1, <2>1 DEF AllSound
  <2>6. \A x, y \in Servers :
          /\ Listed(x, y)' <=> Listed(x, y)
          /\ Known(x, y)' <=> Known(x, y) \/ <<x, y>> = <<q.at, q.to>>
    <3>1. clients \in [Servers -> [Endpoints -> Links \cup {None}]]
      BY DEF Consistent, TypeOK
    <3>2. \A e \in Endpoints : clients'[q.to][e] = IF e = q.endpoint THEN q.link ELSE clients[q.to][e]
      BY <2>1, <2>2, <3>1
    <3>3. Entered(clients'[q.to]) = Entered(clients[q.to]) \cup {q.at}
      BY <2>2, <3>2 DEF Entered
    <3>4. \A y \in Servers \ {q.to} : clients'[y] = clients[y]
      BY <2>1, <3>1
    <3> QED BY <1>2, <3>3, <3>4 DEF Listed, Known
  <2>7. ASSUME NEW x \in Servers, NEW y \in Servers, x # y
        PROVE  IF Concerned(q) = <<x, y>>
                 THEN q.sole => Effect(req'[r], Listed(x, y)', Known(x, y)')
                 ELSE (Listed(x, y)' <=> Listed(x, y)) /\ (Known(x, y)' <=> Known(x, y))
    <3>1. CASE Concerned(q) = <<x, y>> /\ q.sole
      <4>1. Effect(q, Listed(x, y), Known(x, y))
        BY <1>1, <2>7, <3>1 DEF PairInv, Effects, Listed, Known, q
      <4>2. Listed(x, y)
        BY <1>1, <4>1 DEF Effect
      <4>3. Listed(x, y)' /\ Known(x, y)'
        BY <2>3, <2>6, <3>1, <4>2
      <4> QED BY <2>4, <2>5, <3>1, <4>3 DEF Effect
    <3>2. CASE Concerned(q) # <<x, y>>
      BY <2>3, <2>6, <3>2
    <3> QED BY <3>1, <3>2
  <2> QED BY <1>1, <1>2, <2>4, <2>5, <2>7, Delivery DEF q
<1>4. CASE ~(~disabled[q.to] /\ Invited(q))
  <2>1. /\ clients' = clients
        /\ req' = [req EXCEPT ![r] = [q EXCEPT !.step = "refused"]]
    BY <1>4 DEF ChainPublicPaired, Advance
  <2> HIDE DEF q
  <2>2. /\ Same([q EXCEPT !.step = "refused"], q)
        /\ [q EXCEPT !.step = "refused"].sole = q.sole
        /\ [q EXCEPT !.step = "refused"].waiting = q.waiting
        /\ ~Delivered([q EXCEPT !.step = "refused"])
    BY <1>1, AdvancedIsSame DEF Delivered
  <2>3. /\ req'[r] = [q EXCEPT !.step = "refused"]
        /\ \A x \in Requests \ {r} : Alike(req'[x], req[x])
    BY <1>1, <2>1 DEF AllSound, Alike, Same
  <2>4. Notifying(req'[r])
    BY <1>1, <2>2, <2>3, SameRequest
  <2> QED BY <1>2, <2>1, <2>2, <2>3, <2>4, QuietStep DEF q
<1> QED BY <1>3, <1>4

(* What the receiver removes is all it has of the sender, and nobody else's. *)
LEMMA UnpairedLists ==
  ASSUME Consistent, NamesInv, NEW r \in Requests, ChainPublicUnpaired(r),
         NEW x \in Servers, NEW y \in Servers, x # y
  PROVE  /\ Listed(x, y)' <=> /\ Listed(x, y)
                              /\ ~(req[r].op = "unclient" /\ Concerned(req[r]) = <<x, y>>)
         /\ Known(x, y)' <=> /\ Known(x, y)
                             /\ ~(req[r].op = "unpeer" /\ Concerned(req[r]) = <<x, y>>)
<1> DEFINE q == req[r]
<1>1. /\ AllSound /\ q \in Request /\ Sound(q) /\ q.op \in {"unpeer", "unclient"}
      /\ q.to \in Servers /\ Unpair(q.to, q)
  BY ConsistentRequests, SoundRequests DEF AllSound, ChainPublicUnpaired, Notifying
<1>2. PICK list \in Kept(peers[q.to], Unmatched(q.to, q)) :
        /\ peers' = [peers EXCEPT ![q.to] = list]
        /\ Range(list) = {p \in Range(peers[q.to]) : ~PeerMatches(p, q)}
  BY <1>1, UnpairEffect
<1>3. peers[q.to] \in Seq(Peer) /\ peers \in [Servers -> Seq(Peer)]
      /\ clients \in [Servers -> [Endpoints -> Links \cup {None}]]
  BY <1>1 DEF Consistent, TypeOK
<1>6. clients' = [clients EXCEPT ![q.to] =
                   [e \in Endpoints |-> IF e = q.endpoint THEN None ELSE clients[q.to][e]]]
  BY <1>1, UnpairEffect
<1>7. NamedRequest(q) /\ \A p \in Range(peers[q.to]) : Named(p.endpoint)
  BY <1>1 DEF NamesInv, PeersNamed
<1> HIDE DEF q
<1>8. \A z \in Servers : peers'[z] = IF z = q.to THEN list ELSE peers[z]
  BY <1>2, <1>3
<1>9. \A z \in Servers : clients'[z] = IF z = q.to
        THEN [e \in Endpoints |-> IF e = q.endpoint THEN None ELSE clients[z][e]]
        ELSE clients[z]
  BY <1>3, <1>6
<1>10. Entered(clients'[q.to]) = {At[e] : e \in {z \in Endpoints : clients[q.to][z] # None} \ {q.endpoint}}
  BY <1>1, <1>9 DEF Entered
<1>11. CASE q.op = "unpeer"
  <2>1. /\ q.at \in Servers /\ q.to \in Servers /\ q.endpoint = Self[q.at]
        /\ Concerned(q) = <<q.at, q.to>>
    BY <1>1, <1>11, SoundRequests DEF Unpeering, Concerned
  <2>2. \A p \in Range(peers[q.to]) : PeerMatches(p, q) => At[p.endpoint] = q.to
    BY <1>1, <1>11, RemovedBelongs
  <2>3. Listed(x, y)' <=> Listed(x, y)
    <3>1. CASE x # q.to
      BY <1>8, <3>1 DEF Listed
    <3>2. CASE x = q.to
      <4>1. y \in Reached(list) <=> y \in Reached(peers[q.to])
        BY <1>2, <2>2, <3>2 DEF Reached
      <4> QED BY <1>8, <3>2, <4>1 DEF Listed
    <3> QED BY <3>1, <3>2
  <2>4. \A e \in Endpoints : clients[q.to][e] # None => e = Self[At[e]]
    BY <1>1 DEF NamesInv, ClientsNamed, Named
  <2>5. \A e \in Endpoints : e = q.endpoint => At[e] = q.at
    BY <1>1, <1>11, RemovedBelongs
  <2>6. Entered(clients'[q.to]) = Entered(clients[q.to]) \ {q.at}
    BY <1>10, <2>1, <2>4, <2>5 DEF Entered
  <2>7. Known(x, y)' <=> Known(x, y) /\ <<x, y>> # <<q.at, q.to>>
    <3>1. CASE y # q.to
      BY <1>9, <3>1 DEF Known
    <3>2. CASE y = q.to
      BY <2>6, <3>2 DEF Known
    <3> QED BY <3>1, <3>2
  <2> QED BY <1>11, <2>1, <2>3, <2>7 DEF q
<1>12. CASE q.op = "unclient"
  <2>1. /\ q.at \in Servers /\ q.to \in Servers /\ q.exitEndpoint = Self[q.at]
        /\ Concerned(q) = <<q.to, q.at>>
    BY <1>1, <1>12, SoundRequests DEF Unclienting, Concerned
  <2>2. \A p \in Range(peers[q.to]) : PeerMatches(p, q) => At[p.endpoint] = q.at
    BY <1>1, <1>12, RemovedBelongs
  <2>3. \A p \in Range(peers[q.to]) : At[p.endpoint] = q.at => PeerMatches(p, q)
    BY <1>7, <2>1 DEF Named, PeerMatches
  <2>4. Reached(list) = Reached(peers[q.to]) \ {q.at}
    BY <1>2, <2>2, <2>3 DEF Reached
  <2>5. Listed(x, y)' <=> Listed(x, y) /\ <<x, y>> # <<q.to, q.at>>
    <3>1. CASE x # q.to
      BY <1>8, <3>1 DEF Listed
    <3>2. CASE x = q.to
      BY <1>8, <2>4, <3>2 DEF Listed
    <3> QED BY <3>1, <3>2
  <2>6. \A e \in Endpoints : e = q.endpoint => At[e] = q.to
    BY <1>1, <1>12, RemovedBelongs
  <2>7. Known(x, y)' <=> Known(x, y)
    <3>1. CASE y # q.to
      BY <1>9, <3>1 DEF Known
    <3>2. CASE y = q.to
      <4>1. x \in Entered(clients'[q.to]) <=> x \in Entered(clients[q.to])
        BY <1>10, <2>6, <3>2 DEF Entered
      <4> QED BY <3>2, <4>1 DEF Known
    <3> QED BY <3>1, <3>2
  <2> QED BY <1>12, <2>1, <2>5, <2>7 DEF q
<1> QED BY <1>1, <1>11, <1>12

LEMMA ChainPublicUnpairedAgreed ==
  ASSUME Consistent, NamesInv, PairInv, NEW r \in Requests, ChainPublicUnpaired(r)
  PROVE  PairInv'
<1> DEFINE q == req[r]
<1>1. /\ AllSound /\ q \in Request /\ Sound(q) /\ q.op \in {"unpeer", "unclient"}
      /\ Notifying(q) /\ doubt' = doubt
  BY ConsistentRequests DEF AllSound, ChainPublicUnpaired, Notifying, history
<1>2. PICK step : req' = [req EXCEPT ![r] = [q EXCEPT !.step = step]]
  BY DEF ChainPublicUnpaired, Advance
<1> DEFINE new == [q EXCEPT !.step = step]
<1>3. req'[r] = new /\ \A x \in Requests \ {r} : req'[x] = req[x]
  BY <1>1, <1>2 DEF AllSound
<1>4. Same(new, q) /\ new.sole = q.sole /\ new.waiting = q.waiting
  BY <1>1, AdvancedIsSame
<1> HIDE DEF new
<1>5. ASSUME NEW x \in Servers, NEW y \in Servers, x # y
      PROVE  IF Concerned(req[r]) = <<x, y>>
               THEN req[r].sole => Effect(req'[r], Listed(x, y)', Known(x, y)')
               ELSE (Listed(x, y)' <=> Listed(x, y)) /\ (Known(x, y)' <=> Known(x, y))
  <2>1. /\ Listed(x, y)' <=> /\ Listed(x, y)
                             /\ ~(req[r].op = "unclient" /\ Concerned(req[r]) = <<x, y>>)
        /\ Known(x, y)' <=> /\ Known(x, y)
                            /\ ~(req[r].op = "unpeer" /\ Concerned(req[r]) = <<x, y>>)
    BY <1>5, UnpairedLists
  <2>2. CASE Concerned(req[r]) = <<x, y>> /\ req[r].sole
    <3>1. Effect(req[r], Listed(x, y), Known(x, y))
      BY <1>1, <1>5, <2>2 DEF PairInv, Effects, Listed, Known
    <3>2. req'[r].op = req[r].op
      BY <1>3, <1>4 DEF Same
    <3>3. ~Listed(x, y)' /\ ~Known(x, y)'
      BY <1>1, <2>1, <2>2, <3>1 DEF Effect
    <3> QED BY <1>1, <2>2, <3>2, <3>3 DEF Effect
  <2>3. CASE Concerned(req[r]) # <<x, y>>
    BY <2>1, <2>3
  <2> QED BY <2>2, <2>3
<1> QED BY <1>1, <1>3, <1>4, <1>5, Delivery

LEMMA AskCodeAgreed ==
  ASSUME Consistent, PairInv, NEW r \in Requests, NEW s \in Servers, NEW k \in Codes, AskCode(r, s, k)
  PROVE  PairInv'
<1>1. AllSound
  BY ConsistentRequests
<1>2. \E e, l : Snapshotted(r, s, k, e, l)
  BY DEF AskCode
<1>3. req'[r].op = "generate" /\ \A x \in Requests \ {r} : Alike(req'[x], req[x])
  BY <1>1, <1>2 DEF Snapshotted, AllSound, NoRequest, Alike, Same
<1>4. ~Notifying(req'[r]) /\ ~Notifying(req[r])
  BY <1>3, NoRequestIsSound DEF AskCode, Idle, Notifying
<1>5. doubt' = doubt /\ peers' = peers /\ clients' = clients
  BY DEF AskCode, lists, history
<1> QED BY <1>3, <1>4, <1>5, QuietStep

LEMMA IssueCodeAgreed ==
  ASSUME Consistent, PairInv, NEW r \in Requests, IssueCode(r)
  PROVE  PairInv'
<1>1. AllSound /\ Asking(req[r])
  BY ConsistentRequests, SoundRequests DEF IssueCode, AllSound
<1>2. req'[r] = NoRequest /\ \A x \in Requests \ {r} : Alike(req'[x], req[x])
  BY <1>1 DEF IssueCode, AllSound, Alike, Same
<1>3. ~Notifying(req'[r]) /\ ~Notifying(req[r])
  BY <1>1, <1>2, NoRequestIsSound DEF Asking, Notifying
<1>4. doubt' = doubt /\ peers' = peers /\ clients' = clients
  BY DEF IssueCode
<1> QED BY <1>2, <1>3, <1>4, QuietStep

(* A snapshot, and what is written of it, are of no concern to the lists. *)
LEMMA RewriteAgreed ==
  ASSUME Consistent, PairInv, NEW r \in Requests, Rewrite(r) \/ ServeRewrite(r)
  PROVE  PairInv'
<1>1. AllSound
  BY ConsistentRequests
<1>2. PICK s \in Servers, step \in {"install", "replace"} :
        /\ Look(r, s, step)
        /\ \/ req[r].step = "rewrite" /\ step = "install"
           \/ req[r].step = "serving" /\ step = "replace"
  BY <1>1, WritersServers DEF Rewrite, ServeRewrite
<1>3. /\ \A x \in Requests \ {r} : req'[x] = Overtaking(s)[x]
      /\ Same(req'[r], req[r]) /\ req'[r].step = step
      /\ req'[r].sole = req[r].sole /\ req'[r].waiting = req[r].waiting
  BY <1>2, LookedRequests
<1>4. \A x \in Requests \ {r} : Alike(req'[x], req[x])
  BY <1>1, <1>3, OvertakingIsSound
<1>5. /\ Notifying(req'[r]) <=> Notifying(req[r])
      /\ Delivered(req'[r]) => Delivered(req[r])
  BY <1>2, <1>3, SameRequest DEF Delivered
<1>6. doubt' = doubt /\ peers' = peers /\ clients' = clients
  BY DEF Rewrite, ServeRewrite, lists, history
<1> QED BY <1>3, <1>4, <1>5, <1>6, QuietStep

LEMMA InstallAgreed ==
  ASSUME Consistent, PairInv, NEW r \in Requests, Install(r) \/ ServeInstall(r)
  PROVE  PairInv'
<1>1. AllSound
  BY ConsistentRequests
<1>2. PICK step : /\ Written(r, step)
                  /\ \/ req[r].step = "install" /\ step = "sent"
                     \/ req[r].step = "replace" /\ step = "ok"
  BY DEF Install, ServeInstall
<1>3. /\ \A x \in Requests \ {r} : req'[x] = req[x]
      /\ ~Notifying(req[r]) => req'[r] = NoRequest
      /\ Notifying(req[r]) => /\ Same(req'[r], req[r]) /\ req'[r].step = step
                              /\ req'[r].sole = req[r].sole
                              /\ req'[r].waiting = req[r].waiting
  BY <1>1, <1>2, WrittenRequests
<1>4. \A x \in Requests \ {r} : Alike(req'[x], req[x])
  BY <1>3 DEF Alike, Same
<1>5. Notifying(req'[r]) <=> Notifying(req[r])
  BY <1>3, SameRequest, NoRequestIsSound
<1>6. Notifying(req[r]) => (Delivered(req'[r]) => Delivered(req[r]))
  BY <1>2, <1>3 DEF Delivered
<1>7. doubt' = doubt /\ peers' = peers /\ clients' = clients
  BY DEF Install, ServeInstall, lists
<1> QED BY <1>3, <1>4, <1>5, <1>6, <1>7, QuietStep

(* A handler of Panel.tla tells nobody. *)
LEMMA HandleOtherAgreed ==
  ASSUME Consistent, PairInv, NEW r \in Requests, NEW s \in Servers, HandleOther(r, s)
  PROVE  PairInv'
<1>1. AllSound
  BY ConsistentRequests
<1>2. req'[r].op = "other" /\ \A x \in Requests \ {r} : Alike(req'[x], req[x])
  BY <1>1 DEF HandleOther, AllSound, NoRequest, Alike, Same
<1>3. ~Notifying(req'[r]) /\ ~Notifying(req[r])
  BY <1>2, NoRequestIsSound DEF HandleOther, Idle, Notifying
<1>4. doubt' = doubt /\ peers' = peers /\ clients' = clients
  BY DEF HandleOther, history
<1> QED BY <1>2, <1>3, <1>4, QuietStep

(* A post from outside: the pairs it does not cut have the lists they had. *)
LEMMA UnseveredLists ==
  ASSUME Consistent, NEW s \in Servers, NEW post, Unpair(s, post),
         NEW x \in Servers, NEW y \in Servers, <<x, y>> \notin Severed(s, post)
  PROVE  (Listed(x, y)' <=> Listed(x, y)) /\ (Known(x, y)' <=> Known(x, y))
<1>1. PICK list \in Kept(peers[s], Unmatched(s, post)) :
        /\ peers' = [peers EXCEPT ![s] = list]
        /\ Range(list) = {p \in Range(peers[s]) : ~PeerMatches(p, post)}
  BY UnpairEffect
<1>2. clients' = [clients EXCEPT ![s] =
        [e \in Endpoints |-> IF e = post.endpoint THEN None ELSE clients[s][e]]]
  BY UnpairEffect
<1>3. /\ peers \in [Servers -> Seq(Peer)]
      /\ clients \in [Servers -> [Endpoints -> Links \cup {None}]]
  BY DEF Consistent, TypeOK
<1>4. Listed(x, y)' <=> Listed(x, y)
  <2>1. CASE x # s
    BY <1>1, <1>3, <2>1 DEF Listed
  <2>2. CASE x = s
    <3>1. peers'[s] = list
      BY <1>1, <1>3
    <3>2. \A i \in DOMAIN peers[s] : At[peers[s][i].endpoint] = y => ~PeerMatches(peers[s][i], post)
      BY <2>2 DEF Severed, Unmatched
    <3>3. \A p \in Range(peers[s]) : At[p.endpoint] = y => ~PeerMatches(p, post)
      BY <3>2 DEF Range
    <3>4. y \in Reached(list) <=> y \in Reached(peers[s])
      BY <1>1, <3>3 DEF Reached
    <3> QED BY <2>2, <3>1, <3>4 DEF Listed
  <2> QED BY <2>1, <2>2
<1>5. Known(x, y)' <=> Known(x, y)
  <2>1. CASE y # s
    BY <1>2, <1>3, <2>1 DEF Known
  <2>2. CASE y = s
    <3>1. \A e \in Endpoints :
            clients'[s][e] = IF e = post.endpoint THEN None ELSE clients[s][e]
      BY <1>2, <1>3
    <3>2. \A e \in Endpoints : e = post.endpoint /\ clients[s][e] # None => At[e] # x
      BY <2>2 DEF Severed
    <3>3. x \in Entered(clients'[s]) <=> x \in Entered(clients[s])
      BY <3>1, <3>2 DEF Entered
    <3> QED BY <2>2, <3>3 DEF Known
  <2> QED BY <2>1, <2>2
<1> QED BY <1>4, <1>5

(* Those it cuts are in doubt, and the requests about them are no longer sole. *)
LEMMA OutsideUnpairedAgreed ==
  ASSUME Consistent, PairInv, NEW r \in Requests, NEW s \in Servers, NEW post \in Posts,
         OutsideUnpaired(r, s, post)
  PROVE  PairInv'
<1> DEFINE cut == Severed(s, post)
<1>1. AllSound /\ ~Notifying(req[r]) /\ Unpair(s, post) /\ doubt' = doubt \cup cut
  BY ConsistentRequests, NoRequestIsSound DEF OutsideUnpaired, Idle
<1>2. /\ req'[r].op = "outside"
      /\ \A x \in Requests \ {r} :
           IF Notifying(req[x]) /\ Concerned(req[x]) \in cut
             THEN req'[x] = [req[x] EXCEPT !.sole = FALSE] ELSE req'[x] = req[x]
  BY SeveredRequests
<1>3. ~Notifying(req'[r])
  BY <1>2 DEF Notifying
<1>4. \A x, y \in Servers : <<x, y>> \notin cut =>
        (Listed(x, y)' <=> Listed(x, y)) /\ (Known(x, y)' <=> Known(x, y))
  BY <1>1, UnseveredLists
<1> HIDE DEF cut
<1>5. ASSUME NEW x \in Requests \ {r}, Notifying(req[x]), Concerned(req[x]) \in cut
      PROVE  /\ Same(req'[x], req[x]) /\ ~req'[x].sole
             /\ Notifying(req'[x]) /\ Concerned(req'[x]) = Concerned(req[x])
  <2>1. req[x] \in Request /\ req'[x] = [req[x] EXCEPT !.sole = FALSE]
    BY <1>1, <1>2, <1>5 DEF AllSound
  <2>2. Same(req'[x], req[x])
    BY <2>1, Touched
  <2>3. ~req'[x].sole
    BY <2>1 DEF Request
  <2> QED BY <1>5, <2>2, <2>3, SameRequest
<1>6. ASSUME NEW x \in Requests \ {r}, ~(Notifying(req[x]) /\ Concerned(req[x]) \in cut)
      PROVE  req'[x] = req[x]
  BY <1>2, <1>6
<1>7. \A x \in Requests : /\ Notifying(req'[x]) <=> Notifying(req[x])
                          /\ Notifying(req[x]) => Concerned(req'[x]) = Concerned(req[x])
  BY <1>1, <1>3, <1>5, <1>6
<1>8. \A pair : AboutIn(req', pair) = AboutIn(req, pair)
  BY <1>7 DEF AboutIn
<1>9. \A x \in Requests : Notifying(req'[x]) /\ req'[x].sole =>
        req'[x] = req[x] /\ Concerned(req[x]) \notin cut
  BY <1>3, <1>5, <1>6
<1>10. Alone'
  BY <1>8, <1>9 DEF PairInv, Alone, AboutIn
<1>11. Doubted'
  <2> SUFFICES ASSUME NEW x \in Requests, Notifying(req'[x]), ~(req'[x].sole /\ req'[x].waiting)
               PROVE  Concerned(req'[x]) \in doubt'
    BY DEF Doubted
  <2>1. x \in Requests \ {r} /\ Notifying(req[x]) /\ Concerned(req'[x]) = Concerned(req[x])
    BY <1>3, <1>7
  <2>2. CASE Concerned(req[x]) \in cut
    BY <1>1, <2>1, <2>2
  <2>3. CASE Concerned(req[x]) \notin cut
    <3>1. req'[x] = req[x]
      BY <1>6, <2>1, <2>3
    <3> QED BY <1>1, <2>1, <3>1 DEF PairInv, Doubted
  <2> QED BY <2>2, <2>3
<1>12. Effects'
  <2> SUFFICES ASSUME NEW q \in Requests, NEW x \in Servers, NEW y \in Servers,
                      Notifying(req'[q]), req'[q].sole, Concerned(req'[q]) = <<x, y>>, x # y
               PROVE  Effect(req'[q], Listed(x, y)', Known(x, y)')
    BY DEF Effects, Listed, Known
  <2>1. req'[q] = req[q] /\ <<x, y>> \notin cut
    BY <1>9
  <2>2. Effect(req[q], Listed(x, y), Known(x, y))
    BY <2>1 DEF PairInv, Effects, Listed, Known
  <2>3. (Listed(x, y)' <=> Listed(x, y)) /\ (Known(x, y)' <=> Known(x, y))
    BY <1>4, <2>1
  <2> QED BY <2>1, <2>2, <2>3 DEF Effect
<1>13. Agree'
  <2> SUFFICES ASSUME NEW x \in Servers, NEW y \in Servers, x # y, <<x, y>> \notin doubt',
                      AboutIn(req', <<x, y>>) = {}
               PROVE  Listed(x, y)' <=> Known(x, y)'
    BY DEF Agree, Listed, Known
  <2>1. <<x, y>> \notin doubt /\ <<x, y>> \notin cut /\ AboutIn(req, <<x, y>>) = {}
    BY <1>1, <1>8
  <2>2. (Listed(x, y)' <=> Listed(x, y)) /\ (Known(x, y)' <=> Known(x, y))
    BY <1>4, <2>1
  <2> QED BY <2>1, <2>2 DEF PairInv, Agree, Listed, Known
<1> QED BY <1>10, <1>11, <1>12, <1>13 DEF PairInv

(* A request that ends, or whose handler returns, leaves a doubt behind, unless it was
   alone and has been served: only then the lists are known to agree. *)
LEMMA EndAgreed ==
  ASSUME Consistent, PairInv, NEW r \in Requests, Lose(r) \/ TimeOut(r) \/ Finish(r)
  PROVE  PairInv'
<1>1. AllSound /\ req[r] \in Request /\ Notifying(req[r])
  BY ConsistentRequests, SoundRequests DEF AllSound, Lose, TimeOut, Finish
<1>2. peers' = peers /\ clients' = clients
  BY DEF Lose, TimeOut, Finish, lists
<1>3. CASE TimeOut(r)
  <2> DEFINE new == [req[r] EXCEPT !.waiting = FALSE]
  <2>1. req'[r] = new /\ \A x \in Requests \ {r} : Alike(req'[x], req[x])
    BY <1>1, <1>3 DEF TimeOut, AllSound, Alike, Same
  <2>2. Same(new, req[r]) /\ new.sole = req[r].sole /\ new.step = req[r].step
    BY <1>1, Touched
  <2> HIDE DEF new
  <2>3. Notifying(req'[r]) /\ (Delivered(req'[r]) => Delivered(req[r]))
    <3>1. Notifying(req'[r])
      BY <1>1, <2>1, <2>2, SameRequest
    <3> QED BY <2>1, <2>2, <3>1 DEF Delivered
  <2>4. doubt' = doubt \cup {Concerned(req[r])}
    BY <1>3 DEF TimeOut
  <2> QED BY <1>2, <2>1, <2>2, <2>3, <2>4, QuietStep
<1>4. CASE Lose(r) \/ Finish(r)
  <2>1. req'[r] = NoRequest /\ \A x \in Requests \ {r} : Alike(req'[x], req[x])
    BY <1>1, <1>4 DEF Lose, Finish, AllSound, Alike, Same
  <2>2. ~Notifying(req'[r])
    BY <2>1, NoRequestIsSound
  <2>3. Concerned(req[r]) \in doubt' \/ (req[r].sole /\ Delivered(req[r]))
    <3>1. CASE Lose(r)
      BY <3>1 DEF Lose
    <3>2. CASE Finish(r) /\ req[r].step = "refused"
      BY <3>2 DEF Finish
    <3>3. CASE Finish(r) /\ req[r].step = "ok"
      <4>1. req[r].sole \/ Concerned(req[r]) \in doubt
        BY <1>1 DEF PairInv, Doubted
      <4> QED BY <3>3, <4>1 DEF Finish, Delivered
    <3>4. Finish(r) => req[r].step \in {"ok", "refused"}
      BY DEF Finish
    <3> QED BY <1>4, <3>1, <3>2, <3>3, <3>4
  <2>4. \A pair \in doubt \ doubt' : Concerned(req[r]) = pair /\ req[r].sole
    BY <1>4 DEF Lose, Finish
  <2> QED BY <1>1, <1>2, <2>1, <2>2, <2>3, <2>4, QuietStep
<1> QED BY <1>3, <1>4

(* A server that pairs with itself is of no concern to two. *)
LEMMA PairLocallyAgreed ==
  ASSUME Consistent, PairInv, NEW s \in Servers, NEW k \in Codes, PairLocally(s, k)
  PROVE  PairInv'
<1>1. codes[k] \in Code /\ ExitOf[codes[k].link] = s
  BY DEF PairLocally, Redeemable, Consistent, TypeOK, Linked, CodesLinked
<1>2. PICK e \in Origins[s] : UpsertPeer(s, [endpoint |-> e, link |-> codes[k].link])
  BY DEF PairLocally
<1>3. e \in Endpoints /\ At[e] = s
  BY EndpointAssumption
<1>4. PICK p \in Peer : p.endpoint = e /\ LinkedPeer(p) /\ UpsertPeer(s, p)
  BY <1>1, <1>2, <1>3 DEF Peer, Code, LinkedPeer
<1>5. clients' = clients /\ req' = Overtaking(s) /\ doubt' = doubt
  BY DEF PairLocally
<1>6. \A x, y \in Servers :
        /\ Listed(x, y)' <=> Listed(x, y) \/ <<x, y>> = <<s, At[p.endpoint]>>
        /\ Known(x, y)' <=> Known(x, y)
  BY <1>4, <1>5, UpsertedLists
<1>7. \A x, y \in Servers : x # y =>
        (Listed(x, y)' <=> Listed(x, y)) /\ (Known(x, y)' <=> Known(x, y))
  BY <1>3, <1>4, <1>6
<1>8. \A x \in Requests : Alike(req'[x], req[x])
  BY <1>5, OvertakingIsSound, ConsistentRequests
<1>9. \A x \in Requests : /\ Same(req'[x], req[x]) /\ req'[x].sole = req[x].sole
                          /\ req'[x].waiting = req[x].waiting
                          /\ Notifying(req'[x]) <=> Notifying(req[x])
                          /\ Delivered(req'[x]) <=> Delivered(req[x])
  BY <1>8, SameRequest DEF Alike, Delivered
<1> QED BY <1>5, <1>7, <1>9, Quiet

LEMMA CrashAgreed ==
  ASSUME Consistent, PairInv, NEW s \in Servers, Crash(s)
  PROVE  PairInv'
<1>1. AllSound
  BY ConsistentRequests
<1>2. ASSUME NEW x \in Requests
      PROVE  /\ Notifying(req'[x]) =>
                  /\ Same(req'[x], req[x]) /\ req'[x].sole = req[x].sole
                  /\ req'[x].waiting = req[x].waiting \/ Concerned(req[x]) \in doubt'
                  /\ Delivered(req'[x]) => Delivered(req[x])
             /\ Notifying(req[x]) /\ ~Notifying(req'[x]) => Concerned(req[x]) \in doubt'
  <2>1. req[x] \in Request
    BY <1>1 DEF AllSound
  <2>2. CASE x \in Cut(s)
    <3>1. req'[x] = NoRequest
      BY <2>2, CrashEffect
    <3>2. x \in Hit(s)
      BY <2>2 DEF Cut
    <3>3. Notifying(req[x]) => Concerned(req[x]) \in doubt'
      BY <3>2, CrashEffect
    <3> QED BY <3>1, <3>3, NoRequestIsSound
  <2>3. CASE x \notin Cut(s) /\ x \in Hit(s)
    <3> DEFINE new == [req[x] EXCEPT !.waiting = FALSE]
    <3>1. req'[x] = new
      BY <2>3, CrashEffect
    <3>2. Same(new, req[x]) /\ new.sole = req[x].sole /\ new.step = req[x].step
      BY <2>1, Touched
    <3>3. Notifying(req[x]) => Concerned(req[x]) \in doubt'
      BY <2>3, CrashEffect
    <3>4. Notifying(new) <=> Notifying(req[x])
      BY <3>2, SameRequest
    <3> HIDE DEF new
    <3> QED BY <3>1, <3>2, <3>3, <3>4 DEF Delivered
  <2>4. CASE x \notin Cut(s) /\ x \notin Hit(s)
    <3>1. req'[x] = req[x]
      BY <2>4, CrashEffect
    <3> QED BY <3>1 DEF Same
  <2> QED BY <2>2, <2>3, <2>4
<1>3. doubt \subseteq doubt'
  BY CrashEffect
<1>4. \A x, y \in Servers : (Listed(x, y)' <=> Listed(x, y)) /\ (Known(x, y)' <=> Known(x, y))
  BY DEF Crash, lists, Listed, Known
<1> QED BY <1>2, <1>3, <1>4, Quiet

LEMMA StepAgreed == Consistent /\ NamesInv /\ PairInv /\ [Next]_vars => PairInv'
<1> SUFFICES ASSUME Consistent, NamesInv, PairInv, [Next]_vars PROVE PairInv'
  OBVIOUS
<1>1. CASE UNCHANGED <<req, doubt, peers, clients>>
  BY <1>1 DEF PairInv, Alone, Doubted, Effects, Agree, AboutIn
<1>2. ASSUME NEW r \in Requests, NEW s \in Servers, NEW k \in Codes, AskCode(r, s, k) \/ Pair(r, s, k)
      PROVE  PairInv'
  BY <1>2, AskCodeAgreed, PairAgreed
<1>3. ASSUME NEW r \in Requests, NEW s \in Servers,
             RemoveChainPeer(r, s) \/ RemoveChainClient(r, s)
      PROVE  PairInv'
  BY <1>3, RemoveChainPeerAgreed, RemoveChainClientAgreed
<1>4. ASSUME NEW s \in Servers, NEW k \in Codes, PairLocally(s, k)
      PROVE  PairInv'
  BY <1>4, PairLocallyAgreed
<1>5. ASSUME NEW s \in Servers, SetChainAccepting(s)
      PROVE  PairInv'
  BY <1>1, <1>5 DEF SetChainAccepting
<1>10. ASSUME NEW r \in Requests, NEW s \in Servers, HandleOther(r, s)
       PROVE  PairInv'
  BY <1>10, HandleOtherAgreed
<1>11. ASSUME NEW r \in Requests, NEW s \in Servers, NEW post \in Posts,
              OutsideUnpaired(r, s, post)
       PROVE  PairInv'
  BY <1>11, OutsideUnpairedAgreed
<1>6. ASSUME NEW s \in Servers, Crash(s)
      PROVE  PairInv'
  BY <1>6, CrashAgreed
<1>7. ASSUME NEW r \in Requests, Proceed(r)
      PROVE  PairInv'
  BY <1>7, IssueCodeAgreed, RewriteAgreed, InstallAgreed, ChainPublicPairedAgreed,
     ChainPublicUnpairedAgreed, EndAgreed DEF Proceed
<1>8. ASSUME NEW k \in Codes, Expire(k)
      PROVE  PairInv'
  BY <1>1, <1>8 DEF Expire, history
<1>9. CASE UNCHANGED vars
  BY <1>1, <1>9 DEF vars
<1> QED BY <1>2, <1>3, <1>4, <1>5, <1>6, <1>7, <1>8, <1>9, <1>10, <1>11
    DEF Next, Administrate

(* Who was paired at the start is known by the name it went by. *)
LEMMA InitAgreed == Init /\ OneName => PairInv
<1> SUFFICES ASSUME Init, OneName PROVE PairInv
  OBVIOUS
<1>1. \A r \in Requests : ~Notifying(req[r])
  BY NoRequestIsSound DEF Init
<1>2. Alone /\ Doubted /\ Effects
  BY <1>1 DEF Alone, Doubted, Effects
<1>3. ASSUME NEW x \in Servers, NEW y \in Servers
      PROVE  y \in Reached(peers[x]) <=> x \in Entered(clients[y])
  <2>1. \A e \in Endpoints : clients[y][e] # None <=>
          e \in Origins[At[e]] /\ y \in Reached(peers[At[e]])
    <3> SUFFICES ASSUME NEW e \in Endpoints
                 PROVE  clients[y][e] # None <=>
                          e \in Origins[At[e]] /\ y \in Reached(peers[At[e]])
      OBVIOUS
    <3>1. clients[y][e] =
            IF e \in Origins[At[e]] /\ \E p \in Range(peers[At[e]]) : At[p.endpoint] = y
              THEN (CHOOSE p \in Range(peers[At[e]]) : At[p.endpoint] = y).link ELSE None
      BY DEF Init
    <3>2. (\E p \in Range(peers[At[e]]) : At[p.endpoint] = y) <=> y \in Reached(peers[At[e]])
      BY DEF Reached
    <3>3. \A p \in Range(peers[At[e]]) : p.link \in Links
      <4>1. peers[At[e]] \in Seq(Peer)
        BY EndpointAssumption, InitConsistent DEF Consistent, TypeOK
      <4>2. \A p \in Range(peers[At[e]]) : p \in Peer
        BY <4>1, LenProperties, ElementOfSeq DEF Range
      <4> QED BY <4>2 DEF Peer
    <3>4. ASSUME \E p \in Range(peers[At[e]]) : At[p.endpoint] = y
          PROVE  (CHOOSE p \in Range(peers[At[e]]) : At[p.endpoint] = y).link # None
      BY <3>3, <3>4, NoneAssumption
    <3> QED BY <3>1, <3>2, <3>4
  <2>2. ASSUME x \in Entered(clients[y]) PROVE y \in Reached(peers[x])
    BY <2>1, <2>2 DEF Entered
  <2>3. ASSUME y \in Reached(peers[x]) PROVE x \in Entered(clients[y])
    <3>1. peers[x] # <<>>
      BY <2>3 DEF Reached, Range
    <3>2. PICK e \in Origins[x] : TRUE
      BY <3>1 DEF OneName, Init
    <3>3. e \in Endpoints /\ At[e] = x
      BY EndpointAssumption
    <3>4. clients[y][e] # None
      BY <2>1, <2>3, <3>2, <3>3
    <3> QED BY <3>3, <3>4 DEF Entered
  <2> QED BY <2>2, <2>3
<1>4. Agree
  BY <1>3 DEF Agree
<1> QED BY <1>2, <1>4 DEF PairInv

LEMMA AgreeIsPairingAgrees == Agree <=> PairingAgrees
<1>1. \A pair : AboutIn(req, pair) = About(pair)
  BY DEF AboutIn, About
<1> QED BY <1>1, PeersReached, ClientsEntered DEF Agree, PairingAgrees

(* RemoveChainPeer, RemoveChainClient and Pair change one list and tell the other
   server; if each server goes by one name and no other request about the two comes
   between, an answer means that the other list has followed: whatever a lost, late or
   crossing notification leaves behind is remembered in doubt. *)
THEOREM ListsAgree ==
  ASSUME OneName
  PROVE  Spec => []PairingAgrees
<1>1. Init => Consistent /\ NamesInv /\ PairInv
  BY InitConsistent, InitNamed, InitAgreed
<1>2. Consistent /\ NamesInv /\ PairInv /\ [Next]_vars => (Consistent /\ NamesInv /\ PairInv)'
  BY StepConsistent, StepNamed, StepAgreed
<1>3. PairInv => PairingAgrees
  BY AgreeIsPairingAgrees DEF PairInv
<1> QED BY <1>1, <1>2, <1>3, PTL DEF Spec
=============================================================================
