---------------------------- MODULE ChainPairing ----------------------------
(* Chained servers: internal/api/handler_chain.go with the codes and bundles of
   internal/core/chain/pairing.go and the chain outbound of WriteConfig.

   An entry server lists the exits it is paired with in ChainPeers, an exit the
   entries in ChainClients.  Each server has its own store; what keeps the two
   lists in line is one HTTP notification, sent after the sender has changed its
   own list, never repeated, and given up after three seconds, when the receiver
   may not have seen it yet.

   Handlers of one server overlap: each changes a list in a transaction, takes a
   snapshot, and installs what it has rendered of it, with no lock in between.
   Store.Update does not fail here and the installation is one step: Panel.tla and
   ConfigFile.tla model what that leaves out.

   ChainPublicPaired and ChainPublicUnpaired are public routes that ask nobody who
   he is.  Notifications of the servers' own handlers go to both; posts of anybody
   else are modelled for the second one only, which needs no code and no link.  The
   public keys of the requests are left out: each is a fresh random value, so it
   matches nothing the endpoint or the link does not match. *)
EXTENDS Naturals, Sequences, Functions

CONSTANTS
  Servers,
  Requests,   \* an administrator's request, from its start until its
              \* notification has arrived or is lost
  Endpoints,  \* base URLs of servers
  At,         \* [Endpoints -> Servers]: who answers there
  Origins,    \* [Servers -> SUBSET Endpoints]: what an administrator gives as the
              \* server's endpoint: typed, or the origin of the page
  Self,       \* [Servers -> Endpoints \cup {None}]: chainSelfEndpoint
  Links,      \* client links of the servers' nodes
  ExitOf,     \* [Links -> Servers]
  Usable,     \* the links chainOutbound can turn into an outbound
  Codes,      \* identities of pairing codes
  FirstPeers, \* set of [Servers -> Seq(Peer)]: what may be paired at the start
  MaxEvents,  \* bound: requests of administrators and changes from outside
  None

ASSUME EndpointAssumption ==
  /\ At \in [Endpoints -> Servers]
  /\ Origins \in [Servers -> SUBSET Endpoints]
  /\ \A s \in Servers, e \in Endpoints : e \in Origins[s] \/ e = Self[s] => At[e] = s
  /\ Self \in [Servers -> Endpoints \cup {None}]
ASSUME LinkAssumption == ExitOf \in [Links -> Servers] /\ Usable \subseteq Links
ASSUME NoneAssumption == None \notin Servers \cup Endpoints \cup Links \cup Codes
ASSUME NumbersAssumption == MaxEvents \in Nat

VARIABLES
  peers,      \* [Servers -> Seq(Peer)]: ChainPeers
  clients,    \* [Servers -> [Endpoints -> Links \cup {None}]]: ChainClients, by
              \* endpoint
  disabled,   \* [Servers -> BOOLEAN]: ChainPairingDisabled
  codes,      \* [Codes -> Code \cup {None}]: the codes that have not expired
  served,     \* [Servers -> SUBSET Links]: the links of the running nodes
  exit,       \* [Servers -> Links \cup {None}]: the chain outbound of sing-box.json
  req,        \* [Requests -> Request]: the requests under way
  doubt,      \* history: pairs <<entry, exit>> of which a notification failed or
              \* met another one, and none has succeeded on its own since
  behind,     \* history: servers whose sing-box.json was not written after a change,
              \* or by a handler that another one had overtaken
  withdrawn,  \* history: codes issued before their server closed its pairing
  events      \* counter of the bound MaxEvents

lists == <<peers, clients, disabled, codes, served>>
history == <<doubt, behind, withdrawn>>
vars == <<peers, clients, disabled, codes, served, exit, req, doubt,
          behind, withdrawn, events>>

Peer == [endpoint : Endpoints, link : Links]

(* Who was paired at the start got a bundle, in which an exit gives its own
   endpoint and a link of its own. *)
ASSUME FirstPeersAssumption ==
  \A first \in FirstPeers :
    /\ first \in [Servers -> Seq(Peer)]
    /\ \A s \in Servers : \A p \in Range(first[s]) : ExitOf[p.link] = At[p.endpoint]

Code == [by : Servers, endpoint : Endpoints, link : Links, listed : BOOLEAN,
         used : BOOLEAN]

(* A handler and its notification.  "to", "exitEndpoint", "endpoint", "link" and
   "code" are what it sends; "sole" says that no other request has concerned the
   same pair of servers meanwhile, "waiting" that the handler has not returned.
   Between its snapshot and the installation a handler has the "outbound" it
   rendered, and is "overtaken" if the list has been looked at, or changed for good,
   by another one since.  "outside" is a post of somebody else, "other" a handler of
   Panel.tla. *)
Request == [op : {"none", "generate", "pair", "unpeer", "unclient", "outside", "other"},
            at : Servers \cup {None}, to : Servers \cup {None},
            exitEndpoint : Endpoints \cup {None}, endpoint : Endpoints \cup {None},
            link : Links \cup {None}, code : Codes \cup {None},
            step : {"none", "issue", "rewrite", "install", "sent", "serving", "replace",
                    "ok", "refused"},
            sole : BOOLEAN, waiting : BOOLEAN,
            outbound : Links \cup {None}, overtaken : BOOLEAN]
NoRequest == [op |-> "none", at |-> None, to |-> None, exitEndpoint |-> None,
              endpoint |-> None, link |-> None, code |-> None, step |-> "none",
              sole |-> FALSE, waiting |-> FALSE, outbound |-> None, overtaken |-> FALSE]

TypeOK ==
  /\ peers \in [Servers -> Seq(Peer)]
  /\ clients \in [Servers -> [Endpoints -> Links \cup {None}]]
  /\ disabled \in [Servers -> BOOLEAN]
  /\ codes \in [Codes -> Code \cup {None}]
  /\ served \in [Servers -> SUBSET Links]
  /\ exit \in [Servers -> Links \cup {None}]
  /\ req \in [Requests -> Request]
  /\ doubt \subseteq Servers \X Servers
  /\ behind \subseteq Servers
  /\ withdrawn \subseteq Codes
  /\ events \in 0..MaxEvents

(* WriteConfig sends everything to the first peer, if it understands its link. *)
ChainExit(list) ==
  IF list # <<>> /\ list[1].link \in Usable THEN list[1].link ELSE None

(* Servers as they were set up and paired before, each exit knowing its entries. *)
Init ==
  /\ peers \in FirstPeers
  /\ clients = [s \in Servers |-> [e \in Endpoints |->
       IF e \in Origins[At[e]] /\ \E p \in Range(peers[At[e]]) : At[p.endpoint] = s
         THEN (CHOOSE p \in Range(peers[At[e]]) : At[p.endpoint] = s).link
         ELSE None]]
  /\ disabled = [s \in Servers |-> FALSE]
  /\ codes = [c \in Codes |-> None]
  /\ served \in [Servers -> SUBSET Links \ {{}}]
  /\ \A s \in Servers : \A l \in served[s] : ExitOf[l] = s
  /\ exit = [s \in Servers |-> ChainExit(peers[s])]
  /\ req = [r \in Requests |-> NoRequest]
  /\ doubt = {} /\ behind = {} /\ withdrawn = {}
  /\ events = 0

-----------------------------------------------------------------------------
(* The lists. *)

SamePeer(p, q) == p.endpoint = q.endpoint \/ p.link = q.link

(* Slip: a known peer is written over the first of the list. *)
UpsertAtFront(s, p) ==
  IF \E i \in DOMAIN peers[s] : SamePeer(peers[s][i], p)
    THEN peers' = [peers EXCEPT ![s][1] = p]
    ELSE peers' = [peers EXCEPT ![s] = Append(@, p)]

(* upsertChainPeer: the first entry with the endpoint or the link is replaced. *)
Upserted(list, p) ==
  LET same == {i \in DOMAIN list : SamePeer(list[i], p)} IN
  IF same = {}
    THEN {Append(list, p)}
    ELSE {[list EXCEPT ![i] = p] : i \in {k \in same : \A j \in same : k <= j}}
UpsertPeer(s, p) ==
  \E list \in Upserted(peers[s], p) : peers' = [peers EXCEPT ![s] = list]

(* A loop that keeps the entries at the positions K, in their order. *)
InOrder(f, K) ==
  /\ \A i, j \in DOMAIN f : i < j => f[i] < f[j]
  /\ \A k \in K : \E i \in DOMAIN f : f[i] = k
Kept(list, K) ==
  {[i \in DOMAIN f |-> list[f[i]]] :
     f \in {g \in UNION {[1..m -> K] : m \in 0..Len(list)} : InOrder(g, K)}}
KeepPeers(s, K) ==
  \E list \in Kept(peers[s], K) : peers' = [peers EXCEPT ![s] = list]

-----------------------------------------------------------------------------
(* Requests. *)

(* One more event, if the bound allows; to reopen the pairing is none. *)
Count == events < MaxEvents /\ events' = events + 1

Notifying(q) == q.op \in {"pair", "unpeer", "unclient"}

(* The entry and the exit a request is about. *)
Concerned(q) == IF q.op = "unclient" THEN <<q.to, q.at>> ELSE <<q.at, q.to>>
About(pair) == {r \in Requests : Notifying(req[r]) /\ Concerned(req[r]) = pair}

Idle(r) == req[r] = NoRequest
Advance(r, step) == req' = [req EXCEPT ![r].step = step]

(* Who is between the snapshot and the installation at s, and is overtaken there. *)
Installing(q, s) == (q.step = "install" /\ q.at = s) \/ (q.step = "replace" /\ q.to = s)
Overtaking(s) ==
  [x \in Requests |-> IF Installing(req[x], s) THEN [req[x] EXCEPT !.overtaken = TRUE]
                      ELSE req[x]]

(* A notifying handler has changed its own list and goes on as q says. *)
Begin(r, q) ==
  LET others == About(Concerned(q)) \ {r} IN
  /\ req' = [x \in Requests |->
               IF x = r THEN [q EXCEPT !.sole = (others = {})]
               ELSE IF x \in others THEN [req[x] EXCEPT !.sole = FALSE]
               ELSE req[x]]
  /\ doubt' = IF others = {} THEN doubt ELSE doubt \cup {Concerned(q)}

-----------------------------------------------------------------------------
(* Handlers of the administrator's requests. *)

(* A new code's identity: nothing has it, or has it any more. *)
Free(c) == codes[c] = None /\ \A x \in Requests : req[x].code # c

(* chain.NewCode with what the snapshot says. *)
Snapshotted(r, s, c, e, l) ==
  req' = [req EXCEPT ![r] =
            [NoRequest EXCEPT !.op = "generate", !.at = s, !.endpoint = e, !.code = c,
                              !.link = l, !.step = "issue", !.waiting = TRUE]]

(* Slip: the link is not looked at. *)
AskCodeAnyway(r, s, c) ==
  /\ Idle(r)
  /\ Free(c)
  /\ ~disabled[s]
  /\ \E e \in Origins[s] : \E l \in IF served[s] = {} THEN {None} ELSE served[s] :
       Snapshotted(r, s, c, e, l)
  /\ Count
  /\ UNCHANGED <<lists, exit, history>>

(* GenerateCode up to its transaction: pairing is open and a node runs, as the
   snapshot has it.  Which of the running nodes is the first is left open. *)
AskCode(r, s, c) ==
  /\ Idle(r)
  /\ Free(c)
  /\ ~disabled[s]
  /\ \E e \in Origins[s], l \in served[s] : Snapshotted(r, s, c, e, l)
  /\ Count
  /\ UNCHANGED <<lists, exit, history>>

(* Its transaction: the code is stored, whatever has changed meanwhile. *)
IssueCode(r) ==
  /\ req[r].step = "issue"
  /\ codes' = [codes EXCEPT ![req[r].code] =
       [by |-> req[r].at, endpoint |-> req[r].endpoint, link |-> req[r].link,
        listed |-> TRUE, used |-> FALSE]]
  /\ req' = [req EXCEPT ![r] = NoRequest]
  /\ withdrawn' = withdrawn \ {req[r].code}
  /\ UNCHANGED <<peers, clients, disabled, served, exit, doubt, behind, events>>

(* chain.DecodeBundle takes the code's bundle at any server until it expires. *)
Decodable(c) == codes[c] # None

(* Pair with a bundle; nobody asks the exit first. *)
Pair(r, s, c) ==
  /\ Idle(r)
  /\ Decodable(c)
  /\ UpsertPeer(s, [endpoint |-> codes[c].endpoint, link |-> codes[c].link])
  /\ \E e \in Origins[s] :
       Begin(r, [NoRequest EXCEPT !.op = "pair", !.at = s, !.to = At[codes[c].endpoint],
                                  !.endpoint = e, !.link = codes[c].link, !.code = c,
                                  !.step = "rewrite", !.waiting = TRUE])
  /\ Count
  /\ UNCHANGED <<clients, disabled, codes, served, exit, behind, withdrawn>>

(* chain.Pair finds the code among those of the server itself. *)
Redeemable(s, c) ==
  codes[c] # None /\ codes[c].by = s /\ codes[c].listed /\ ~codes[c].used

(* Pair with the bare code: the server becomes its own peer, and sing-box.json is
   not written. *)
PairLocally(s, c) ==
  /\ Redeemable(s, c)
  /\ \E e \in Origins[s] : UpsertPeer(s, [endpoint |-> e, link |-> codes[c].link])
  /\ codes' = [codes EXCEPT ![c].used = TRUE]
  /\ req' = Overtaking(s)
  /\ behind' = behind \cup {s}
  /\ Count
  /\ UNCHANGED <<clients, disabled, served, exit, doubt, withdrawn>>

(* Slip: the two endpoints of the notification are exchanged. *)
RemovePeerSwapped(r, s) ==
  /\ Idle(r)
  /\ \E i \in DOMAIN peers[s] :
       /\ KeepPeers(s, DOMAIN peers[s] \ {i})
       /\ Begin(r, [NoRequest EXCEPT !.op = "unpeer", !.at = s,
                      !.to = At[peers[s][i].endpoint], !.exitEndpoint = Self[s],
                      !.endpoint = peers[s][i].endpoint,
                      !.step = "rewrite", !.waiting = TRUE])
  /\ Count
  /\ UNCHANGED <<clients, disabled, codes, served, exit, behind, withdrawn>>

(* RemoveChainPeer: the exit is told by which endpoint it was known here, and
   this server's own endpoint. *)
RemoveChainPeer(r, s) ==
  /\ Idle(r)
  /\ \E i \in DOMAIN peers[s] :
       /\ KeepPeers(s, DOMAIN peers[s] \ {i})
       /\ Begin(r, [NoRequest EXCEPT !.op = "unpeer", !.at = s,
                      !.to = At[peers[s][i].endpoint],
                      !.exitEndpoint = peers[s][i].endpoint, !.endpoint = Self[s],
                      !.step = "rewrite", !.waiting = TRUE])
  /\ Count
  /\ UNCHANGED <<clients, disabled, codes, served, exit, behind, withdrawn>>

(* RemoveChainClient: the entry is told this server's own endpoint, the one the
   entry gave when it paired, and the link it was given. *)
RemoveChainClient(r, s) ==
  /\ Idle(r)
  /\ \E e \in Endpoints :
       /\ clients[s][e] # None
       /\ clients' = [clients EXCEPT ![s][e] = None]
       /\ Begin(r, [NoRequest EXCEPT !.op = "unclient", !.at = s, !.to = At[e],
                      !.exitEndpoint = Self[s], !.endpoint = e, !.link = clients[s][e],
                      !.step = "sent", !.waiting = TRUE])
  /\ Count
  /\ UNCHANGED <<peers, disabled, codes, served, exit, behind, withdrawn>>

(* Slip: the codes stay. *)
AcceptingOnly(s) ==
  /\ disabled' = [disabled EXCEPT ![s] = ~@]
  /\ withdrawn' = IF disabled'[s]
                    THEN withdrawn \cup {c \in Codes : codes[c] # None /\ codes[c].by = s}
                    ELSE withdrawn
  /\ IF disabled'[s] THEN Count ELSE UNCHANGED events
  /\ UNCHANGED <<peers, clients, codes, served, exit, req, doubt, behind>>

(* SetChainAccepting; to close the pairing removes the stored codes. *)
SetChainAccepting(s) ==
  LET own == {c \in Codes : codes[c] # None /\ codes[c].by = s} IN
  /\ disabled' = [disabled EXCEPT ![s] = ~@]
  /\ IF disabled'[s]
       THEN /\ codes' = [c \in Codes |-> IF c \in own
                                           THEN [codes[c] EXCEPT !.listed = FALSE]
                                           ELSE codes[c]]
            /\ withdrawn' = withdrawn \cup own
       ELSE UNCHANGED <<codes, withdrawn>>
  /\ IF disabled'[s] THEN Count ELSE UNCHANGED events
  /\ UNCHANGED <<peers, clients, served, exit, req, doubt, behind>>

-----------------------------------------------------------------------------
(* The notification and its answer. *)

(* The snapshot a handler takes at s, with no lock held after it. *)
Look(r, s, step) ==
  req' = [Overtaking(s) EXCEPT ![r] =
            [req[r] EXCEPT !.step = step, !.outbound = ChainExit(peers[s]),
                           !.overtaken = FALSE]]

(* WriteConfig of that snapshot and RestartService; their errors are dropped. *)
WriteConfig(q, s) ==
  \/ /\ exit' = [exit EXCEPT ![s] = q.outbound]
     /\ behind' = IF q.overtaken THEN behind \cup {s} ELSE behind \ {s}
  \/ /\ behind' = behind \cup {s}
     /\ UNCHANGED exit

(* What comes after it: the notification, the answer, or nothing of interest. *)
Written(r, step) ==
  req' = [req EXCEPT ![r] =
            IF Notifying(@) THEN [@ EXCEPT !.step = step, !.outbound = None,
                                           !.overtaken = FALSE]
            ELSE NoRequest]

(* The sender, which then posts its notification. *)
Rewrite(r) ==
  /\ req[r].step = "rewrite"
  /\ Look(r, req[r].at, "install")
  /\ UNCHANGED <<lists, exit, history, events>>
Install(r) ==
  /\ req[r].step = "install"
  /\ WriteConfig(req[r], req[r].at)
  /\ Written(r, "sent")
  /\ UNCHANGED <<lists, doubt, withdrawn, events>>

(* What a server takes for an invitation: a code of its own that has not
   expired, or a link that one of its running nodes has. *)
Invited(q) ==
  \/ /\ codes[q.code] # None
     /\ codes[q.code].by = q.to /\ codes[q.code].listed
  \/ q.link \in served[q.to]

ChainPublicPaired(r) ==
  LET q == req[r] IN
  /\ q.step = "sent" /\ q.op = "pair"
  /\ IF ~disabled[q.to] /\ Invited(q)
       THEN /\ clients' = [clients EXCEPT ![q.to][q.endpoint] = q.link]
            /\ codes' = [c \in Codes |->
                 IF c = q.code /\ codes[c] # None /\ codes[c].by = q.to /\ codes[c].listed
                   THEN [codes[c] EXCEPT !.used = TRUE] ELSE codes[c]]
            /\ Advance(r, "ok")
       ELSE /\ Advance(r, "refused")
            /\ UNCHANGED <<clients, codes>>
  /\ UNCHANGED <<peers, disabled, served, exit, history, events>>

(* chainPeerMatches and chainClientMatches, on what a post carries; nothing matches
   what it leaves out. *)
PeerMatches(p, q) == p.endpoint = q.exitEndpoint \/ p.link = q.link
Unmatched(s, q) == {i \in DOMAIN peers[s] : ~PeerMatches(peers[s][i], q)}

(* The transaction of ChainPublicUnpaired at s, and whether it removes anything. *)
Unpair(s, q) ==
  /\ KeepPeers(s, Unmatched(s, q))
  /\ clients' = [clients EXCEPT ![s] =
                   [e \in Endpoints |-> IF e = q.endpoint THEN None ELSE @[e]]]
Removes(s, q) ==
  \/ Unmatched(s, q) # DOMAIN peers[s]
  \/ q.endpoint \in Endpoints /\ clients[s][q.endpoint] # None

(* Slip: only the removal of a client counts. *)
UnpairedOfClient(r) ==
  LET q == req[r] IN
  /\ q.step = "sent" /\ q.op \in {"unpeer", "unclient"}
  /\ Unpair(q.to, q)
  /\ Advance(r, IF clients' = clients THEN "ok" ELSE "serving")
  /\ UNCHANGED <<disabled, codes, served, exit, history, events>>

ChainPublicUnpaired(r) ==
  LET q == req[r] IN
  /\ q.step = "sent" /\ q.op \in {"unpeer", "unclient"}
  /\ Unpair(q.to, q)
  /\ Advance(r, IF Removes(q.to, q) THEN "serving" ELSE "ok")
  /\ UNCHANGED <<disabled, codes, served, exit, history, events>>

(* The receiver, before it answers. *)
ServeRewrite(r) ==
  /\ req[r].step = "serving"
  /\ Look(r, req[r].to, "replace")
  /\ UNCHANGED <<lists, exit, history, events>>
ServeInstall(r) ==
  /\ req[r].step = "replace"
  /\ WriteConfig(req[r], req[r].to)
  /\ Written(r, "ok")
  /\ UNCHANGED <<lists, doubt, withdrawn, events>>

(* The connection fails before the receiver has seen the notification. *)
Lose(r) ==
  /\ req[r].step = "sent"
  /\ req' = [req EXCEPT ![r] = NoRequest]
  /\ doubt' = doubt \cup {Concerned(req[r])}
  /\ UNCHANGED <<lists, exit, behind, withdrawn, events>>

(* Slip: there is a limit for the connection only, not for the answer. *)
TimeOutUnseen(r) ==
  /\ req[r].waiting
  /\ req[r].step = "sent"
  /\ req' = [req EXCEPT ![r].waiting = FALSE]
  /\ doubt' = doubt \cup {Concerned(req[r])}
  /\ UNCHANGED <<lists, exit, behind, withdrawn, events>>

(* Three seconds have passed: the handler answers its administrator with the
   failure.  The notification, or the work it caused, goes on. *)
TimeOut(r) ==
  /\ req[r].waiting
  /\ req[r].step \in {"sent", "serving", "replace", "ok", "refused"}
  /\ req' = [req EXCEPT ![r].waiting = FALSE]
  /\ doubt' = doubt \cup {Concerned(req[r])}
  /\ UNCHANGED <<lists, exit, behind, withdrawn, events>>

(* The answer arrives; the handler, if it still waits, reports it. *)
Finish(r) ==
  /\ req[r].step \in {"ok", "refused"}
  /\ req' = [req EXCEPT ![r] = NoRequest]
  /\ doubt' = IF req[r].step = "refused" THEN doubt \cup {Concerned(req[r])}
              ELSE IF req[r].waiting /\ req[r].sole THEN doubt \ {Concerned(req[r])}
              ELSE doubt
  /\ UNCHANGED <<lists, exit, behind, withdrawn, events>>

-----------------------------------------------------------------------------
(* The rest of the world. *)

(* Five minutes after its issue a code is void, at either end. *)
Expire(c) ==
  /\ codes[c] # None
  /\ codes' = [codes EXCEPT ![c] = None]
  /\ UNCHANGED <<peers, clients, disabled, served, exit, req, history, events>>

(* The pairs of servers of which a post to s removes one from the lists of s. *)
Severed(s, q) ==
  {<<s, At[peers[s][i].endpoint]>> : i \in DOMAIN peers[s] \ Unmatched(s, q)}
  \cup {<<At[e], s>> : e \in {x \in Endpoints : x = q.endpoint /\ clients[s][x] # None}}

(* What a caller that is no handler of these servers may post: whatever it knows of. *)
Posts == [exitEndpoint : Endpoints \cup {None}, endpoint : Endpoints \cup {None},
          link : Links \cup {None}]

(* ChainPublicUnpaired on such a post, up to the end of its transaction; one that
   matches nothing changes nothing. *)
OutsideUnpaired(r, s, post) ==
  /\ Idle(r)
  /\ Removes(s, post)
  /\ Unpair(s, post)
  /\ req' = [x \in Requests |->
               IF x = r
                 THEN [NoRequest EXCEPT !.op = "outside", !.at = s, !.step = "rewrite"]
               ELSE IF Notifying(req[x]) /\ Concerned(req[x]) \in Severed(s, post)
                 THEN [req[x] EXCEPT !.sole = FALSE]
               ELSE req[x]]
  /\ doubt' = doubt \cup Severed(s, post)
  /\ Count
  /\ UNCHANGED <<disabled, codes, served, exit, behind, withdrawn>>

(* Any handler of Panel.tla: the running nodes may change, and sing-box.json is
   written, with the outbound of the first peer in it. *)
HandleOther(r, s) ==
  /\ Idle(r)
  /\ \E ls \in SUBSET {l \in Links : ExitOf[l] = s} : served' = [served EXCEPT ![s] = ls]
  /\ req' = [req EXCEPT ![r] =
               [NoRequest EXCEPT !.op = "other", !.at = s, !.step = "rewrite"]]
  /\ Count
  /\ UNCHANGED <<peers, clients, disabled, codes, exit, history>>

(* The process of a server dies and is started again: its handlers end where
   they are, those of others lose the connection to it. *)
Crash(s) ==
  LET own == {r \in Requests : req[r].at = s}
      received == {r \in Requests : req[r].to = s /\ req[r].step \in {"serving", "replace"}}
      cut == {r \in own : req[r].step \in {"issue", "rewrite", "install"}} \cup received
  IN
  /\ own \cup received # {}
  /\ req' = [r \in Requests |->
               IF r \in cut THEN NoRequest
               ELSE IF r \in own THEN [req[r] EXCEPT !.waiting = FALSE]
               ELSE req[r]]
  /\ doubt' = doubt \cup
       {Concerned(req[r]) : r \in {x \in own \cup received : Notifying(req[x])}}
  /\ behind' = IF \A r \in cut : req[r].step = "issue" THEN behind ELSE behind \cup {s}
  /\ Count
  /\ UNCHANGED <<lists, exit, withdrawn>>

Administrate ==
  \E s \in Servers :
    \/ \E r \in Requests : \/ \E c \in Codes : AskCode(r, s, c) \/ Pair(r, s, c)
                           \/ RemoveChainPeer(r, s)
                           \/ RemoveChainClient(r, s)
                           \/ \E post \in Posts : OutsideUnpaired(r, s, post)
                           \/ HandleOther(r, s)
    \/ \E c \in Codes : PairLocally(s, c)
    \/ SetChainAccepting(s)
    \/ Crash(s)

Proceed(r) ==
  \/ IssueCode(r)
  \/ Rewrite(r)
  \/ Install(r)
  \/ ChainPublicPaired(r)
  \/ ChainPublicUnpaired(r)
  \/ ServeRewrite(r)
  \/ ServeInstall(r)
  \/ Lose(r)
  \/ TimeOut(r)
  \/ Finish(r)

Next ==
  \/ Administrate
  \/ \E r \in Requests : Proceed(r)
  \/ \E c \in Codes : Expire(c)

Spec == Init /\ [][Next]_vars

(* A server goes on with its own handlers, and its HTTP client gives up in the
   end; nothing is assumed of the network, of other servers, of administrators. *)
Fairness ==
  \A r \in Requests :
    /\ WF_vars(IssueCode(r))
    /\ WF_vars(Rewrite(r))
    /\ WF_vars(Install(r))
    /\ WF_vars(TimeOut(r))
FairSpec == Spec /\ Fairness

-----------------------------------------------------------------------------
PeersOf(s) == {At[peers[s][i].endpoint] : i \in DOMAIN peers[s]}
ClientsOf(s) == {At[e] : e \in {x \in Endpoints : clients[s][x] # None}}

(* A server lists another as its exit if and only if that one lists it as an
   entry, once no request about the two is under way and unless the last of them
   failed or met another, or a post from outside has cut the pair.  One request that
   succeeds on its own puts right whatever lost, late and crossing notifications
   have left. *)
PairingAgrees ==
  \A a, b \in Servers :
    a # b /\ <<a, b>> \notin doubt /\ About(<<a, b>>) = {}
      => (b \in PeersOf(a) <=> a \in ClientsOf(b))

(* sing-box.json sends to the first peer of the list once no handler is about to
   write it, however chain handlers, served notifications, posts from outside and
   handlers of nodes overlap.  Set aside are the ways the code has to stay behind:
   a last write that failed, was cut by a crash or left out by a bare code, or one
   of a handler whose snapshot was no longer the newest when it wrote. *)
ExitFollowsPeers ==
  \A s \in Servers :
    \/ s \in behind
    \/ \E r \in Requests : \/ req[r].step = "rewrite" /\ req[r].at = s
                           \/ req[r].step = "serving" /\ req[r].to = s
                           \/ Installing(req[r], s)
    \/ exit[s] = ChainExit(peers[s])

(* Whom a post names: by an endpoint of his, or by a link to one of his nodes. *)
Names(post, t) ==
  \/ \E e \in {post.exitEndpoint, post.endpoint} \cap Endpoints : At[e] = t
  \/ post.link \in Links /\ ExitOf[post.link] = t

(* Nobody vanishes from a server's lists but by an unpairing between these two
   servers, or by a post from outside that names him: an unpairing may match by
   endpoint or by link, and a renewed pairing takes the place of an older entry,
   but neither ever takes away what a third server has. *)
OnlyTheNamedAreUnpaired ==
  [][\A s, t \in Servers :
       \/ s = t
       \/ t \notin (PeersOf(s) \ PeersOf(s)') \cup (ClientsOf(s) \ ClientsOf(s)')
       \/ \E r \in Requests : /\ req'[r].op \in {"unpeer", "unclient"}
                              /\ {req'[r].at, req'[r].to} = {s, t}
       \/ \E r \in Requests, post \in Posts :
            OutsideUnpaired(r, s, post) /\ Names(post, t)]_vars

(* A code that was withdrawn by closing the pairing never brings in an entry
   again, also after the pairing was reopened and if it was on its way: only a
   link that is still served does. *)
WithdrawnCodeIsDead ==
  [][\A r \in Requests :
       ChainPublicPaired(r) /\ req[r].code \in withdrawn /\ clients' # clients
         => req[r].link \in served[req[r].to]]_vars

(* Every handler answers its administrator, though the other server be silent,
   dead or waiting for this one. *)
RequestsAreAnswered ==
  \A r \in Requests : req[r].waiting ~> ~req[r].waiting

-----------------------------------------------------------------------------
(* What the panel tells its administrator, for the run that refutes it. *)

(* "Unpaired" (app.js:206), with exit_notified true in the answer: the exit has
   forgotten this server. *)
UnpairedIsForgotten ==
  [][\A r \in Requests :
       Finish(r) /\ req[r].op = "unpeer" /\ req[r].step = "ok" /\ req[r].waiting
       /\ req[r].sole /\ req[r].at # req[r].to
         => req[r].at \notin ClientsOf(req[r].to)]_vars
=============================================================================
