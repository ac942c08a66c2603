------------------------------- MODULE Panel -------------------------------
(* The panel's node list: the store (internal/store/store.go), the handlers
   that change nodes and settings (internal/api/handler_setup.go,
   handler_nodes.go, helpers.go), and what each of them does after its
   transaction to bring sing-box in line: Snapshot, WriteConfig, RestartService.

   Store.Update is atomic: it runs under the store's lock, and its save is
   part of it.  The rest of a handler is not: another request may come between
   any two of its steps.  Snapshot copies the state but not the nodes: the copy
   and the store share one backing array, which RemoveNode compacts, NodeAction
   and UpdateSettings overwrite and AddNode may extend in place while the first
   handler is still reading.  The arrays are modelled for that reason.

   sing-box.json is the register of ConfigRegister.tla, which ConfigFile.tla
   shows WriteConfig to implement. *)
EXTENDS Naturals, Sequences

CONSTANTS
  Handlers,     \* request goroutines
  Recommended,  \* sequence of protocols: recommender.Recommend, in its order
  Public,       \* addresses clients can reach: domains and public IPs
  Local,        \* "127.0.0.1", what configuredHost falls back to
  Detected,     \* what configuredHost may find for a server without a name
  Keygen,       \* possible outcomes of GenerateRealityMaterial
  Arrays,       \* identities of backing arrays
  MaxLen,       \* bound: longest backing array
  MaxEvents,    \* bound: requests, starts and failures in one behaviour
  FirstStates,  \* state.json when the program starts for the first time
  None,         \* the empty string, no node, no file
  Unknown       \* file content nobody vouches for

NeedCert == {"trojan-tls", "hysteria2", "vless-ws-tls", "tuic"}
NeedNoCert == {"vless-reality", "shadowsocks", "clash"}
Protocols == NeedCert \cup NeedNoCert
Addresses == Public \cup {Local, None}

Links == [host : Addresses, keys : BOOLEAN] \cup {None}
Node == [proto : Protocols, status : {"running", "stopped"}, host : Addresses,
         link : Links, keys : BOOLEAN]
Settings == [done : BOOLEAN, direct : BOOLEAN, domain : Addresses,
             cert : Public \cup {None}]
Inbound == [tag : Protocols, keys : BOOLEAN, cert : Public \cup {None}]
Saved == [settings : Settings, list : Seq(Node)]

ASSUME RecommendedAssumption ==
  /\ Recommended \in Seq(Protocols \ {"clash"})
  /\ \A i, j \in 1..Len(Recommended) :
       Recommended[i] = Recommended[j] => i = j
  /\ MaxLen \in Nat /\ Len(Recommended) <= MaxLen
ASSUME EventsAssumption == MaxEvents \in Nat
ASSUME AddressAssumption ==
  /\ Local \notin Public /\ None \notin Public /\ Local # None
  /\ Detected \subseteq Public \cup {Local}
  /\ Keygen \subseteq BOOLEAN /\ Keygen # {}
ASSUME NothingAssumption ==
  None \notin Node \cup Seq(Inbound) \cup [host : Addresses, keys : BOOLEAN]

UniqueIn(list) == \A i, j \in 1..Len(list) : list[i].proto = list[j].proto => i = j

ASSUME FirstStatesAssumption ==
  /\ FirstStates \subseteq Saved
  /\ \A d \in FirstStates : UniqueIn(d.list) /\ Len(d.list) <= MaxLen

VARIABLES
  settings,  \* SetupDone, IPDirect, Domain, CertReady with its paths
  nodes,     \* the slice st.Nodes: [arr, len]
  heap,      \* [Arrays -> [1..MaxLen -> Node \cup {None}]]: backing arrays
  cap,       \* [Arrays -> 0..MaxLen]: their capacities
  disk,      \* state.json
  up,        \* the process: "down", "boot" (inside api.New) or "up"
  pc,        \* [Handlers -> Places]
  view,      \* [Handlers -> slice]: Nodes of the snapshot each one works on
  vcert,     \* [Handlers -> ...]: CertPath of that snapshot
  pos,       \* [Handlers -> Nat]: nodes of the snapshot already rendered
  out,       \* [Handlers -> Seq(Inbound)]: their inbounds
  content, arg, inside, sole,  \* sing-box.json: see ConfigRegister
  svc,       \* what sing-box was last started with
  viewing,   \* the handlers that serve GET /api/v1/sing-box/config
  solo,      \* history: handlers whose pipeline has met no other
  drift,     \* history: something that excuses a stale configuration has
             \* happened since the last pipeline that ran alone and succeeded
  revived,   \* history: a start turned a stopped node on and wrote nothing
  events     \* counter of the bound MaxEvents

store == <<settings, nodes, heap, cap>>
file == <<content, arg, inside, sole>>
work == <<view, vcert, pos, out>>
history == <<solo, drift, revived>>
vars == <<settings, nodes, heap, cap, disk, up, pc, view, vcert, pos, out,
          content, arg, inside, sole, svc, viewing, solo, drift, revived,
          events>>

Places == {"idle", "snapshot", "render", "writing", "restart"}

(* "sing-box check" refuses a Reality inbound without a private key.  Whatever
   else it refuses is an error WriteConfig may always return. *)
SingBoxAccepts(c) ==
  \A i \in DOMAIN c : c[i].tag = "vless-reality" => c[i].keys

File == INSTANCE ConfigRegister WITH
  Writers <- Handlers, Configs <- Seq(Inbound), Acceptable <- SingBoxAccepts

-----------------------------------------------------------------------------
(* Pure helpers of internal/api/helpers.go. *)

(* protocolRunnable *)
Runnable(proto, cert) == proto \in NeedNoCert \/ (proto \in NeedCert /\ cert # None)

(* subscribe.Link: what a link says of the node it was made for. *)
Link(n) ==
  IF n.proto = "clash" THEN None
  ELSE [host |-> IF n.host = None THEN Local ELSE n.host, keys |-> n.keys]

(* configuredHost: the addresses it may return. *)
ConfiguredHost(domain, direct) ==
  IF ~direct \/ domain \in Public THEN {domain} ELSE Detected

(* newNodeFromRecommendation *)
NewNode(proto, host, cert, keys) ==
  LET k == proto = "vless-reality" /\ keys
      n == [proto |-> proto, status |-> "stopped", host |-> host,
            link |-> None, keys |-> k]
  IN IF Runnable(proto, cert) /\ (proto = "vless-reality" => k)
       THEN [n EXCEPT !.status = "running", !.link = Link(n)]
       ELSE n

(* The increasing enumerations of a set of positions: how a loop that keeps
   some elements of a list, in order, numbers those it keeps. *)
Enumerations(K) ==
  {f \in UNION {[1..m -> K] : m \in 0..MaxLen} :
     /\ \A i, j \in DOMAIN f : i < j => f[i] < f[j]
     /\ \A k \in K : \E i \in DOMAIN f : f[i] = k}

(* The elements a slice shows. *)
Elements(slice) == [i \in 1..slice.len |-> heap[slice.arr][i]]
NodeList == Elements(nodes)

(* Arrays nothing refers to any more. *)
FreeArrays == {a \in Arrays : a # nodes.arr /\ \A p \in Handlers : a # view[p].arr}

(* An array that starts with the elements of a list. *)
Holding(list) == [i \in 1..MaxLen |-> IF i <= Len(list) THEN list[i] ELSE None]

Slices == [arr : Arrays \cup {None}, len : 0..MaxLen]
NoSlice == [arr |-> None, len |-> 0]

TypeOK ==
  /\ settings \in Settings
  /\ nodes \in Slices
  /\ heap \in [Arrays -> [1..MaxLen -> Node \cup {None}]]
  /\ cap \in [Arrays -> 0..MaxLen]
  /\ disk \in Saved
  /\ up \in {"down", "boot", "up"}
  /\ pc \in [Handlers -> Places]
  /\ view \in [Handlers -> Slices]
  /\ vcert \in [Handlers -> Public \cup {None}]
  /\ pos \in [Handlers -> 0..MaxLen]
  /\ out \in [Handlers -> Seq(Inbound)]
  /\ File!RegisterTypeOK
  /\ svc \in Seq(Inbound) \cup {None, Unknown}
  /\ viewing \subseteq Handlers /\ solo \subseteq Handlers
  /\ drift \in BOOLEAN /\ revived \in BOOLEAN
  /\ events \in 0..MaxEvents

Init ==
  /\ disk \in FirstStates
  /\ settings = disk.settings
  /\ nodes = NoSlice
  /\ heap = [a \in Arrays |-> Holding(<<>>)]
  /\ cap = [a \in Arrays |-> 0]
  /\ up = "down"
  /\ pc = [p \in Handlers |-> "idle"]
  /\ view = [p \in Handlers |-> NoSlice]
  /\ vcert = [p \in Handlers |-> None]
  /\ pos = [p \in Handlers |-> 0]
  /\ out = [p \in Handlers |-> <<>>]
  /\ File!RegisterInit
  /\ svc = None
  /\ viewing = {} /\ solo = {}
  /\ drift = TRUE /\ revived = FALSE
  /\ events = 0

-----------------------------------------------------------------------------
(* Store.Update and the pipeline it starts. *)

(* n more events, as far as the bound allows. *)
Count(n) == events + n <= MaxEvents /\ events' = events + n

Busy == {p \in Handlers : pc[p] # "idle"}
Goto(p, place) == pc' = [pc EXCEPT ![p] = place]

(* A request reaches a handler; those behind Server.auth need a session, and
   nobody has one before the first Setup. *)
Receive(p) ==
  /\ up = "up"
  /\ pc[p] = "idle"
ReceiveAuthenticated(p) == Receive(p) /\ settings.done

(* p is about to call Snapshot, WriteConfig and RestartService. *)
Launch(p) ==
  /\ Goto(p, "snapshot")
  /\ solo' = IF Busy = {} THEN {p} ELSE {}
  /\ drift' = (drift \/ Busy # {})

(* Slip: the state is saved before the handler's function has changed it. *)
SaveFirst(p) ==
  /\ disk' = [settings |-> settings, list |-> NodeList]
  /\ Launch(p)
  /\ Count(1)

(* saveLocked either writes the whole state or fails; a failure leaves memory
   changed and the handler answers with the error and does nothing more. *)
Save(p) ==
  \/ /\ disk' = [settings |-> settings', list |-> NodeList']
     /\ Launch(p)
     /\ Count(1)
  \/ /\ Count(2)
     /\ solo' = {}
     /\ drift' = TRUE
     /\ UNCHANGED <<disk, pc>>

(* The rest of a handler's transaction: it changed settings, nodes and heap. *)
Update(p) ==
  /\ Save(p)
  /\ UNCHANGED <<up, work, file, svc, viewing, revived>>

(* A slice over a new array with these elements; its capacity is the runtime's
   choice. *)
Allocate(list) ==
  \E a \in FreeArrays, c \in Len(list)..MaxLen :
    /\ nodes' = [arr |-> a, len |-> Len(list)]
    /\ heap' = [heap EXCEPT ![a] = Holding(list)]
    /\ cap' = [cap EXCEPT ![a] = c]

(* The domain field of a request; isLocalhost makes a local name count as none. *)
Names == Public \cup {None}

-----------------------------------------------------------------------------
(* The handlers. *)

(* Setup: nothing keeps it from being called again.  cert.Ensure is external;
   when it fails Setup returns before the transaction. *)
Setup(p) ==
  /\ Receive(p)
  /\ \E direct \in BOOLEAN, domain \in Names, keys \in Keygen,
        S \in SUBSET (1..Len(Recommended)) :
       /\ direct \/ domain \in Public
       /\ \E host \in ConfiguredHost(domain, direct), f \in Enumerations(S) :
            LET cert == IF direct THEN None ELSE domain IN
            /\ settings' = [done |-> TRUE, direct |-> direct, domain |-> host,
                            cert |-> cert]
            /\ Allocate([i \in DOMAIN f |->
                           NewNode(Recommended[f[i]], host, cert, keys)])
  /\ Update(p)

(* Slip: no duplicate check in the transaction. *)
AddUnchecked(p) ==
  /\ ReceiveAuthenticated(p)
  /\ nodes.len < MaxLen
  /\ \E k \in 1..Len(Recommended), keys \in Keygen,
        host \in ConfiguredHost(settings.domain, settings.direct) :
       Allocate(Append(NodeList, NewNode(Recommended[k], host, settings.cert, keys)))
  /\ UNCHANGED settings
  /\ Update(p)

(* AddNode: the duplicate check, inside the transaction, and append, which
   writes into the shared array when there is room. *)
AddNode(p) ==
  /\ ReceiveAuthenticated(p)
  /\ nodes.len < MaxLen
  /\ \E k \in 1..Len(Recommended), keys \in Keygen,
        host \in ConfiguredHost(settings.domain, settings.direct) :
       LET n == NewNode(Recommended[k], host, settings.cert, keys) IN
       /\ \A i \in 1..nodes.len : NodeList[i].proto # n.proto
       /\ IF nodes.len < cap[nodes.arr]
            THEN /\ heap' = [heap EXCEPT ![nodes.arr][nodes.len + 1] = n]
                 /\ nodes' = [nodes EXCEPT !.len = @ + 1]
                 /\ UNCHANGED cap
            ELSE Allocate(Append(NodeList, n))
  /\ UNCHANGED settings
  /\ Update(p)

(* RemoveNode: "next := st.Nodes[:0]" keeps the others by moving them to the
   front of the array that snapshots in flight are still reading. *)
RemoveNode(p) ==
  /\ ReceiveAuthenticated(p)
  /\ \E i \in 1..nodes.len :
       LET kept == {j \in 1..nodes.len : NodeList[j].proto # NodeList[i].proto} IN
       \E f \in Enumerations(kept) :
         /\ heap' = [heap EXCEPT ![nodes.arr] =
                       [j \in 1..MaxLen |-> IF j \in DOMAIN f THEN @[f[j]] ELSE @[j]]]
         /\ nodes' = [nodes EXCEPT !.len = Len(f)]
  /\ UNCHANGED <<settings, cap>>
  /\ Update(p)

(* Slip: the status changes and sing-box is not told. *)
ToggleQuietly(p) ==
  /\ ReceiveAuthenticated(p)
  /\ \E i \in 1..nodes.len :
       /\ Runnable(NodeList[i].proto, settings.cert)
       /\ heap' = [heap EXCEPT ![nodes.arr][i].status =
                     IF @ = "running" THEN "stopped" ELSE "running"]
  /\ UNCHANGED <<settings, nodes, cap, up, pc, work, file, svc, viewing, history>>
  /\ disk' = [settings |-> settings, list |-> NodeList']
  /\ Count(1)

(* Slip: a status of its own for a node the user has switched off. *)
ToggleToDisabled(p) ==
  /\ ReceiveAuthenticated(p)
  /\ \E i \in 1..nodes.len :
       heap' = [heap EXCEPT ![nodes.arr][i].status =
                 IF @ = "running" THEN "disabled" ELSE "running"]
  /\ UNCHANGED <<settings, nodes, cap>>
  /\ Update(p)

(* NodeAction "toggle"; the stored link is not touched. *)
ToggleNode(p) ==
  /\ ReceiveAuthenticated(p)
  /\ \E i \in 1..nodes.len :
       /\ \A j \in 1..(i - 1) : NodeList[j].proto # NodeList[i].proto
       /\ Runnable(NodeList[i].proto, settings.cert)
       /\ heap' = [heap EXCEPT ![nodes.arr][i].status =
                     IF @ = "running" THEN "stopped" ELSE "running"]
  /\ UNCHANGED <<settings, nodes, cap>>
  /\ Update(p)

(* Slip: the links of nodes that do not run are left as they are. *)
RelinkedIfRunning(n, host, cert) ==
  LET m == [n EXCEPT !.host = host] IN
  IF Runnable(m.proto, cert) /\ m.status = "running"
    THEN [m EXCEPT !.link = Link(m)] ELSE m

(* UpdateSettings on one node: no status changes. *)
Relinked(n, host, cert) ==
  LET m == [n EXCEPT !.host = host] IN
  [m EXCEPT !.link = IF Runnable(m.proto, cert) /\ m.status = "running"
                       THEN Link(m) ELSE None]

UpdateSettings(p) ==
  /\ ReceiveAuthenticated(p)
  /\ \E direct \in BOOLEAN, domain \in Names :
       /\ direct \/ domain \in Public
       /\ \E host \in ConfiguredHost(domain, direct) :
            LET cert == IF direct THEN None ELSE domain IN
            /\ settings' = [done |-> TRUE, direct |-> direct, domain |-> host,
                            cert |-> cert]
            /\ heap' = [heap EXCEPT ![nodes.arr] =
                 [i \in 1..MaxLen |-> IF i <= nodes.len
                                        THEN Relinked(@[i], host, cert) ELSE @[i]]]
  /\ UNCHANGED <<nodes, cap>>
  /\ Update(p)

(* Login, Logout, the chain handlers and the traffic loop change other parts of
   the state; their transactions save all of it. *)
UpdateElsewhere(p) ==
  /\ Receive(p)
  /\ disk' = [settings |-> settings, list |-> NodeList]
  /\ UNCHANGED <<store, up, pc, work, file, svc, viewing, history, events>>

(* SingBoxConfig, a GET: it writes the file too, and restarts nothing. *)
SingBoxConfig(p) ==
  /\ ReceiveAuthenticated(p)
  /\ Launch(p)
  /\ Count(1)
  /\ viewing' = viewing \cup {p}
  /\ UNCHANGED <<store, disk, up, work, file, svc, revived>>

(* Pair, RemoveChainPeer and ChainPublicUnpaired change the chain's peers in
   their transactions and then run the same pipeline. *)
ChainHandler(p) ==
  /\ Receive(p)
  /\ UNCHANGED store
  /\ Update(p)

-----------------------------------------------------------------------------
(* Subscribe, a GET that changes nothing: the offers it makes of the nodes of its
   snapshot, for the host it was asked under. *)

NodesForRequest(host) ==
  [i \in 1..nodes.len |->
     IF host = None THEN NodeList[i] ELSE [NodeList[i] EXCEPT !.host = host]]

Offer(n) == [proto |-> n.proto, link |-> Link(n)]
Running(list) == {list[i] : i \in {j \in 1..Len(list) : list[j].status = "running"}}

(* Slip: every node of the list has a link. *)
V2rayNOfAll(list) == {Offer(list[i]) : i \in {j \in 1..Len(list) : Link(list[j]) # None}}

V2rayN(list) == {Offer(n) : n \in {m \in Running(list) : Link(m) # None}}
ClashProxies(list) ==
  {Offer(n) : n \in {m \in Running(list) :
                       m.proto # "clash" /\ (m.proto = "vless-reality" => m.keys)}}

-----------------------------------------------------------------------------
(* The pipeline: Snapshot, WriteConfig, RestartService. *)

(* Store.Snapshot returns the state by value: its strings are copied, its
   slices keep pointing into the store's arrays. *)
Snapshot(p) ==
  /\ pc[p] = "snapshot"
  /\ view' = [view EXCEPT ![p] = nodes]
  /\ vcert' = [vcert EXCEPT ![p] = settings.cert]
  /\ Goto(p, "render")
  /\ UNCHANGED <<store, disk, up, pos, out, file, svc, viewing, history, events>>

(* Which nodes get an inbound, and which. *)
Served(n, cert) ==
  /\ n.status = "running"
  /\ n.proto # "clash"
  /\ n.proto \in NeedCert => cert # None
InboundOf(n, cert) ==
  [tag |-> n.proto, keys |-> n.keys,
   cert |-> IF n.proto \in NeedCert THEN cert ELSE None]

(* Slip: the loop forgets that some protocols need the certificate's paths. *)
RenderEveryNode(p) ==
  /\ pc[p] = "render"
  /\ pos[p] < view[p].len
  /\ LET n == Elements(view[p])[pos[p] + 1] IN
     out' = IF n.status = "running"
              THEN [out EXCEPT ![p] = Append(@, InboundOf(n, vcert[p]))]
              ELSE out
  /\ pos' = [pos EXCEPT ![p] = @ + 1]
  /\ UNCHANGED <<store, disk, up, pc, view, vcert, file, svc, viewing, history,
                 events>>

(* WriteConfig's loop reads one element after the other, without the lock. *)
RenderNode(p) ==
  /\ pc[p] = "render"
  /\ pos[p] < view[p].len
  /\ LET n == Elements(view[p])[pos[p] + 1] IN
     out' = IF Served(n, vcert[p])
              THEN [out EXCEPT ![p] = Append(@, InboundOf(n, vcert[p]))]
              ELSE out
  /\ pos' = [pos EXCEPT ![p] = @ + 1]
  /\ UNCHANGED <<store, disk, up, pc, view, vcert, file, svc, viewing, history, events>>

(* The file protocol, by the register it implements. *)
OpenConfig(p) ==
  /\ pc[p] = "render"
  /\ pos[p] = view[p].len
  /\ File!Enter(p, out[p])
  /\ view' = [view EXCEPT ![p] = NoSlice]
  /\ vcert' = [vcert EXCEPT ![p] = None]
  /\ pos' = [pos EXCEPT ![p] = 0]
  /\ out' = [out EXCEPT ![p] = <<>>]
  /\ Goto(p, "writing")
  /\ UNCHANGED <<store, disk, up, svc, viewing, history, events>>

(* WriteConfig returns; the GET is answered, every other handler goes on to the
   restart whatever the result was. *)
Return(p) ==
  /\ Goto(p, IF p \in viewing THEN "idle" ELSE "restart")
  /\ viewing' = viewing \ {p}
  /\ UNCHANGED <<store, disk, up, work, svc, revived>>

ConfigInstalled(p) ==
  /\ pc[p] = "writing"
  /\ File!Commit(p)
  /\ Return(p)
  /\ solo' = IF p \in viewing THEN solo \ {p} ELSE solo
  /\ UNCHANGED <<drift, events>>

ConfigRefused(p) ==
  /\ pc[p] = "writing"
  /\ File!Abort(p)
  /\ Return(p)
  /\ solo' = solo \ {p}
  /\ drift' = (drift \/ p \notin viewing)
  /\ Count(1)

(* After the restart of a pipeline that met no other and wrote its file, there
   is no excuse left for a stale configuration. *)
RestartService(p) ==
  /\ pc[p] = "restart"
  /\ svc' = content
  /\ drift' = (drift /\ p \notin solo)
  /\ revived' = (revived /\ p \notin solo)
  /\ solo' = solo \ {p}
  /\ up' = "up"
  /\ Goto(p, "idle")
  /\ UNCHANGED <<store, disk, work, file, viewing, events>>

RestartFails(p) ==
  /\ pc[p] = "restart"
  /\ drift' = TRUE
  /\ Count(1)
  /\ solo' = solo \ {p}
  /\ up' = "up"
  /\ Goto(p, "idle")
  /\ UNCHANGED <<store, disk, work, file, svc, viewing, revived>>

-----------------------------------------------------------------------------
(* The process starts, for the first time or after it was stopped or died at any
   point: store.Open reads state.json, then api.New runs ensureRunnableNodes
   before any request is served. *)

HasProtocol(list, proto) == \E i \in 1..Len(list) : list[i].proto = proto

(* Slip: only links are refreshed, whatever the certificate. *)
EnsuredLinks(n, host, cert, generated) ==
  LET m == [n EXCEPT !.host = host] IN
  IF n.status = "running" THEN [m EXCEPT !.link = Link(m)] ELSE m

(* ensureRunnableNodes on one node, and whether it counts that as a change. *)
Ensured(n, host, cert, generated) ==
  LET m == [n EXCEPT !.host = host] IN
  IF n.proto = "vless-reality"
    THEN IF n.keys \/ generated
           THEN LET k == [m EXCEPT !.keys = TRUE]
                IN [k EXCEPT !.status = "running", !.link = Link(k)]
           ELSE [m EXCEPT !.status = "stopped", !.link = None]
  ELSE IF Runnable(n.proto, cert)
    THEN IF n.status = "running" THEN [m EXCEPT !.link = Link(m)] ELSE m
  ELSE [m EXCEPT !.status = "stopped", !.link = None]

CountsAsChange(n, cert, generated) ==
  IF n.proto = "vless-reality"
    THEN ~n.keys /\ (generated \/ n.status = "running")
    ELSE ~Runnable(n.proto, cert) /\ n.status = "running"

(* A server reached by address takes the public one it has found for its name. *)
NamesItself(d, host) ==
  d.settings.direct /\ d.settings.domain = None /\ host # Local

(* Older versions had "clash" nodes with nothing behind them. *)
LacksShadowsocks(list) ==
  HasProtocol(list, "clash") /\ ~HasProtocol(list, "shadowsocks")

(* ensureRunnableNodes on the list, and whether it reports a change: then, and
   only then, is sing-box.json rewritten. *)
EnsuredList(d, host, generated) ==
  LET ensured == [i \in 1..Len(d.list) |->
                    Ensured(d.list[i], host, d.settings.cert, generated)]
  IN IF LacksShadowsocks(d.list)
       THEN Append(ensured, NewNode("shadowsocks", host, d.settings.cert, FALSE))
       ELSE ensured

EnsureChanges(d, host, generated) ==
  \/ NamesItself(d, host)
  \/ LacksShadowsocks(d.list)
  \/ \E i \in 1..Len(d.list) : CountsAsChange(d.list[i], d.settings.cert, generated)

(* A new process serves requests at once, or after the pipeline of its boot. *)
Serve ==
  /\ up' = "up"
  /\ pc' = [q \in Handlers |-> "idle"]
  /\ solo' = {}
Boot(p) ==
  /\ up' = "boot"
  /\ pc' = [q \in Handlers |-> IF q = p THEN "snapshot" ELSE "idle"]
  /\ solo' = {p}

Start(p) ==
  /\ \E generated \in Keygen,
        host \in ConfiguredHost(disk.settings.domain, disk.settings.direct) :
       LET list == EnsuredList(disk, host, generated)
           changed == EnsureChanges(disk, host, generated)
       IN /\ Len(list) <= MaxLen
          /\ settings' = [disk.settings EXCEPT !.domain =
                            IF NamesItself(disk, host) THEN host ELSE @]
          /\ \E a \in Arrays, c \in Len(list)..MaxLen :
               /\ nodes' = [arr |-> a, len |-> Len(list)]
               /\ heap' = [b \in Arrays |-> Holding(IF b = a THEN list ELSE <<>>)]
               /\ cap' = [b \in Arrays |-> IF b = a THEN c ELSE 0]
          /\ \/ /\ disk' = [settings |-> settings', list |-> list]
                /\ Count(1)
                /\ drift' = (drift \/ Busy # {})
                /\ IF changed THEN Boot(p) ELSE Serve
             \/ /\ UNCHANGED disk
                /\ Count(2)
                /\ drift' = TRUE
                /\ Serve
          /\ revived' = (revived \/ (~changed /\ \E i \in 1..Len(disk.list) :
                 disk.list[i].status = "stopped" /\ list[i].status = "running"))
  /\ view' = [q \in Handlers |-> NoSlice]
  /\ vcert' = [q \in Handlers |-> None]
  /\ pos' = [q \in Handlers |-> 0]
  /\ out' = [q \in Handlers |-> <<>>]
  /\ File!Die
  /\ viewing' = {}
  /\ UNCHANGED svc

Handle(p) ==
  \/ Setup(p)
  \/ AddNode(p)
  \/ RemoveNode(p)
  \/ ToggleNode(p)
  \/ UpdateSettings(p)
  \/ UpdateElsewhere(p)
  \/ SingBoxConfig(p)
  \/ ChainHandler(p)

Apply(p) ==
  \/ Snapshot(p)
  \/ RenderNode(p)
  \/ OpenConfig(p)
  \/ ConfigInstalled(p)
  \/ ConfigRefused(p)
  \/ RestartService(p)
  \/ RestartFails(p)

Next == \E p \in Handlers : Handle(p) \/ Apply(p) \/ Start(p)

Spec == Init /\ [][Next]_vars

-----------------------------------------------------------------------------
(* The store never holds two nodes of one protocol, in memory or on the disk:
   AddNode's duplicate check and its append are one transaction, Setup replaces
   the list, and compaction in a shared array loses and doubles nothing. *)
UniqueProtocol == UniqueIn(NodeList) /\ UniqueIn(disk.list)

(* A stored link is one a client can use: the node could run with the present
   certificate, and if the server has a public name the link says exactly what
   the node is now.  ToggleNode and the start leave some links as they are, so
   this depends on what every earlier handler did to them. *)
LinkSound ==
  \A i \in 1..nodes.len :
    LET n == NodeList[i] IN
    n.link # None =>
      /\ Runnable(n.proto, settings.cert)
      /\ settings.domain \in Public => n.link = Link(n) /\ n.host = settings.domain

(* What WriteConfig would render from the store now: an inbound for every node it
   serves, in their order. *)
Rendered(c, list, cert) ==
  \E f \in Enumerations({i \in 1..Len(list) : Served(list[i], cert)}) :
    c = [i \in DOMAIN f |-> InboundOf(list[f[i]], cert)]
Current(c) == Rendered(c, NodeList, settings.cert)

Quiet == up = "up" /\ Busy = {}

(* Once no handler is at work, sing-box.json and the running service have the
   stored nodes, unless one of the known causes came after the last pipeline
   that ran alone: overlapping pipelines, a failed save, write or restart, a
   process that died mid-way -- or a start that revived a Reality node. *)
ConfigFollowsStore ==
  Quiet /\ ~drift /\ ~revived => Current(content) /\ Current(svc)

(* state.json has what memory has unless a save failed: a request refused
   inside its transaction has changed nothing by then. *)
DiskHasStore == Quiet /\ ~drift => disk = [settings |-> settings, list |-> NodeList]

(* A subscription offers what sing-box serves.  Three loops choose nodes, each on
   its own terms: those of the two formats, which know nothing of certificates, and
   that of WriteConfig, which knows nothing of keys.  At rest they choose the same,
   but for nodes whose certificate is gone, and every offer has the present address. *)
SubscriptionIsServed ==
  Quiet /\ ~drift /\ ~revived =>
    \A host \in ConfiguredHost(settings.domain, settings.direct) :
      LET list == NodesForRequest(host)
          certified == {o \in V2rayN(list) : Runnable(o.proto, settings.cert)}
      IN /\ V2rayN(list) = ClashProxies(list)
         /\ {o.proto : o \in certified} = {svc[k].tag : k \in DOMAIN svc}
         /\ host # None => \A o \in certified : o.link.host = host

(* After a start no node is listed as running that cannot run: the certificate
   it needs is there and a Reality node has its keys. *)
StartStopsWhatCannotRun ==
  [][(\E p \in Handlers : Start(p)) =>
       \A i \in 1..nodes'.len :
         LET n == NodeList'[i] IN
         n.status = "running" =>
           Runnable(n.proto, settings'.cert) /\ (n.proto = "vless-reality" => n.keys)]_vars

-----------------------------------------------------------------------------
(* What the panel says of the nodes, for the run that refutes it. *)

(* The panel labels such a node "Running" (app.js:1016): as long as nothing
   excuses it, sing-box serves every node that is listed as running -- neither the
   loss of the certificate nor a start lets the two part. *)
RunningIsServed ==
  Quiet /\ ~drift =>
    \A i \in 1..nodes.len :
      NodeList[i].status = "running" /\ NodeList[i].proto # "clash"
        => \E k \in DOMAIN svc : svc[k].tag = NodeList[i].proto
=============================================================================
