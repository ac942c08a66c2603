------------------------- MODULE PanelServiceProofs -------------------------
(* What a client gets from Panel.tla, for every value of the constants: stored links
   stay usable (LinkSound), the service follows the store (ConfigFollowsStore), and
   subscriptions offer what is served (SubscriptionIsServed).

   A server set up before links knew their host (an old state.json) may keep
   stale links on stopped nodes; LinksStaySound is about servers whose first state
   has none, as the one store.Open creates.

   The service follows the store because a pipeline that has met no other finds, at
   each of its steps, the store as it was at its snapshot (Alone), so that what it has
   rendered so far is what the store's nodes up to there ask for (Followed). *)
EXTENDS PanelProofs

(* A node, and a link stored in it, against these settings. *)
Fits(n, s) ==
  /\ n.link # None => Runnable(n.proto, s.cert)
  /\ s.domain \in Public =>
       n.host = s.domain /\ (n.link # None => n.link = Link(n))

(* Setup always finds a name or an address, so only a server that has not been
   set up has none. *)
Linked(s, list) ==
  /\ s.domain = None => ~s.done /\ Len(list) = 0
  /\ \A i \in 1..Len(list) : Fits(list[i], s)

LinkInv == Linked(settings, NodeList) /\ Linked(disk.settings, disk.list)

-----------------------------------------------------------------------------
LEMMA NewNodeFits ==
  ASSUME NEW proto \in Protocols, NEW keys \in BOOLEAN, NEW s, NEW host,
         s.domain \in Public => host = s.domain
  PROVE  Fits(NewNode(proto, host, s.cert, keys), s)
BY DEF NewNode, Fits, Link, Runnable

LEMMA StatusFits ==
  ASSUME NEW n \in Node, NEW s, Fits(n, s), NEW status \in {"running", "stopped"}
  PROVE  Fits([n EXCEPT !.status = status], s)
BY DEF Fits, Link, Node

LEMMA RelinkedFits ==
  ASSUME NEW n \in Node, NEW s
  PROVE  Fits(Relinked(n, s.domain, s.cert), s)
BY DEF Fits, Relinked, Link, Node

(* A start that takes a new name had no nodes before; any other keeps the name. *)
LEMMA EnsuredFits ==
  ASSUME NEW n \in Node, NEW s, Fits(n, s), NEW host, NEW generated \in BOOLEAN,
         s.domain \in Public => host = s.domain
  PROVE  Fits(Ensured(n, host, s.cert, generated), s)
<1> DEFINE m == [n EXCEPT !.host = host]
           k == [m EXCEPT !.keys = TRUE]
<1>1. CASE n.proto = "vless-reality" /\ (n.keys \/ generated)
  <2>1. Ensured(n, host, s.cert, generated)
          = [k EXCEPT !.status = "running", !.link = Link(k)]
    BY <1>1 DEF Ensured
  <2> QED BY <1>1, <2>1 DEF Fits, Link, Node, Runnable, NeedNoCert
<1>2. CASE n.proto = "vless-reality" /\ ~(n.keys \/ generated)
  BY <1>2 DEF Ensured, Fits, Node
<1>3. CASE n.proto # "vless-reality" /\ Runnable(n.proto, s.cert)
  BY <1>3 DEF Ensured, Fits, Node, Link
<1>4. CASE n.proto # "vless-reality" /\ ~Runnable(n.proto, s.cert)
  BY <1>4 DEF Ensured, Fits, Node
<1> QED BY <1>1, <1>2, <1>3, <1>4

-----------------------------------------------------------------------------
LEMMA StartedFits ==
  ASSUME NEW d \in Saved, Linked(d.settings, d.list),
         NEW generated \in BOOLEAN, NEW host \in Addresses,
         host \in ConfiguredHost(d.settings.domain, d.settings.direct),
         NEW s, s = [d.settings EXCEPT !.domain =
                       IF NamesItself(d, host) THEN host ELSE @]
  PROVE  Linked(s, EnsuredList(d, host, generated))
<1> DEFINE ensured == [i \in 1..Len(d.list) |->
                         Ensured(d.list[i], host, d.settings.cert, generated)]
           n == NewNode("shadowsocks", host, d.settings.cert, FALSE)
<1>1. /\ Len(d.list) \in Nat /\ \A i \in 1..Len(d.list) : d.list[i] \in Node
      /\ d.settings \in Settings
  BY DEF Saved
<1>2. s.cert = d.settings.cert /\ s.done = d.settings.done
  BY <1>1 DEF Settings
<1>3. s.domain \in Public => host = s.domain
  BY <1>1, ConfiguredHostType, AddressAssumption DEF Settings
<1>4. CASE d.settings.domain = None
  <2>1. Len(d.list) = 0 /\ ~d.settings.done
    BY <1>4 DEF Linked
  <2>2. ~LacksShadowsocks(d.list) /\ ensured = <<>>
    BY <2>1 DEF LacksShadowsocks, HasProtocol
  <2>3. EnsuredList(d, host, generated) = ensured
    BY <2>2 DEF EnsuredList
  <2> QED BY <1>2, <2>1, <2>2, <2>3 DEF Linked
<1>5. CASE d.settings.domain # None
  <2>1. s.domain = d.settings.domain
    BY <1>1, <1>5 DEF NamesItself, Settings
  <2>2. \A i \in 1..Len(d.list) : Fits(d.list[i], s)
    BY <1>2, <2>1 DEF Linked, Fits
  <2>3. \A i \in 1..Len(d.list) : ensured[i] \in Node /\ Fits(ensured[i], s)
    <3> SUFFICES ASSUME NEW i \in 1..Len(d.list)
                 PROVE  ensured[i] \in Node /\ Fits(ensured[i], s)
      OBVIOUS
    <3>1. d.list[i] \in Node /\ Fits(d.list[i], s)
      BY <1>1, <2>2
    <3>2. Fits(Ensured(d.list[i], host, s.cert, generated), s)
      BY <1>3, <3>1, EnsuredFits
    <3> QED BY <1>2, <3>1, <3>2, EnsuredType
  <2>4. ensured \in [1..Len(d.list) -> Node]
    BY <2>3
  <2> HIDE DEF ensured
  <2>5. ensured \in Seq(Node) /\ Len(ensured) = Len(d.list)
    BY <1>1, <2>4, FunctionIsSeq
  <2>6. n \in Node /\ Fits(n, s)
    <3>1. "shadowsocks" \in Protocols
      BY DEF Protocols, NeedNoCert
    <3> QED BY <1>2, <1>3, <3>1, NewNodeType, NewNodeFits
  <2> HIDE DEF n
  <2>7. CASE LacksShadowsocks(d.list)
    <3>1. /\ Len(Append(ensured, n)) = Len(ensured) + 1
          /\ \A i \in 1..Len(ensured) : Append(ensured, n)[i] = ensured[i]
          /\ Append(ensured, n)[Len(ensured) + 1] = n
      BY <2>5, <2>6
    <3>2. \A i \in 1..Len(Append(ensured, n)) : Fits(Append(ensured, n)[i], s)
      BY <1>1, <2>3, <2>5, <2>6, <3>1
    <3> QED BY <1>5, <2>1, <2>7, <3>2 DEF EnsuredList, ensured, n, Linked
  <2>8. CASE ~LacksShadowsocks(d.list)
    <3>1. EnsuredList(d, host, generated) = ensured
      BY <2>8 DEF EnsuredList, ensured
    <3> QED BY <1>5, <2>1, <2>3, <2>5, <3>1 DEF Linked
  <2> QED BY <2>7, <2>8
<1> QED BY <1>4, <1>5

LEMMA LinkInvInit ==
  ASSUME Init, \A d \in FirstStates : Linked(d.settings, d.list)
  PROVE  LinkInv
<1>1. disk \in FirstStates /\ Linked(disk.settings, disk.list) /\ settings = disk.settings
  BY DEF Init
<1>2. Len(NodeList) = 0
  <2>1. nodes.len = 0 /\ nodes.len \in 0..MaxLen
    BY RecommendedAssumption DEF Init, NoSlice
  <2> QED BY <2>1, ElementList DEF NodeList, Elements
<1> QED BY <1>1, <1>2 DEF LinkInv, Linked

LEMMA LinkInvStep ==
  ASSUME Stored, Stored', LinkInv, [Next]_vars
  PROVE  LinkInv'
<1> DEFINE Written ==
      disk' = disk \/ disk' = [settings |-> settings', list |-> NodeList']
<1>1. ASSUME Linked(settings', NodeList'), Written
      PROVE  LinkInv'
  BY <1>1 DEF LinkInv
<1>2. /\ NodeList \in Seq(Node) /\ Len(NodeList) \in Nat
      /\ \A i \in 1..Len(NodeList) : NodeList[i] \in Node /\ Fits(NodeList[i], settings)
  <2>1. NodeList \in Seq(Node)
    BY StoredList
  <2> QED BY <2>1 DEF LinkInv, Linked
<1>3. ASSUME NEW p \in Handlers, Update(p)
      PROVE  Written
  BY <1>3 DEF Update, Save
<1>4. ASSUME NEW p \in Handlers, Setup(p)
      PROVE  Linked(settings', NodeList')
  <2>1. /\ settings'.domain # None
        /\ \A i \in 1..Len(NodeList') :
             Made(NodeList'[i], settings'.domain, settings'.cert)
    BY <1>4, SetupKeeps
  <2> QED BY <2>1, NewNodeFits DEF Linked, Made
<1>5. ASSUME settings.done, settings' = settings,
             \A i \in 1..Len(NodeList') : Fits(NodeList'[i], settings)
      PROVE  Linked(settings', NodeList')
  BY <1>5 DEF LinkInv, Linked
<1>6. ASSUME NEW p \in Handlers, AddNode(p)
      PROVE  Linked(settings', NodeList')
  <2>1. settings.done /\ settings \in Settings
    BY <1>6 DEF AddNode, ReceiveAuthenticated, Stored
  <2>2. /\ settings' = settings
        /\ \A i \in 1..Len(NodeList') :
             \/ IsStored(NodeList'[i])
             \/ \E host \in ConfiguredHost(settings.domain, settings.direct) :
                  Made(NodeList'[i], host, settings.cert)
    BY <1>6, AddNodeKeeps
  <2>3. \A host \in ConfiguredHost(settings.domain, settings.direct) :
          settings.domain \in Public => host = settings.domain
    BY <2>1, ConfiguredHostType DEF Settings
  <2>4. \A i \in 1..Len(NodeList') : Fits(NodeList'[i], settings)
    BY <1>2, <2>2, <2>3, NewNodeFits, ZenonT(30) DEF IsStored, Made
  <2> QED BY <1>5, <2>1, <2>2, <2>4
<1>7. ASSUME NEW p \in Handlers, RemoveNode(p)
      PROVE  Linked(settings', NodeList')
  <2>1. settings.done
    BY <1>7 DEF RemoveNode, ReceiveAuthenticated
  <2>2. settings' = settings /\ \A i \in 1..Len(NodeList') : IsStored(NodeList'[i])
    BY <1>7, RemoveNodeKeeps
  <2> QED BY <1>2, <1>5, <2>1, <2>2 DEF IsStored
<1>8. ASSUME NEW p \in Handlers, ToggleNode(p)
      PROVE  Linked(settings', NodeList')
  <2>1. settings.done
    BY <1>8 DEF ToggleNode, ReceiveAuthenticated
  <2>2. /\ settings' = settings /\ Len(NodeList') = Len(NodeList)
        /\ \A i \in 1..Len(NodeList) : \E s \in {"running", "stopped"} :
             NodeList'[i] = [NodeList[i] EXCEPT !.status = s]
    BY <1>8, ToggleNodeKeeps
  <2>3. \A i \in 1..Len(NodeList') : Fits(NodeList'[i], settings)
    <3> SUFFICES ASSUME NEW i \in 1..Len(NodeList)
                 PROVE  Fits(NodeList'[i], settings)
      BY <2>2
    <3>1. PICK s \in {"running", "stopped"} :
            NodeList'[i] = [NodeList[i] EXCEPT !.status = s]
      BY <2>2
    <3>2. NodeList[i] \in Node /\ Fits(NodeList[i], settings)
      BY <1>2
    <3>3. Fits([NodeList[i] EXCEPT !.status = s], settings)
      BY <3>2, StatusFits
    <3> QED BY <3>1, <3>3
  <2> QED BY <1>5, <2>1, <2>2, <2>3
<1>9. ASSUME NEW p \in Handlers, UpdateSettings(p)
      PROVE  Linked(settings', NodeList')
  <2>1. /\ settings'.domain # None /\ Len(NodeList') = Len(NodeList)
        /\ \A i \in 1..Len(NodeList) :
             NodeList'[i] = Relinked(NodeList[i], settings'.domain, settings'.cert)
    BY <1>9, UpdateSettingsKeeps
  <2> QED BY <1>2, <2>1, RelinkedFits DEF Linked
<1>10. ASSUME NEW p \in Handlers,
              \/ UpdateElsewhere(p) \/ SingBoxConfig(p) \/ ChainHandler(p) \/ Apply(p)
       PROVE  LinkInv'
  <2>1. UNCHANGED store
    BY <1>10 DEF UpdateElsewhere, SingBoxConfig, ChainHandler, Apply, Snapshot, RenderNode,
                 OpenConfig, ConfigInstalled, ConfigRefused, RestartService, RestartFails,
                 Return
  <2>2. settings' = settings /\ NodeList' = NodeList
    BY <2>1 DEF store, NodeList, Elements
  <2>3. Written
    BY <1>10, <2>2 DEF UpdateElsewhere, SingBoxConfig, ChainHandler, Update, Save, Apply,
                 Snapshot, RenderNode, OpenConfig, ConfigInstalled, ConfigRefused,
                 RestartService, RestartFails, Return
  <2>4. Linked(settings', NodeList')
    BY <2>2 DEF LinkInv
  <2> QED BY <1>1, <2>3, <2>4
<1>11. ASSUME NEW p \in Handlers, Start(p)
       PROVE  LinkInv'
  <2>1. PICK generated \in BOOLEAN,
             host \in ConfiguredHost(disk.settings.domain, disk.settings.direct) :
          /\ host \in Addresses
          /\ settings' = [disk.settings EXCEPT !.domain =
                            IF NamesItself(disk, host) THEN host ELSE @]
          /\ NodeList' = EnsuredList(disk, host, generated)
    BY <1>11, StartKeeps
  <2>2. disk \in Saved /\ Linked(disk.settings, disk.list)
    BY DEF Stored, LinkInv
  <2>3. Linked(settings', NodeList')
    BY <2>1, <2>2, StartedFits
  <2>4. Written
    BY <1>11, StartKeeps
  <2> QED BY <1>1, <2>3, <2>4
<1>12. CASE UNCHANGED vars
  <2>1. settings' = settings /\ disk' = disk /\ NodeList' = NodeList
    BY <1>12 DEF vars, NodeList, Elements
  <2> QED BY <2>1 DEF LinkInv
<1>13. ASSUME NEW p \in Handlers,
              \/ Setup(p) \/ AddNode(p) \/ RemoveNode(p) \/ ToggleNode(p)
              \/ UpdateSettings(p)
       PROVE  LinkInv'
  <2>1. Update(p)
    BY <1>13 DEF Setup, AddNode, RemoveNode, ToggleNode, UpdateSettings
  <2> QED BY <1>1, <1>3, <1>4, <1>6, <1>7, <1>8, <1>9, <1>13, <2>1
<1> QED BY <1>10, <1>11, <1>12, <1>13 DEF Next, Handle

(* A stored link is always one a client can use: the node may run with the
   certificate of the moment, and a link of a server with a public name says
   what the node is now. *)
THEOREM LinksStaySound ==
  ASSUME \A d \in FirstStates : Linked(d.settings, d.list)
  PROVE  Spec => []LinkSound
<1>1. Init => LinkInv
  BY LinkInvInit
<1>2. Stored /\ Stored' /\ LinkInv /\ [Next]_vars => LinkInv'
  BY LinkInvStep
<1>3. Stored /\ LinkInv => LinkSound
  <2> SUFFICES ASSUME Stored, LinkInv PROVE LinkSound
    OBVIOUS
  <2>1. Len(NodeList) = nodes.len
    BY StoredList
  <2> QED BY <2>1 DEF LinkInv, Linked, Fits, LinkSound
<1> QED BY <1>1, <1>2, <1>3, StoredAlways, PTL DEF Spec

-----------------------------------------------------------------------------
(* Types. *)

LEMMA CountType ==
  ASSUME events \in 0..MaxEvents, NEW n \in {1, 2}, Count(n)
  PROVE  events' \in 0..MaxEvents
BY EventsAssumption DEF Count

(* A slice that shows nodes has one wherever the loop of WriteConfig looks. *)
LEMMA ShownNode ==
  ASSUME NEW slice, Shows(slice), NEW k \in 0..MaxLen, k < slice.len
  PROVE  /\ k + 1 \in 1..slice.len /\ k + 1 \in 0..MaxLen
         /\ Elements(slice)[k + 1] = heap[slice.arr][k + 1]
         /\ Elements(slice)[k + 1] \in Node
<1>1. slice.len \in 0..MaxLen /\ MaxLen \in Nat
  BY RecommendedAssumption DEF Shows, Slices
<1>2. k + 1 \in 1..slice.len /\ k + 1 \in 0..MaxLen
  BY <1>1
<1> QED BY <1>2 DEF Elements, Shows

LEMMA InboundType ==
  ASSUME NEW n \in Node, NEW cert \in Public \cup {None}
  PROVE  InboundOf(n, cert) \in Inbound
BY DEF InboundOf, Inbound, Node

LEMMA TypeInit == Init => TypeOK
<1> SUFFICES ASSUME Init PROVE TypeOK
  OBVIOUS
<1>1. Stored
  BY StoredInit
<1>2. pos \in [Handlers -> 0..MaxLen] /\ events \in 0..MaxEvents
  BY RecommendedAssumption, EventsAssumption DEF Init
<1>3. File!RegisterTypeOK
  BY DEF Init, File!RegisterInit, File!RegisterTypeOK
<1>4. out \in [Handlers -> Seq(Inbound)] /\ vcert \in [Handlers -> Public \cup {None}]
  BY DEF Init
<1>5. pc \in [Handlers -> Places] /\ nodes \in Slices
  BY <1>1 DEF Init, Places, Stored, Shows
<1> QED BY <1>1, <1>2, <1>3, <1>4, <1>5 DEF Init, TypeOK, Stored, Heaps

LEMMA TypeStep ==
  ASSUME Stored, Stored', Accounted', TypeOK, [Next]_vars
  PROVE  TypeOK'
<1> DEFINE Working == /\ vcert' \in [Handlers -> Public \cup {None}]
                      /\ pos' \in [Handlers -> 0..MaxLen]
                      /\ out' \in [Handlers -> Seq(Inbound)]
           Filed == File!RegisterTypeOK'
           Rest == /\ up' \in {"down", "boot", "up"}
                   /\ svc' \in Seq(Inbound) \cup {None, Unknown}
                   /\ viewing' \subseteq Handlers /\ solo' \subseteq Handlers
                   /\ drift' \in BOOLEAN /\ revived' \in BOOLEAN
                   /\ events' \in 0..MaxEvents
<1> SUFFICES Working /\ Filed /\ Rest
  BY DEF TypeOK, Stored, Shows, Heaps, Accounted
<1>1. ASSUME UNCHANGED work
      PROVE  Working
  BY <1>1 DEF TypeOK, work
<1>2. ASSUME UNCHANGED file
      PROVE  Filed
  BY <1>2 DEF TypeOK, file, File!RegisterTypeOK
<1>3. ASSUME NEW p \in Handlers, Update(p)
      PROVE  Working /\ Filed /\ Rest
  <2>1. UNCHANGED <<up, work, file, svc, viewing, revived>>
    BY <1>3 DEF Update
  <2>2. events' \in 0..MaxEvents /\ solo' \subseteq Handlers /\ drift' \in BOOLEAN
    BY <1>3, CountType DEF Update, Save, Launch, TypeOK
  <2> QED BY <1>1, <1>2, <2>1, <2>2 DEF TypeOK
<1>4. ASSUME NEW p \in Handlers, UpdateElsewhere(p)
      PROVE  Working /\ Filed /\ Rest
  <2>1. UNCHANGED <<up, work, file, svc, viewing, history, events>>
    BY <1>4 DEF UpdateElsewhere
  <2> QED BY <1>1, <1>2, <2>1 DEF TypeOK, history
<1>5. ASSUME NEW p \in Handlers, SingBoxConfig(p)
      PROVE  Working /\ Filed /\ Rest
  <2>1. UNCHANGED <<up, work, file, svc, revived>> /\ viewing' = viewing \cup {p}
    BY <1>5 DEF SingBoxConfig
  <2>2. events' \in 0..MaxEvents /\ solo' \subseteq Handlers /\ drift' \in BOOLEAN
    BY <1>5, CountType DEF SingBoxConfig, Launch, TypeOK
  <2> QED BY <1>1, <1>2, <2>1, <2>2 DEF TypeOK
<1>6. ASSUME NEW p \in Handlers, Snapshot(p)
      PROVE  Working /\ Filed /\ Rest
  <2>1. /\ UNCHANGED <<up, pos, out, file, svc, viewing, history, events>>
        /\ vcert' = [vcert EXCEPT ![p] = settings.cert]
    BY <1>6 DEF Snapshot
  <2>2. settings.cert \in Public \cup {None}
    BY DEF Stored, Settings
  <2> QED BY <1>2, <2>1, <2>2 DEF TypeOK, history
<1>7. ASSUME NEW p \in Handlers, RenderNode(p)
      PROVE  Working /\ Filed /\ Rest
  <2> DEFINE n == Elements(view[p])[pos[p] + 1]
  <2>1. /\ UNCHANGED <<up, vcert, file, svc, viewing, history, events>>
        /\ pos[p] < view[p].len
        /\ pos' = [pos EXCEPT ![p] = @ + 1]
        /\ \/ out' = [out EXCEPT ![p] = Append(@, InboundOf(n, vcert[p]))]
           \/ out' = out
    BY <1>7 DEF RenderNode
  <2>2. n \in Node /\ pos[p] + 1 \in 0..MaxLen
    BY <2>1, ShownNode DEF Stored, TypeOK
  <2> HIDE DEF n
  <2>3. InboundOf(n, vcert[p]) \in Inbound
    BY <2>2, InboundType DEF TypeOK
  <2>4. Append(out[p], InboundOf(n, vcert[p])) \in Seq(Inbound)
    BY <2>3 DEF TypeOK
  <2> QED BY <1>2, <2>1, <2>2, <2>4 DEF TypeOK, history
<1>8. ASSUME NEW p \in Handlers, OpenConfig(p)
      PROVE  Working /\ Filed /\ Rest
  <2>1. /\ UNCHANGED <<up, svc, viewing, history, events>>
        /\ vcert' = [vcert EXCEPT ![p] = None]
        /\ pos' = [pos EXCEPT ![p] = 0]
        /\ out' = [out EXCEPT ![p] = <<>>]
        /\ File!Enter(p, out[p])
    BY <1>8 DEF OpenConfig
  <2>2. Filed
    BY <2>1 DEF TypeOK, File!Enter, File!RegisterTypeOK
  <2> QED BY <2>1, <2>2, RecommendedAssumption DEF TypeOK, history
<1>9. ASSUME NEW p \in Handlers, ConfigInstalled(p) \/ ConfigRefused(p)
      PROVE  Working /\ Filed /\ Rest
  <2>1. UNCHANGED <<up, work, svc, revived>> /\ viewing' \subseteq viewing
    BY <1>9 DEF ConfigInstalled, ConfigRefused, Return
  <2>2. File!Commit(p) \/ File!Abort(p)
    BY <1>9 DEF ConfigInstalled, ConfigRefused
  <2>3. File!Leave(p) /\ (content' = content \/ content' = arg[p])
    BY <2>2 DEF File!Commit, File!Abort
  <2>4. Filed
    BY <2>3 DEF TypeOK, File!Leave, File!RegisterTypeOK
  <2>5. events' \in 0..MaxEvents /\ solo' \subseteq solo /\ drift' \in BOOLEAN
    BY <1>9, CountType DEF ConfigInstalled, ConfigRefused, TypeOK
  <2> QED BY <1>1, <2>1, <2>4, <2>5 DEF TypeOK
<1>10. ASSUME NEW p \in Handlers, RestartService(p) \/ RestartFails(p)
       PROVE  Working /\ Filed /\ Rest
  <2>1. UNCHANGED <<work, file, viewing>> /\ up' = "up" /\ (svc' = svc \/ svc' = content)
    BY <1>10 DEF RestartService, RestartFails
  <2>2. /\ events' \in 0..MaxEvents /\ solo' \subseteq solo /\ drift' \in BOOLEAN
        /\ revived' \in BOOLEAN
    BY <1>10, CountType DEF RestartService, RestartFails, TypeOK
  <2>3. content \in Seq(Inbound) \cup {None, Unknown}
    BY DEF TypeOK, File!RegisterTypeOK
  <2> QED BY <1>1, <1>2, <2>1, <2>2, <2>3 DEF TypeOK
<1>11. ASSUME NEW p \in Handlers, Start(p)
       PROVE  Working /\ Filed /\ Rest
  <2>1. /\ UNCHANGED svc /\ viewing' = {} /\ File!Die
        /\ vcert' = [q \in Handlers |-> None]
        /\ pos' = [q \in Handlers |-> 0]
        /\ out' = [q \in Handlers |-> <<>>]
    BY <1>11 DEF Start
  <2>2. Filed
    BY <2>1 DEF TypeOK, File!Die, File!RegisterTypeOK
  <2>3. /\ up' \in {"boot", "up"} /\ solo' \subseteq {p}
        /\ drift' \in BOOLEAN /\ revived' \in BOOLEAN
    BY <1>11 DEF Start, Serve, Boot, TypeOK
  <2>4. events' \in 0..MaxEvents
    BY <1>11, CountType DEF Start, TypeOK
  <2>5. Working
    BY <2>1, RecommendedAssumption
  <2> QED BY <2>1, <2>2, <2>3, <2>4, <2>5 DEF TypeOK
<1>12. CASE UNCHANGED vars
  <2>1. UNCHANGED <<work, file>>
    BY <1>12 DEF vars, work, file
  <2>2. UNCHANGED <<up, svc, viewing, solo, drift, revived, events>>
    BY <1>12 DEF vars
  <2> QED BY <1>1, <1>2, <2>1, <2>2 DEF TypeOK
<1> HIDE DEF Working, Filed, Rest
<1>13. ASSUME NEW p \in Handlers, Handle(p)
       PROVE  Working /\ Filed /\ Rest
  BY <1>3, <1>4, <1>5, <1>13
     DEF Handle, Setup, AddNode, RemoveNode, ToggleNode, UpdateSettings, ChainHandler
<1>14. ASSUME NEW p \in Handlers, Apply(p)
       PROVE  Working /\ Filed /\ Rest
  BY <1>6, <1>7, <1>8, <1>9, <1>10, <1>14 DEF Apply
<1> QED BY <1>11, <1>12, <1>13, <1>14 DEF Next

LEMMA AccountedAlways == Spec => []Accounted
<1>1. Init => Accounted
  BY DEF Init, Accounted, Places
<1> QED BY <1>1, AccountedStep, StoredAlways, PTL DEF Spec

(* Every variable has its type, for any number of handlers. *)
THEOREM TypeCorrect == Spec => []TypeOK
BY TypeInit, TypeStep, StoredAlways, AccountedAlways, PTL DEF Spec

-----------------------------------------------------------------------------
(* What WriteConfig renders. *)

(* Its loop after the first k nodes of a list. *)
RenderedUpTo(c, list, cert, k) ==
  \E m \in 0..k :
    \E f \in [1..m -> {i \in 1..k : Served(list[i], cert)}] :
      /\ f \in Enumerations({i \in 1..k : Served(list[i], cert)})
      /\ c = [i \in 1..m |-> InboundOf(list[f[i]], cert)]

LEMMA NothingRendered ==
  ASSUME NEW list, NEW cert
  PROVE  RenderedUpTo(<<>>, list, cert, 0)
<1> DEFINE K == {i \in 1..0 : Served(list[i], cert)}
           f == [i \in 1..0 |-> 0]
<1>1. K = {} /\ f \in [1..0 -> K] /\ 0 \in 0..0 /\ 0 \in 0..MaxLen
  BY RecommendedAssumption
<1>2. f \in Enumerations(K)
  <2>1. f \in UNION {[1..m -> K] : m \in 0..MaxLen}
    BY <1>1
  <2> QED BY <1>1, <2>1 DEF Enumerations
<1>3. <<>> = [i \in 1..0 |-> InboundOf(list[f[i]], cert)]
  OBVIOUS
<1> QED BY <1>1, <1>2, <1>3 DEF RenderedUpTo

(* One more round: the node is passed over, or it is the last of those served. *)
LEMMA OneMoreRendered ==
  ASSUME NEW list \in Seq(Node), NEW cert \in Public \cup {None},
         NEW k \in Nat, k < Len(list), k < MaxLen,
         NEW c \in Seq(Inbound), RenderedUpTo(c, list, cert, k)
  PROVE  LET n == list[k + 1] IN
         RenderedUpTo(IF Served(n, cert) THEN Append(c, InboundOf(n, cert)) ELSE c,
                      list, cert, k + 1)
<1> DEFINE K == {i \in 1..k : Served(list[i], cert)}
           L == {i \in 1..(k + 1) : Served(list[i], cert)}
           n == list[k + 1]
<1>1. PICK m \in 0..k : \E f \in [1..m -> K] :
        f \in Enumerations(K) /\ c = [i \in 1..m |-> InboundOf(list[f[i]], cert)]
  BY DEF RenderedUpTo
<1>2. PICK f \in [1..m -> K] :
        f \in Enumerations(K) /\ c = [i \in 1..m |-> InboundOf(list[f[i]], cert)]
  BY <1>1
<1>3. m \in Nat /\ m + 1 \in 0..(k + 1) /\ m + 1 \in 0..MaxLen /\ m \in 0..(k + 1)
  BY RecommendedAssumption
<1>4. /\ \A i, j \in 1..m : i < j => f[i] < f[j]
      /\ \A j \in K : \E i \in 1..m : f[i] = j
  BY <1>2 DEF Enumerations
<1>5. CASE ~Served(n, cert)
  <2>1. L = K
    BY <1>5
  <2> HIDE DEF K, L
  <2>2. f \in [1..m -> L] /\ f \in Enumerations(L)
    BY <1>2, <2>1
  <2> QED BY <1>2, <1>3, <1>5, <2>2 DEF RenderedUpTo, L
<1>6. CASE Served(n, cert)
  <2> DEFINE g == [i \in 1..(m + 1) |-> IF i = m + 1 THEN k + 1 ELSE f[i]]
  <2>1. L = K \cup {k + 1} /\ \A i \in K : i \in Nat /\ i < k + 1
    BY <1>6
  <2>2. \A i \in 1..(m + 1) : i = m + 1 \/ i \in 1..m
    BY <1>3
  <2>3. \A i \in 1..m : i # m + 1 /\ i \in 1..(m + 1) /\ f[i] \in K
    BY <1>3
  <2>4. m + 1 \in 1..(m + 1)
    BY <1>3
  <2>5. /\ \A i \in 1..m : g[i] = f[i]
        /\ g[m + 1] = k + 1 /\ DOMAIN g = 1..(m + 1)
    BY <2>3, <2>4
  <2>6. g \in [1..(m + 1) -> L]
    <3> HIDE DEF K, L
    <3> QED BY <2>1, <2>2, <2>3
  <2> HIDE DEF g, K, L
  <2>7. g \in Enumerations(L)
    <3>1. g \in UNION {[1..j -> L] : j \in 0..MaxLen}
      BY <1>3, <2>6
    <3>2. ASSUME NEW i \in 1..(m + 1), NEW j \in 1..(m + 1), i < j
          PROVE  g[i] < g[j]
      <4>1. i \in 1..m
        BY <1>3, <3>2
      <4>2. CASE j = m + 1
        BY <2>1, <2>3, <2>5, <4>1, <4>2
      <4>3. CASE j \in 1..m
        BY <1>4, <2>5, <3>2, <4>1, <4>3
      <4> QED BY <2>2, <4>2, <4>3
    <3>3. \A l \in L : \E i \in 1..(m + 1) : g[i] = l
      <4>1. ASSUME NEW l \in K PROVE \E i \in 1..(m + 1) : g[i] = l
        <5>1. PICK i \in 1..m : f[i] = l
          BY <1>4
        <5> QED BY <2>3, <2>5, <5>1
      <4> QED BY <2>1, <2>4, <2>5, <4>1
    <3> QED BY <2>5, <3>1, <3>2, <3>3 DEF Enumerations
  <2>8. Append(c, InboundOf(n, cert)) = [i \in 1..(m + 1) |-> InboundOf(list[g[i]], cert)]
    <3> DEFINE more == Append(c, InboundOf(n, cert))
    <3>1. Len(c) = m /\ \A i \in 1..m : c[i] = InboundOf(list[f[i]], cert)
      BY <1>2, <1>3
    <3>2. /\ DOMAIN more = 1..(m + 1) /\ more = [i \in 1..(m + 1) |-> more[i]]
          /\ \A i \in 1..m : more[i] = c[i]
          /\ more[m + 1] = InboundOf(n, cert)
      BY <1>3, <3>1
    <3>3. \A i \in 1..(m + 1) : more[i] = InboundOf(list[g[i]], cert)
      <4> HIDE DEF more
      <4> QED BY <2>2, <2>5, <3>1, <3>2
    <3> HIDE DEF more
    <3>4. more = [i \in 1..(m + 1) |-> InboundOf(list[g[i]], cert)]
      BY <3>2, <3>3
    <3> QED BY <3>4 DEF more
  <2>9. RenderedUpTo(Append(c, InboundOf(n, cert)), list, cert, k + 1)
    BY <1>3, <2>6, <2>7, <2>8 DEF RenderedUpTo, L
  <2> QED BY <1>6, <2>9
<1> QED BY <1>5, <1>6

LEMMA AllRendered ==
  ASSUME NEW list \in Seq(Node), NEW cert, NEW c, RenderedUpTo(c, list, cert, Len(list))
  PROVE  Rendered(c, list, cert)
<1> DEFINE K == {i \in 1..Len(list) : Served(list[i], cert)}
<1>1. PICK m \in 0..Len(list) : \E f \in [1..m -> K] :
        f \in Enumerations(K) /\ c = [i \in 1..m |-> InboundOf(list[f[i]], cert)]
  BY DEF RenderedUpTo
<1>2. PICK f \in [1..m -> K] :
        f \in Enumerations(K) /\ c = [i \in 1..m |-> InboundOf(list[f[i]], cert)]
  BY <1>1
<1>3. DOMAIN f = 1..m
  OBVIOUS
<1> QED BY <1>2, <1>3 DEF Rendered

(* Two lists in which the same places are served the same way. *)
LEMMA SameRendering ==
  ASSUME NEW c, NEW one, NEW other, NEW cert, Rendered(c, one, cert),
         Len(one) = Len(other),
         \A i \in 1..Len(one) :
           /\ Served(one[i], cert) <=> Served(other[i], cert)
           /\ Served(one[i], cert) => InboundOf(one[i], cert) = InboundOf(other[i], cert)
  PROVE  Rendered(c, other, cert)
<1> DEFINE K == {i \in 1..Len(one) : Served(one[i], cert)}
           L == {i \in 1..Len(other) : Served(other[i], cert)}
<1>1. K = L
  OBVIOUS
<1>2. PICK f \in Enumerations(K) : c = [i \in DOMAIN f |-> InboundOf(one[f[i]], cert)]
  BY DEF Rendered
<1>3. \A i \in DOMAIN f : f[i] \in K
  <2>1. PICK m \in 0..MaxLen : f \in [1..m -> K]
    BY DEF Enumerations
  <2> QED BY <2>1
<1>4. c = [i \in DOMAIN f |-> InboundOf(other[f[i]], cert)]
  <2>1. \A i \in DOMAIN f : InboundOf(one[f[i]], cert) = InboundOf(other[f[i]], cert)
    BY <1>3
  <2> QED BY <1>2, <2>1
<1> HIDE DEF K
<1> QED BY <1>1, <1>2, <1>4 DEF Rendered

(* A start that reports no change and revives nothing leaves every node, in the eyes
   of WriteConfig, what it was. *)
LEMMA EnsuredTheSame ==
  ASSUME NEW n \in Node, NEW host \in Addresses, NEW cert, NEW generated \in BOOLEAN,
         ~CountsAsChange(n, cert, generated),
         n.status = "stopped" => Ensured(n, host, cert, generated).status # "running"
  PROVE  LET e == Ensured(n, host, cert, generated) IN
         /\ Served(n, cert) <=> Served(e, cert)
         /\ InboundOf(n, cert) = InboundOf(e, cert)
<1> DEFINE m == [n EXCEPT !.host = host]
           k == [m EXCEPT !.keys = TRUE]
           e == Ensured(n, host, cert, generated)
<1>1. n.status \in {"running", "stopped"} /\ n.keys \in BOOLEAN
  BY DEF Node
<1> SUFFICES e.status = n.status /\ e.proto = n.proto /\ e.keys = n.keys
  BY DEF Served, InboundOf
<1>2. CASE n.proto = "vless-reality" /\ (n.keys \/ generated)
  <2>1. e = [k EXCEPT !.status = "running", !.link = Link(k)]
    BY <1>2 DEF Ensured
  <2>2. e.status = "running" /\ e.proto = n.proto /\ e.keys = TRUE
    BY <2>1 DEF Node
  <2>3. n.keys
    BY <1>2 DEF CountsAsChange
  <2> QED BY <1>1, <2>2, <2>3
<1>3. CASE n.proto = "vless-reality" /\ ~(n.keys \/ generated)
  <2>1. e = [m EXCEPT !.status = "stopped", !.link = None]
    BY <1>3 DEF Ensured
  <2>2. n.status # "running"
    BY <1>3 DEF CountsAsChange
  <2> QED BY <1>1, <2>1, <2>2 DEF Node
<1>4. CASE n.proto # "vless-reality" /\ Runnable(n.proto, cert)
  <2>1. e = IF n.status = "running" THEN [m EXCEPT !.link = Link(m)] ELSE m
    BY <1>4 DEF Ensured
  <2> QED BY <2>1 DEF Node
<1>5. CASE n.proto # "vless-reality" /\ ~Runnable(n.proto, cert)
  <2>1. e = [m EXCEPT !.status = "stopped", !.link = None]
    BY <1>5 DEF Ensured
  <2>2. n.status # "running"
    BY <1>5 DEF CountsAsChange
  <2> QED BY <1>1, <2>1, <2>2 DEF Node
<1> QED BY <1>2, <1>3, <1>4, <1>5

LEMMA QuietStart ==
  ASSUME NEW d \in Saved, NEW host \in Addresses, NEW generated \in BOOLEAN,
         ~EnsureChanges(d, host, generated),
         NothingRevived(d.list, EnsuredList(d, host, generated)),
         NEW c, Rendered(c, d.list, d.settings.cert)
  PROVE  Rendered(c, EnsuredList(d, host, generated), d.settings.cert)
<1> DEFINE list == EnsuredList(d, host, generated)
           cert == d.settings.cert
<1>1. Len(d.list) \in Nat /\ \A i \in 1..Len(d.list) : d.list[i] \in Node
  BY DEF Saved
<1>2. list = [i \in 1..Len(d.list) |-> Ensured(d.list[i], host, cert, generated)]
  BY DEF EnsureChanges, EnsuredList
<1>3. /\ \A i \in 1..Len(d.list) : ~CountsAsChange(d.list[i], cert, generated)
      /\ \A i \in 1..Len(d.list) : d.list[i].status = "stopped" => list[i].status # "running"
  BY DEF EnsureChanges, NothingRevived
<1> HIDE DEF list, cert
<1>4. Len(list) = Len(d.list)
  <2>1. \A i \in 1..Len(d.list) : Ensured(d.list[i], host, cert, generated) \in Node
    BY <1>1, EnsuredType
  <2>2. list \in [1..Len(d.list) -> Node]
    BY <1>2, <2>1
  <2> QED BY <1>1, <2>2, FunctionIsSeq
<1>5. \A i \in 1..Len(d.list) : list[i] = Ensured(d.list[i], host, cert, generated)
  BY <1>2
<1>6. \A i \in 1..Len(d.list) :
        /\ Served(d.list[i], cert) <=> Served(list[i], cert)
        /\ InboundOf(d.list[i], cert) = InboundOf(list[i], cert)
  BY <1>1, <1>3, <1>5, EnsuredTheSame
<1>7. Rendered(c, d.list, cert)
  BY DEF cert
<1>8. Rendered(c, list, cert)
  BY <1>4, <1>6, <1>7, SameRendering
<1> QED BY <1>8 DEF list, cert

-----------------------------------------------------------------------------
(* A pipeline that has met no other has had the store and the file to itself. *)

Alone ==
  /\ \A p \in Handlers : pc[p] # "render" => pos[p] = 0 /\ out[p] = <<>>
  /\ inside = {p \in Handlers : pc[p] = "writing"}
  /\ viewing \subseteq Busy
  /\ \A p \in solo : Busy = {p} /\ (pc[p] = "writing" => p \in sole)
  /\ ~drift => Busy \subseteq solo

LEMMA BusyAfter ==
  ASSUME pc \in [Handlers -> Places], NEW p \in Handlers, NEW place, Goto(p, place)
  PROVE  /\ place # "idle" => Busy' = Busy \cup {p}
         /\ place = "idle" => Busy' = Busy \ {p}
         /\ pc'[p] = place /\ \A q \in Handlers : q # p => pc'[q] = pc[q]
BY DEF Goto, Busy

LEMMA AloneInit == Init => Alone
BY DEF Init, Alone, Busy, File!RegisterInit

LEMMA AloneStep ==
  ASSUME TypeOK, Accounted, Alone, [Next]_vars
  PROVE  Alone'
<1>1. /\ pc \in [Handlers -> Places] /\ pos \in [Handlers -> 0..MaxLen]
      /\ out \in [Handlers -> Seq(Inbound)] /\ solo \subseteq Handlers
      /\ inside \subseteq Handlers /\ sole \subseteq inside
  BY DEF TypeOK, File!RegisterTypeOK
<1>2. ASSUME NEW p \in Handlers, Launch(p), pc[p] = "idle",
             UNCHANGED <<pos, out, inside, sole>>, viewing' \subseteq viewing \cup {p}
      PROVE  Alone'
  <2>1. /\ Busy' = Busy \cup {p} /\ pc'[p] = "snapshot"
        /\ \A q \in Handlers : q # p => pc'[q] = pc[q]
    BY <1>1, <1>2, BusyAfter DEF Launch
  <2>2. /\ \A q \in Handlers : pc'[q] # "render" => pos[q] = 0 /\ out[q] = <<>>
        /\ inside = {q \in Handlers : pc'[q] = "writing"}
    BY <1>2, <2>1 DEF Alone
  <2>3. solo' = (IF Busy = {} THEN {p} ELSE {}) /\ (~drift' => Busy = {})
    BY <1>2 DEF Launch
  <2>4. viewing' \subseteq Busy'
    BY <1>2, <2>1 DEF Alone
  <2> QED BY <1>2, <2>1, <2>2, <2>3, <2>4 DEF Alone
<1>3. ASSUME UNCHANGED <<pc, pos, out, inside, sole, viewing>>,
             \/ solo' = {} /\ drift' = TRUE
             \/ solo' = solo /\ drift' = drift
      PROVE  Alone'
  <2>1. Busy' = Busy
    BY <1>3 DEF Busy
  <2> QED BY <1>3, <2>1 DEF Alone
<1>4. ASSUME NEW p \in Handlers, Update(p), pc[p] = "idle"
      PROVE  Alone'
  <2>1. UNCHANGED <<pos, out, inside, sole, viewing>>
    BY <1>4 DEF Update, work, file
  <2>2. Launch(p) \/ (solo' = {} /\ drift' = TRUE /\ UNCHANGED pc)
    BY <1>4 DEF Update, Save
  <2> QED BY <1>2, <1>3, <1>4, <2>1, <2>2
<1>5. ASSUME NEW p \in Handlers, Handle(p)
      PROVE  Alone'
  <2>1. CASE UpdateElsewhere(p)
    BY <1>3, <2>1 DEF UpdateElsewhere, work, file, history
  <2>2. CASE SingBoxConfig(p)
    BY <1>2, <2>2 DEF SingBoxConfig, work, file, ReceiveAuthenticated, Receive
  <2>3. CASE ~UpdateElsewhere(p) /\ ~SingBoxConfig(p)
    <3>1. Update(p) /\ pc[p] = "idle"
      BY <1>5, <2>3 DEF Handle, Setup, AddNode, RemoveNode, ToggleNode, UpdateSettings,
                        ChainHandler, ReceiveAuthenticated, Receive
    <3> QED BY <1>4, <3>1
  <2> QED BY <2>1, <2>2, <2>3
<1>6. ASSUME NEW p \in Handlers, pc[p] # "idle", NEW place \in Places \ {"idle"},
             Goto(p, place), UNCHANGED <<viewing, solo, drift>>,
             \A q \in Handlers : pc'[q] # "render" => pos'[q] = 0 /\ out'[q] = <<>>,
             inside' = {q \in Handlers : pc'[q] = "writing"},
             p \in solo /\ pc'[p] = "writing" => p \in sole'
      PROVE  Alone'
  <2>1. Busy' = Busy
    BY <1>1, <1>6, BusyAfter DEF Busy
  <2>2. \A q \in solo : q = p
    BY <1>6 DEF Alone, Busy
  <2> QED BY <1>6, <2>1, <2>2 DEF Alone
<1>7. ASSUME NEW p \in Handlers, Snapshot(p)
      PROVE  Alone'
  <2>1. /\ pc[p] = "snapshot" /\ Goto(p, "render")
        /\ UNCHANGED <<pos, out, inside, sole, viewing, solo, drift>>
    BY <1>7 DEF Snapshot, file, history
  <2>2. pc'[p] = "render" /\ \A q \in Handlers : q # p => pc'[q] = pc[q]
    BY <1>1, <2>1, BusyAfter
  <2>3. /\ \A q \in Handlers : pc'[q] # "render" => pos[q] = 0 /\ out[q] = <<>>
        /\ inside = {q \in Handlers : pc'[q] = "writing"}
    BY <2>1, <2>2 DEF Alone
  <2> QED BY <1>6, <2>1, <2>2, <2>3 DEF Places
<1>8. ASSUME NEW p \in Handlers, RenderNode(p)
      PROVE  Alone'
  <2>1. /\ pc[p] = "render"
        /\ UNCHANGED <<pc, inside, sole, viewing, solo, drift>>
        /\ \A q \in Handlers : q # p => pos'[q] = pos[q] /\ out'[q] = out[q]
    BY <1>1, <1>8 DEF RenderNode, file, history
  <2>2. Busy' = Busy
    BY <2>1 DEF Busy
  <2> QED BY <2>1, <2>2 DEF Alone
<1>9. ASSUME NEW p \in Handlers, OpenConfig(p)
      PROVE  Alone'
  <2>1. /\ pc[p] = "render" /\ Goto(p, "writing")
        /\ pos' = [pos EXCEPT ![p] = 0] /\ out' = [out EXCEPT ![p] = <<>>]
        /\ UNCHANGED <<viewing, solo, drift>>
        /\ inside' = inside \cup {p} /\ (inside = {} => sole' = {p})
    BY <1>9 DEF OpenConfig, history, File!Enter
  <2>2. pc'[p] = "writing" /\ \A q \in Handlers : q # p => pc'[q] = pc[q]
    BY <1>1, <2>1, BusyAfter
  <2>3. \A q \in Handlers : pc'[q] # "render" => pos'[q] = 0 /\ out'[q] = <<>>
    BY <1>1, <2>1, <2>2 DEF Alone
  <2>4. inside' = {q \in Handlers : pc'[q] = "writing"}
    BY <1>1, <2>1, <2>2 DEF Alone
  <2>5. p \in solo => p \in sole'
    <3> SUFFICES ASSUME p \in solo PROVE inside = {}
      BY <2>1
    <3>1. Busy = {p}
      BY DEF Alone
    <3> QED BY <2>1, <3>1 DEF Alone, Busy
  <2> QED BY <1>6, <2>1, <2>3, <2>4, <2>5 DEF Places
<1>10. ASSUME NEW p \in Handlers, ConfigInstalled(p) \/ ConfigRefused(p)
       PROVE  Alone'
  <2> DEFINE place == IF p \in viewing THEN "idle" ELSE "restart"
  <2>1. /\ pc[p] = "writing" /\ Goto(p, place) /\ viewing' = viewing \ {p}
        /\ UNCHANGED <<pos, out>>
        /\ inside' = inside \ {p} /\ sole' = sole \ {p}
    BY <1>10 DEF ConfigInstalled, ConfigRefused, Return, work, File!Commit, File!Abort,
                 File!Leave
  <2>2. /\ solo' \subseteq solo
        /\ p \in viewing => solo' = solo \ {p}
        /\ ~drift' => ~drift /\ (p \in viewing \/ solo' = solo)
    <3>1. CASE ConfigInstalled(p)
      BY <3>1 DEF ConfigInstalled
    <3>2. CASE ConfigRefused(p)
      <4>1. solo' = solo \ {p}
        BY <3>2 DEF ConfigRefused
      <4>2. ~drift' => ~drift /\ p \in viewing
        BY <3>2 DEF ConfigRefused
      <4> QED BY <4>1, <4>2
    <3> QED BY <1>10, <3>1, <3>2
  <2> HIDE DEF place
  <2>3. /\ place # "idle" => Busy' = Busy \cup {p}
        /\ place = "idle" => Busy' = Busy \ {p}
        /\ pc'[p] = place /\ \A q \in Handlers : q # p => pc'[q] = pc[q]
    BY <1>1, <2>1, BusyAfter
  <2>4. place \in {"idle", "restart"} /\ (place = "idle" <=> p \in viewing) /\ p \in Busy
    BY <2>1 DEF place, Busy
  <2>5. \A q \in Handlers : pc'[q] # "render" => pos[q] = 0 /\ out[q] = <<>>
    BY <2>1, <2>3 DEF Alone
  <2>6. inside' = {q \in Handlers : pc'[q] = "writing"}
    BY <2>1, <2>3, <2>4 DEF Alone
  <2>7. viewing' \subseteq Busy'
    BY <2>1, <2>3, <2>4 DEF Alone
  <2>8. \A q \in solo' : q = p
    BY <2>2, <2>4 DEF Alone
  <2>9. \A q \in solo' : Busy' = {q} /\ (pc'[q] = "writing" => q \in sole')
    BY <2>2, <2>3, <2>4, <2>8 DEF Alone
  <2>10. ~drift' => Busy' \subseteq solo'
    BY <2>2, <2>3, <2>4 DEF Alone
  <2> QED BY <2>1, <2>5, <2>6, <2>7, <2>9, <2>10 DEF Alone
<1>11. ASSUME NEW p \in Handlers, RestartService(p) \/ RestartFails(p)
       PROVE  Alone'
  <2>1. /\ pc[p] = "restart" /\ Goto(p, "idle")
        /\ UNCHANGED <<pos, out, inside, sole, viewing>>
        /\ solo' = solo \ {p} /\ (~drift' => ~drift \/ p \in solo)
    BY <1>11 DEF RestartService, RestartFails, work, file
  <2>2. /\ Busy' = Busy \ {p} /\ pc'[p] = "idle"
        /\ \A q \in Handlers : q # p => pc'[q] = pc[q]
    BY <1>1, <2>1, BusyAfter
  <2>3. p \notin viewing /\ p \in Busy
    BY <2>1 DEF Accounted, Busy
  <2>4. /\ \A q \in Handlers : pc'[q] # "render" => pos[q] = 0 /\ out[q] = <<>>
        /\ inside = {q \in Handlers : pc'[q] = "writing"}
    BY <2>1, <2>2 DEF Alone
  <2>5. solo' = {}
    BY <2>1, <2>3 DEF Alone
  <2>6. ~drift' => Busy' = {}
    BY <2>1, <2>2, <2>3 DEF Alone
  <2> QED BY <2>1, <2>2, <2>3, <2>4, <2>5, <2>6 DEF Alone
<1>12. ASSUME NEW p \in Handlers, Start(p)
       PROVE  Alone'
  <2>1. /\ viewing' = {} /\ inside' = {} /\ sole' = {}
        /\ pos' = [q \in Handlers |-> 0] /\ out' = [q \in Handlers |-> <<>>]
    BY <1>12 DEF Start, File!Die
  <2>2. \/ pc' = [q \in Handlers |-> "idle"] /\ solo' = {}
        \/ pc' = [q \in Handlers |-> IF q = p THEN "snapshot" ELSE "idle"] /\ solo' = {p}
    BY <1>12 DEF Start, Serve, Boot
  <2>3. Busy' = solo'
    BY <2>2 DEF Busy
  <2> QED BY <2>1, <2>2, <2>3 DEF Alone
<1>13. CASE UNCHANGED vars
  BY <1>3, <1>13 DEF vars
<1> QED
  BY <1>5, <1>7, <1>8, <1>9, <1>10, <1>11, <1>12, <1>13 DEF Next, Apply

-----------------------------------------------------------------------------
(* The configuration follows the store. *)

(* What the service should have: the rendering of the store, accepted by sing-box. *)
Good(c) == Current(c) /\ SingBoxAccepts(c)

Followed ==
  /\ \A p \in solo :
       /\ pc[p] = "render" =>
            /\ view[p] = nodes /\ vcert[p] = settings.cert
            /\ pos[p] <= nodes.len
            /\ RenderedUpTo(out[p], NodeList, settings.cert, pos[p])
       /\ pc[p] = "writing" => Current(arg[p])
       /\ pc[p] = "restart" => Good(content)
  /\ ~drift /\ ~revived /\ (Busy = {} \/ viewing # {}) => Good(content) /\ Good(svc)

LEMMA FollowedInit == Init => Followed
BY DEF Init, Followed

(* A handler's transaction clears the stage: whoever was alone is not any more. *)
LEMMA FollowedLaunch ==
  ASSUME TypeOK, Alone, Followed, NEW p \in Handlers, pc[p] = "idle",
         \/ Launch(p)
         \/ solo' = {} /\ drift' = TRUE
  PROVE  \A q \in solo' : pc'[q] = "snapshot"
BY BusyAfter DEF TypeOK, Launch

LEMMA SameStore ==
  ASSUME UNCHANGED store
  PROVE  /\ NodeList' = NodeList
         /\ \A c : (Current(c)' <=> Current(c)) /\ (Good(c)' <=> Good(c))
BY DEF store, NodeList, Elements, Current, Good

LEMMA FollowedStep ==
  ASSUME Stored, TypeOK, Accounted, Alone, Alone', Followed, [Next]_vars
  PROVE  Followed'
<1>1. /\ pc \in [Handlers -> Places] /\ pos \in [Handlers -> 0..MaxLen]
      /\ out \in [Handlers -> Seq(Inbound)] /\ solo \subseteq Handlers
      /\ view \in [Handlers -> Slices] /\ vcert \in [Handlers -> Public \cup {None}]
      /\ arg \in [Handlers -> Seq(Inbound) \cup {None}]
  BY DEF TypeOK, File!RegisterTypeOK
<1>2. /\ NodeList \in Seq(Node) /\ Len(NodeList) = nodes.len /\ nodes.len \in 0..MaxLen
      /\ settings.cert \in Public \cup {None} /\ MaxLen \in Nat
  BY StoredList, RecommendedAssumption DEF Stored, Settings
<1>3. ASSUME NEW p \in Handlers, Update(p), pc[p] = "idle"
      PROVE  Followed'
  <2>1. UNCHANGED viewing
    BY <1>3 DEF Update
  <2>2. Launch(p) \/ (solo' = {} /\ drift' = TRUE)
    BY <1>3 DEF Update, Save
  <2>3. \A q \in solo' : pc'[q] = "snapshot"
    BY <1>3, <2>2, FollowedLaunch
  <2>4. ~drift' => Busy = {} /\ Busy' = Busy \cup {p}
    BY <1>1, <2>2, BusyAfter DEF Launch
  <2>5. ~drift' => ~(Busy' = {} \/ viewing' # {})
    BY <2>1, <2>4 DEF Alone
  <2> QED BY <2>3, <2>5 DEF Followed
<1>4. ASSUME NEW p \in Handlers, UpdateElsewhere(p)
      PROVE  Followed'
  <2>1. UNCHANGED <<store, pc, work, file, svc, viewing, history>>
    BY <1>4 DEF UpdateElsewhere
  <2>2. /\ UNCHANGED <<settings, nodes, pc, view, vcert, pos, out, content, arg, svc,
                       viewing, solo, drift, revived>>
        /\ Busy' = Busy
    BY <2>1 DEF store, work, file, history, Busy
  <2> QED BY <2>1, <2>2, SameStore DEF Followed
<1>5. ASSUME NEW p \in Handlers, SingBoxConfig(p)
      PROVE  Followed'
  <2>1. UNCHANGED <<store, file, svc, revived>> /\ Launch(p) /\ pc[p] = "idle"
    BY <1>5 DEF SingBoxConfig, ReceiveAuthenticated, Receive
  <2>2. \A q \in solo' : pc'[q] = "snapshot"
    BY <2>1, FollowedLaunch
  <2>3. ~drift' => ~drift /\ Busy = {}
    BY <2>1 DEF Launch
  <2>4. ~drift' /\ ~revived' => Good(content) /\ Good(svc)
    BY <2>1, <2>3 DEF Followed
  <2>5. ~drift' /\ ~revived' => Good(content)' /\ Good(svc)'
    BY <2>1, <2>4, SameStore DEF file
  <2> QED BY <2>2, <2>5 DEF Followed
<1>6. ASSUME NEW p \in Handlers, Handle(p)
      PROVE  Followed'
  <2>1. CASE ~UpdateElsewhere(p) /\ ~SingBoxConfig(p)
    <3>1. Update(p) /\ pc[p] = "idle"
      BY <1>6, <2>1 DEF Handle, Setup, AddNode, RemoveNode, ToggleNode, UpdateSettings,
                        ChainHandler, ReceiveAuthenticated, Receive
    <3> QED BY <1>3, <3>1
  <2> QED BY <1>4, <1>5, <2>1
<1>7. ASSUME NEW p \in Handlers, Snapshot(p)
      PROVE  Followed'
  <2>1. /\ UNCHANGED <<store, pos, out, file, svc, viewing, history>>
        /\ pc[p] = "snapshot" /\ Goto(p, "render")
        /\ view'[p] = nodes /\ vcert'[p] = settings.cert
    BY <1>1, <1>7 DEF Snapshot
  <2>2. /\ Busy' = Busy \cup {p} /\ pc'[p] = "render" /\ p \in Busy
        /\ \A q \in solo' : q = p
    BY <1>1, <1>7, <2>1, BusyAfter DEF Busy, Alone, history
  <2>3. UNCHANGED <<settings, nodes, content, svc, viewing, solo, drift, revived>>
    BY <2>1 DEF store, file, history
  <2>4. pos[p] = 0 /\ out[p] = <<>>
    BY <2>1 DEF Alone
  <2>5. RenderedUpTo(out[p], NodeList, settings.cert, pos[p])
    BY <2>4, NothingRendered
  <2>6. NodeList' = NodeList
    BY <2>1, SameStore
  <2>7. Good(content) /\ Good(svc) => Good(content)' /\ Good(svc)'
    BY <2>1, <2>3, SameStore
  <2>8. ~drift' /\ ~revived' /\ (Busy' = {} \/ viewing' # {}) => Good(content)' /\ Good(svc)'
    BY <2>2, <2>3, <2>7 DEF Followed
  <2>9. pos'[p] <= nodes'.len
    BY <1>2, <2>1, <2>3, <2>4
  <2> QED BY <2>1, <2>2, <2>3, <2>5, <2>6, <2>8, <2>9 DEF Followed
<1>8. ASSUME NEW p \in Handlers, RenderNode(p)
      PROVE  Followed'
  <2> DEFINE n == Elements(view[p])[pos[p] + 1]
  <2>1. /\ UNCHANGED <<store, pc, view, vcert, file, svc, viewing, history>>
        /\ pc[p] = "render" /\ pos[p] < view[p].len
        /\ pos'[p] = pos[p] + 1
        /\ out'[p] = IF Served(n, vcert[p]) THEN Append(out[p], InboundOf(n, vcert[p]))
                     ELSE out[p]
    BY <1>1, <1>8 DEF RenderNode
  <2>2. UNCHANGED <<settings, nodes, content, svc, viewing, solo, drift, revived>>
        /\ Busy' = Busy /\ NodeList' = NodeList
    BY <2>1, SameStore DEF store, file, history, Busy
  <2>3. ~drift' /\ ~revived' /\ (Busy' = {} \/ viewing' # {}) => Good(content)' /\ Good(svc)'
    BY <2>1, <2>2, SameStore DEF Followed
  <2>4. \A q \in solo' : q = p
    BY <2>1, <2>2 DEF Alone, Busy
  <2>5. CASE p \in solo
    <3>1. /\ view[p] = nodes /\ vcert[p] = settings.cert
          /\ RenderedUpTo(out[p], NodeList, settings.cert, pos[p])
      BY <2>1, <2>5 DEF Followed
    <3>2. n = NodeList[pos[p] + 1]
      BY <3>1 DEF NodeList
    <3> HIDE DEF n
    <3>3. /\ pos[p] \in Nat /\ pos[p] < Len(NodeList) /\ pos[p] < MaxLen
          /\ pos[p] + 1 <= nodes.len
      BY <1>1, <1>2, <2>1, <3>1
    <3>4. out[p] \in Seq(Inbound)
      BY <1>1
    <3>5. RenderedUpTo(out'[p], NodeList, settings.cert, pos[p] + 1)
      BY <1>2, <2>1, <3>1, <3>2, <3>3, <3>4, OneMoreRendered
    <3>6. RenderedUpTo(out'[p], NodeList', settings'.cert, pos'[p])
      BY <2>1, <2>2, <3>5
    <3>7. pos'[p] <= nodes'.len
      BY <2>1, <2>2, <3>3
    <3> QED BY <2>1, <2>2, <2>3, <2>4, <3>1, <3>6, <3>7 DEF Followed
  <2>6. CASE p \notin solo
    BY <2>2, <2>3, <2>4, <2>6 DEF Followed
  <2> QED BY <2>5, <2>6
<1>9. ASSUME NEW p \in Handlers, OpenConfig(p)
      PROVE  Followed'
  <2>1. /\ pc[p] = "render" /\ pos[p] = view[p].len /\ Goto(p, "writing")
        /\ File!Enter(p, out[p])
        /\ UNCHANGED <<store, svc, viewing, history>>
    BY <1>9 DEF OpenConfig
  <2>2. UNCHANGED <<settings, nodes, svc, viewing, solo, drift, revived>>
        /\ NodeList' = NodeList
    BY <2>1, SameStore DEF store, history
  <2>3. /\ Busy' = Busy \cup {p} /\ pc'[p] = "writing" /\ p \in Busy
        /\ \A q \in solo : q = p
    BY <1>1, <2>1, BusyAfter DEF Busy, Alone
  <2>4. arg'[p] = out[p] /\ (inside = {} => content' = content)
    BY <1>1, <2>1 DEF File!Enter
  <2>5. p \in solo => inside = {}
    BY <2>1, <2>3 DEF Alone, Busy
  <2>6. p \in solo => Current(arg[p])'
    <3> SUFFICES ASSUME p \in solo PROVE Current(arg[p])'
      OBVIOUS
    <3>1. view[p] = nodes /\ RenderedUpTo(out[p], NodeList, settings.cert, pos[p])
      BY <2>1 DEF Followed
    <3>2. pos[p] = Len(NodeList)
      BY <1>2, <2>1, <3>1
    <3>3. Rendered(out[p], NodeList, settings.cert)
      BY <1>2, <3>1, <3>2, AllRendered
    <3> QED BY <2>2, <2>4, <3>3 DEF Current
  <2>7. ~drift' /\ ~revived' /\ (Busy' = {} \/ viewing' # {}) => Good(content)' /\ Good(svc)'
    <3> SUFFICES ASSUME ~drift, ~revived, viewing # {} PROVE Good(content)' /\ Good(svc)'
      BY <2>2, <2>3
    <3>1. Good(content) /\ Good(svc)
      BY DEF Followed
    <3>2. p \in solo
      BY <2>3 DEF Alone
    <3>3. content' = content /\ svc' = svc
      BY <2>2, <2>4, <2>5, <3>2
    <3> QED BY <2>1, <3>1, <3>3, SameStore
  <2> QED BY <2>2, <2>3, <2>6, <2>7 DEF Followed
<1>10. ASSUME NEW p \in Handlers, ConfigInstalled(p)
       PROVE  Followed'
  <2> DEFINE place == IF p \in viewing THEN "idle" ELSE "restart"
  <2>1. /\ pc[p] = "writing" /\ Goto(p, place) /\ UNCHANGED <<store, svc, revived, drift>>
        /\ viewing' = viewing \ {p}
        /\ solo' = IF p \in viewing THEN solo \ {p} ELSE solo
        /\ File!Commit(p)
    BY <1>10 DEF ConfigInstalled, Return
  <2>2. /\ pc'[p] = place /\ p \in Busy /\ p \in inside
        /\ \A q \in solo : q = p
    BY <1>1, <2>1, BusyAfter DEF Busy, Alone
  <2>3. p \in solo => content' = arg[p] /\ SingBoxAccepts(arg[p]) /\ Current(arg[p])
    <3>1. p \in solo => p \in sole
      BY <2>1 DEF Alone
    <3>2. p \in solo => Current(arg[p])
      BY <2>1 DEF Followed
    <3> QED BY <2>1, <3>1, <3>2 DEF File!Commit
  <2>4. p \in solo => Good(content)'
    <3>1. p \in solo => Good(arg[p])
      BY <2>3 DEF Good
    <3> QED BY <2>1, <2>3, <3>1, SameStore DEF Good
  <2>5. \A q \in solo' : q = p /\ p \in solo /\ pc'[p] = "restart"
    BY <2>1, <2>2
  <2>6. ~drift' /\ ~revived' /\ (Busy' = {} \/ viewing' # {}) => Good(content)' /\ Good(svc)'
    <3> SUFFICES ASSUME ~drift, ~revived, Busy' = {} \/ viewing' # {}
                 PROVE  Good(content)' /\ Good(svc)'
      BY <2>1
    <3>1. p \in solo /\ Busy = {p} /\ viewing \subseteq {p}
      BY <2>2 DEF Alone
    <3>2. Busy' = {}
      BY <2>1, <3>1
    <3>3. p \in viewing
      BY <2>2, <3>2 DEF Busy
    <3>4. Good(svc)
      BY <3>3 DEF Followed
    <3> QED BY <2>1, <2>4, <3>1, <3>4, SameStore
  <2> QED BY <2>4, <2>5, <2>6 DEF Followed
<1>11. ASSUME NEW p \in Handlers, ConfigRefused(p)
       PROVE  Followed'
  <2>1. /\ pc[p] = "writing" /\ UNCHANGED <<store, svc, revived>>
        /\ viewing' = viewing \ {p} /\ solo' = solo \ {p}
        /\ drift' = (drift \/ p \notin viewing)
        /\ content' = content
    BY <1>11 DEF ConfigRefused, Return, File!Abort
  <2>2. p \in Busy /\ solo' = {}
    BY <2>1 DEF Busy, Alone
  <2>3. ~drift' => ~drift /\ p \in viewing
    BY <2>1
  <2>4. ~drift' /\ ~revived' => Good(content)' /\ Good(svc)'
    BY <2>1, <2>3, SameStore DEF Followed
  <2> QED BY <2>2, <2>4 DEF Followed
<1>12. ASSUME NEW p \in Handlers, RestartService(p) \/ RestartFails(p)
       PROVE  Followed'
  <2>1. /\ pc[p] = "restart" /\ UNCHANGED <<store, file, viewing>> /\ solo' = solo \ {p}
        /\ Goto(p, "idle")
    BY <1>12 DEF RestartService, RestartFails
  <2>2. p \in Busy /\ p \notin viewing /\ solo' = {}
    BY <2>1 DEF Busy, Alone, Accounted
  <2>3. ~drift' => p \in solo /\ svc' = content
    <3>1. ~drift => p \in solo
      BY <2>2 DEF Alone
    <3>2. ~drift' => svc' = content /\ ~(drift /\ p \notin solo)
      BY <1>12 DEF RestartService, RestartFails
    <3> QED BY <3>1, <3>2
  <2>4. ~drift' => Good(content)
    BY <2>1, <2>3 DEF Followed
  <2>5. ~drift' => Good(content)' /\ Good(svc)'
    <3>1. content' = content
      BY <2>1 DEF file
    <3> QED BY <2>1, <2>3, <2>4, <3>1, SameStore
  <2> QED BY <2>2, <2>5 DEF Followed
<1>13. ASSUME NEW p \in Handlers, Start(p)
       PROVE  Followed'
  <2>1. PICK generated \in BOOLEAN,
             host \in ConfiguredHost(disk.settings.domain, disk.settings.direct) :
          /\ host \in Addresses
          /\ settings' = [disk.settings EXCEPT !.domain =
                            IF NamesItself(disk, host) THEN host ELSE @]
          /\ NodeList' = EnsuredList(disk, host, generated)
          /\ ~drift' => /\ ~drift /\ Busy = {}
                        /\ IF EnsureChanges(disk, host, generated) THEN Boot(p) ELSE Serve
          /\ ~revived' =>
               /\ ~revived
               /\ EnsureChanges(disk, host, generated) \/ NothingRevived(disk.list, NodeList')
    BY <1>13, StartKeeps
  <2>2. viewing' = {} /\ content' = content /\ svc' = svc
    BY <1>13 DEF Start, File!Die
  <2>3. \A q \in solo' : pc'[q] = "snapshot"
    BY <1>13 DEF Start, Serve, Boot
  <2>4. ASSUME ~drift', ~revived', Busy' = {}
        PROVE  Good(content)' /\ Good(svc)'
    <3>1. ~drift /\ ~revived /\ Busy = {}
      BY <2>1, <2>4
    <3>2. ~EnsureChanges(disk, host, generated)
      BY <2>1, <2>4 DEF Boot, Busy
    <3>3. Good(content) /\ Good(svc)
      BY <3>1 DEF Followed
    <3>4. disk = [settings |-> settings, list |-> NodeList] /\ disk \in Saved
      BY <3>1 DEF Accounted, Stored
    <3>5. settings'.cert = disk.settings.cert /\ disk.settings.cert = settings.cert
      BY <2>1, <3>4 DEF Saved, Settings
    <3>6. ASSUME NEW c, Good(c)
          PROVE  Rendered(c, NodeList', settings'.cert) /\ SingBoxAccepts(c)
      <4>1. Rendered(c, disk.list, disk.settings.cert)
        BY <3>4, <3>6 DEF Good, Current
      <4>2. Rendered(c, EnsuredList(disk, host, generated), disk.settings.cert)
        BY <2>1, <2>4, <3>2, <3>4, <4>1, QuietStart
      <4> QED BY <2>1, <3>5, <3>6, <4>2 DEF Good
    <3>7. /\ Rendered(content, NodeList', settings'.cert) /\ SingBoxAccepts(content)
          /\ Rendered(svc, NodeList', settings'.cert) /\ SingBoxAccepts(svc)
      BY <3>3, <3>6
    <3> QED BY <2>2, <3>7 DEF Good, Current
  <2> QED BY <2>2, <2>3, <2>4 DEF Followed
<1>14. CASE UNCHANGED vars
  <2>1. UNCHANGED store
    BY <1>14 DEF vars, store
  <2>2. /\ UNCHANGED <<settings, nodes, pc, view, vcert, pos, out, content, arg, svc,
                       viewing, solo, drift, revived>>
        /\ Busy' = Busy
    BY <1>14 DEF vars, Busy
  <2> QED BY <2>1, <2>2, SameStore DEF Followed
<1> QED
  BY <1>6, <1>7, <1>8, <1>9, <1>10, <1>11, <1>12, <1>13, <1>14 DEF Next, Apply

LEMMA FollowedAlways == Spec => []Followed
<1>1. Spec => []Alone
  BY AloneInit, AloneStep, TypeCorrect, AccountedAlways, PTL DEF Spec
<1> QED
  BY FollowedInit, FollowedStep, <1>1, TypeCorrect, AccountedAlways, StoredAlways, PTL DEF Spec

(* Whenever no request is at work and no failure, overlap or revival is on record,
   sing-box.json and the service have the stored nodes. *)
THEOREM ServiceFollowsStore == Spec => []ConfigFollowsStore
<1>1. Followed => ConfigFollowsStore
  BY DEF Followed, ConfigFollowsStore, Quiet, Good
<1> QED BY <1>1, FollowedAlways, PTL

-----------------------------------------------------------------------------
(* Subscriptions. *)

(* What a rendering has of a list: one inbound of every node served, and no other. *)
LEMMA RenderedTags ==
  ASSUME NEW c, NEW list, NEW cert, Rendered(c, list, cert)
  PROVE  /\ \A k \in DOMAIN c : \E i \in 1..Len(list) :
              Served(list[i], cert) /\ c[k] = InboundOf(list[i], cert)
         /\ \A i \in 1..Len(list) : Served(list[i], cert) =>
              \E k \in DOMAIN c : c[k] = InboundOf(list[i], cert)
<1> DEFINE K == {i \in 1..Len(list) : Served(list[i], cert)}
<1>1. PICK f \in Enumerations(K) : c = [i \in DOMAIN f |-> InboundOf(list[f[i]], cert)]
  BY DEF Rendered
<1>2. PICK m \in 0..MaxLen : f \in [1..m -> K]
  BY DEF Enumerations
<1>3. \A i \in 1..m : f[i] \in K
  BY <1>2
<1>4. \A j \in K : \E i \in 1..m : f[i] = j
  BY <1>2 DEF Enumerations
<1>5. DOMAIN c = 1..m /\ \A i \in 1..m : c[i] = InboundOf(list[f[i]], cert)
  <2>1. DOMAIN f = 1..m
    BY <1>2
  <2> HIDE DEF K
  <2> QED BY <1>1, <2>1
<1>6. \A i \in 1..Len(list) : Served(list[i], cert) => \E k \in 1..m : f[k] = i
  BY <1>4
<1>7. \A k \in 1..m : f[k] \in 1..Len(list) /\ Served(list[f[k]], cert)
  BY <1>3
<1>8. \A k \in DOMAIN c : \E i \in 1..Len(list) :
         Served(list[i], cert) /\ c[k] = InboundOf(list[i], cert)
  BY <1>5, <1>7
<1>9. ASSUME NEW i \in 1..Len(list), Served(list[i], cert)
      PROVE  \E k \in DOMAIN c : c[k] = InboundOf(list[i], cert)
  <2>1. PICK k \in 1..m : f[k] = i
    BY <1>6, <1>9
  <2>2. k \in DOMAIN c /\ c[k] = InboundOf(list[i], cert)
    BY <1>5, <2>1
  <2> QED BY <2>2
<1> QED BY <1>8, <1>9

(* A list as a request sees it: the nodes themselves, under another address. *)
LEMMA RequestedNode ==
  ASSUME Stored, NEW host \in Addresses, NEW i \in 1..nodes.len
  PROVE  LET m == NodesForRequest(host)[i] IN
         /\ m \in Node /\ m.proto = NodeList[i].proto /\ m.status = NodeList[i].status
         /\ m.keys = NodeList[i].keys
         /\ host # None => m.host = host
<1>1. NodeList[i] \in Node
  BY StoredList
<1> QED BY <1>1 DEF NodesForRequest, Node

LEMMA RequestedLength ==
  ASSUME Stored, NEW host
  PROVE  Len(NodesForRequest(host)) = nodes.len
<1>1. nodes.len \in Nat
  BY StoredList, RecommendedAssumption
<1> QED BY <1>1 DEF NodesForRequest

(* At rest a subscription offers what sing-box serves, at the present address: the
   generators of the two formats and WriteConfig agree, although each decides for
   itself which nodes count. *)
THEOREM OffersAreServed == Spec => []SubscriptionIsServed
<1>1. Stored /\ Good(svc) =>
        \A host \in ConfiguredHost(settings.domain, settings.direct) :
          LET list == NodesForRequest(host)
              certified == {o \in V2rayN(list) : Runnable(o.proto, settings.cert)}
          IN /\ V2rayN(list) = ClashProxies(list)
             /\ {o.proto : o \in certified} = {svc[k].tag : k \in DOMAIN svc}
             /\ host # None => \A o \in certified : o.link.host = host
  <2> SUFFICES ASSUME Stored, Good(svc), NEW host \in Addresses
               PROVE  LET list == NodesForRequest(host)
                          certified == {o \in V2rayN(list) : Runnable(o.proto, settings.cert)}
                      IN /\ V2rayN(list) = ClashProxies(list)
                         /\ {o.proto : o \in certified} = {svc[k].tag : k \in DOMAIN svc}
                         /\ host # None => \A o \in certified : o.link.host = host
    <3>1. Stored => settings.domain \in Addresses /\ settings.direct \in BOOLEAN
      BY DEF Stored, Settings
    <3> QED BY <3>1, ConfiguredHostType
  <2> DEFINE list == NodesForRequest(host)
             cert == settings.cert
             certified == {o \in V2rayN(list) : Runnable(o.proto, cert)}
  <2>1. /\ Len(list) = nodes.len /\ Len(NodeList) = nodes.len
        /\ \A i \in 1..nodes.len : NodeList[i] \in Node
    BY RequestedLength, StoredList
  <2>2. \A i \in 1..nodes.len :
          /\ list[i] \in Node
          /\ list[i].proto = NodeList[i].proto /\ list[i].status = NodeList[i].status
          /\ list[i].keys = NodeList[i].keys
          /\ host # None => list[i].host = host
    BY RequestedNode
  <2>3. /\ \A k \in DOMAIN svc : \E i \in 1..nodes.len :
             Served(NodeList[i], cert) /\ svc[k] = InboundOf(NodeList[i], cert)
        /\ \A i \in 1..nodes.len : Served(NodeList[i], cert) =>
             \E k \in DOMAIN svc : svc[k] = InboundOf(NodeList[i], cert)
    BY <2>1, RenderedTags DEF Good, Current
  <2> HIDE DEF list, cert
  <2>4. \A i \in 1..nodes.len : Link(list[i]) # None <=> NodeList[i].proto # "clash"
    <3>1. \A h \in Addresses, k \in BOOLEAN : [host |-> h, keys |-> k] # None
      BY NothingAssumption
    <3>2. \A m \in Node : Link(m) # None <=> m.proto # "clash"
      BY <3>1 DEF Link, Node, Addresses
    <3> QED BY <2>2, <3>2
  <2>5. ASSUME NEW i \in 1..nodes.len, NodeList[i].status = "running",
               NodeList[i].proto = "vless-reality"
        PROVE  NodeList[i].keys
    <3>1. Served(NodeList[i], cert)
      BY <2>5 DEF Served, NeedCert
    <3>2. PICK k \in DOMAIN svc : svc[k] = InboundOf(NodeList[i], cert)
      BY <2>3, <3>1
    <3>3. svc[k].tag = "vless-reality" => svc[k].keys
      BY DEF Good, SingBoxAccepts
    <3> QED BY <2>5, <3>2, <3>3 DEF InboundOf
  <2>6. V2rayN(list) = ClashProxies(list)
    <3>1. \A n \in Running(list) :
            Link(n) # None <=> n.proto # "clash" /\ (n.proto = "vless-reality" => n.keys)
      BY <2>1, <2>2, <2>4, <2>5 DEF Running
    <3> QED BY <3>1 DEF V2rayN, ClashProxies
  <2>7. \A o \in certified : \E i \in 1..nodes.len :
          /\ o = Offer(list[i]) /\ Served(NodeList[i], cert)
    <3> SUFFICES ASSUME NEW o \in certified
                 PROVE  \E i \in 1..nodes.len : o = Offer(list[i]) /\ Served(NodeList[i], cert)
      OBVIOUS
    <3>1. PICK i \in 1..nodes.len : /\ o = Offer(list[i]) /\ Link(list[i]) # None
                                    /\ list[i].status = "running"
      BY <2>1 DEF V2rayN, Running
    <3>2. Runnable(NodeList[i].proto, cert)
      BY <2>2, <3>1 DEF Offer
    <3>3. Served(NodeList[i], cert)
      BY <2>2, <2>4, <3>1, <3>2 DEF Served, Runnable, NeedCert, NeedNoCert
    <3> QED BY <3>1, <3>3
  <2>8. \A i \in 1..nodes.len : Served(NodeList[i], cert) => Offer(list[i]) \in certified
    <3> SUFFICES ASSUME NEW i \in 1..nodes.len, Served(NodeList[i], cert)
                 PROVE  Offer(list[i]) \in certified
      OBVIOUS
    <3>1. list[i] \in Running(list) /\ Link(list[i]) # None
      BY <2>1, <2>2, <2>4 DEF Served, Running
    <3>2. Runnable(list[i].proto, cert)
      <4>1. list[i].proto \in Protocols
        BY <2>1, <2>2 DEF Node
      <4> QED BY <2>2, <4>1 DEF Runnable, Protocols, Served
    <3> QED BY <3>1, <3>2 DEF V2rayN, Offer
  <2> HIDE DEF certified
  <2>9. {o.proto : o \in certified} = {svc[k].tag : k \in DOMAIN svc}
    <3>1. ASSUME NEW o \in certified PROVE o.proto \in {svc[k].tag : k \in DOMAIN svc}
      <4>1. PICK i \in 1..nodes.len : o = Offer(list[i]) /\ Served(NodeList[i], cert)
        BY <2>7
      <4>2. PICK k \in DOMAIN svc : svc[k] = InboundOf(NodeList[i], cert)
        BY <2>3, <4>1
      <4> QED BY <2>2, <4>1, <4>2 DEF Offer, InboundOf
    <3>2. ASSUME NEW k \in DOMAIN svc PROVE svc[k].tag \in {o.proto : o \in certified}
      <4>1. PICK i \in 1..nodes.len :
              Served(NodeList[i], cert) /\ svc[k] = InboundOf(NodeList[i], cert)
        BY <2>3
      <4>2. Offer(list[i]) \in certified /\ Offer(list[i]).proto = svc[k].tag
        BY <2>2, <2>8, <4>1 DEF Offer, InboundOf
      <4> QED BY <4>2
    <3> QED BY <3>1, <3>2
  <2>10. host # None => \A o \in certified : o.link.host = host
    <3> SUFFICES ASSUME host # None, NEW o \in certified PROVE o.link.host = host
      OBVIOUS
    <3>1. PICK i \in 1..nodes.len : o = Offer(list[i]) /\ Served(NodeList[i], cert)
      BY <2>7
    <3>2. list[i].proto # "clash" /\ list[i].host = host
      BY <2>2, <3>1 DEF Served
    <3> QED BY <3>1, <3>2 DEF Offer, Link
  <2> QED BY <2>6, <2>9, <2>10 DEF list, cert, certified
<1>2. Stored /\ Followed => SubscriptionIsServed
  BY <1>1 DEF Followed, SubscriptionIsServed, Quiet
<1> QED BY <1>2, FollowedAlways, StoredAlways, PTL

-----------------------------------------------------------------------------
(* The panel and the file. *)

(* The pipelines use sing-box.json as the register that ConfigFile.tla implements
   (ConfigFileProofs!ImplementationOfRegister): what is proved here of the content
   holds of the file protocol underneath.  The register's renderings are all sequences
   of inbounds, which no model checker can enumerate. *)
THEOREM PipelinesUseTheRegister == Spec => File!RegisterSpec
<1>1. Init => File!RegisterInit
  BY DEF Init
<1>2. TypeOK /\ [Next]_vars => [File!RegisterNext]_File!register
  <2> SUFFICES ASSUME TypeOK, [Next]_vars PROVE File!RegisterNext \/ UNCHANGED file
    BY DEF file, File!register
  <2>1. ASSUME NEW p \in Handlers, Handle(p)
        PROVE  UNCHANGED file
    BY <2>1 DEF Handle, Setup, AddNode, RemoveNode, ToggleNode, UpdateSettings,
                UpdateElsewhere, SingBoxConfig, ChainHandler, Update
  <2>2. ASSUME NEW p \in Handlers, OpenConfig(p)
        PROVE  File!RegisterNext
    <3>1. out[p] \in Seq(Inbound)
      BY DEF TypeOK
    <3> QED BY <2>2, <3>1 DEF OpenConfig, File!RegisterNext
  <2>3. ASSUME NEW p \in Handlers, ConfigInstalled(p) \/ ConfigRefused(p)
        PROVE  File!RegisterNext
    BY <2>3 DEF ConfigInstalled, ConfigRefused, File!RegisterNext
  <2>4. ASSUME NEW p \in Handlers,
               Snapshot(p) \/ RenderNode(p) \/ RestartService(p) \/ RestartFails(p)
        PROVE  UNCHANGED file
    BY <2>4 DEF Snapshot, RenderNode, RestartService, RestartFails
  <2>5. ASSUME NEW p \in Handlers, Start(p)
        PROVE  File!RegisterNext
    BY <2>5 DEF Start, File!RegisterNext
  <2>6. CASE UNCHANGED vars
    BY <2>6 DEF vars, file
  <2> QED BY <2>1, <2>2, <2>3, <2>4, <2>5, <2>6 DEF Next, Apply
<1> QED BY <1>1, <1>2, TypeCorrect, PTL DEF Spec, File!RegisterSpec
=============================================================================
