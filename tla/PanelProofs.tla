----------------------------- MODULE PanelProofs -----------------------------
(* Theorems about Panel.tla, for any number of requests in flight, any list of
   recommended protocols, any addresses and any bounds.

   Stored is the part of the inductive invariant that speaks of the store alone:
   the slices of the store and of every snapshot show nodes, whatever has been
   moved underneath them, and the two lists hold each protocol once. *)
EXTENDS Panel, TLAPS

(* A slice that shows nodes only. *)
Shows(slice) ==
  /\ slice \in Slices
  /\ \A i \in 1..slice.len : slice.arr \in Arrays /\ heap[slice.arr][i] \in Node

Heaps == [Arrays -> [1..MaxLen -> Node \cup {None}]]

Stored ==
  /\ settings \in Settings
  /\ heap \in Heaps
  /\ cap \in [Arrays -> 0..MaxLen]
  /\ view \in [Handlers -> Slices]
  /\ disk \in Saved
  /\ Len(disk.list) <= MaxLen
  /\ nodes.arr \in Arrays \/ (up = "down" /\ Busy = {})
  /\ Shows(nodes)
  /\ \A p \in Handlers : Shows(view[p])
  /\ UniqueProtocol

(* What a transaction must have left in memory before it is saved. *)
Kept ==
  /\ settings' \in Settings
  /\ heap' \in Heaps
  /\ cap' \in [Arrays -> 0..MaxLen]
  /\ nodes'.arr \in Arrays
  /\ Shows(nodes)'
  /\ \A p \in Handlers : Shows(view[p])'
  /\ UniqueIn(NodeList)'

(* A node fresh from newNodeFromRecommendation. *)
Made(n, host, cert) ==
  \E proto \in Protocols, keys \in BOOLEAN : n = NewNode(proto, host, cert, keys)

(* One of the stored nodes. *)
IsStored(n) == \E j \in 1..Len(NodeList) : n = NodeList[j]

-----------------------------------------------------------------------------
(* Lemmas about the operators of the model. *)

(* A function over 1..n is a sequence of n elements. *)
LEMMA FunctionIsSeq ==
  ASSUME NEW S, NEW n \in Nat, NEW f \in [1..n -> S]
  PROVE  f \in Seq(S) /\ Len(f) = n
OBVIOUS

(* What the first n elements of an array make. *)
LEMMA ElementList ==
  ASSUME NEW h, NEW a, NEW n \in 0..MaxLen, \A i \in 1..n : h[a][i] \in Node
  PROVE  LET list == [i \in 1..n |-> h[a][i]] IN
         list \in Seq(Node) /\ Len(list) = n /\ \A i \in 1..n : list[i] = h[a][i]
<1> DEFINE list == [i \in 1..n |-> h[a][i]]
<1>1. n \in Nat
  BY RecommendedAssumption
<1>2. list \in [1..n -> Node] /\ \A i \in 1..n : list[i] = h[a][i]
  OBVIOUS
<1> HIDE DEF list
<1>3. list \in Seq(Node) /\ Len(list) = n
  BY <1>1, <1>2, FunctionIsSeq
<1> QED BY <1>2, <1>3 DEF list

(* The list of a store whose slice shows nodes. *)
LEMMA StoredList ==
  ASSUME Stored
  PROVE  /\ NodeList \in Seq(Node) /\ Len(NodeList) = nodes.len /\ nodes.len \in 0..MaxLen
         /\ \A i \in 1..nodes.len : NodeList[i] = heap[nodes.arr][i]
<1>1. nodes.len \in 0..MaxLen /\ \A i \in 1..nodes.len : heap[nodes.arr][i] \in Node
  BY DEF Stored, Shows, Slices
<1> QED BY <1>1, ElementList DEF NodeList, Elements

(* A new node is a node. *)
LEMMA NewNodeType ==
  ASSUME NEW proto \in Protocols, NEW host \in Addresses, NEW cert, NEW keys \in BOOLEAN
  PROVE  /\ NewNode(proto, host, cert, keys) \in Node
         /\ NewNode(proto, host, cert, keys).proto = proto
BY DEF NewNode, Node, Link, Links, Addresses

(* configuredHost finds an address, and keeps a public one. *)
LEMMA ConfiguredHostType ==
  ASSUME NEW domain \in Addresses, NEW direct \in BOOLEAN,
         NEW host \in ConfiguredHost(domain, direct)
  PROVE  /\ host \in Addresses
         /\ domain \in Public => host = domain
BY AddressAssumption DEF ConfiguredHost, Addresses

(* An enumeration numbers the kept positions without repeating one. *)
LEMMA EnumerationIsInjective ==
  ASSUME NEW K \in SUBSET Nat, NEW f \in Enumerations(K)
  PROVE  \E m \in 0..MaxLen :
           /\ f \in [1..m -> K]
           /\ \A i, j \in 1..m : f[i] = f[j] => i = j
<1>1. PICK m \in 0..MaxLen : f \in [1..m -> K]
  BY DEF Enumerations
<1>2. \A i, j \in 1..m : i < j => f[i] < f[j]
  BY <1>1 DEF Enumerations
<1>3. \A i \in 1..m : i \in Nat /\ f[i] \in Nat
  <2>1. \A k \in K : k \in Nat
    OBVIOUS
  <2>2. \A i \in 1..m : f[i] \in K
    BY <1>1
  <2>3. m \in Nat
    BY RecommendedAssumption
  <2>4. \A i \in 1..m : i \in Nat
    BY <2>3
  <2> QED BY <2>1, <2>2, <2>4
<1>4. \A i, j \in 1..m : f[i] = f[j] => i = j
  BY <1>2, <1>3
<1> QED BY <1>1, <1>4

(* A slice over a new array shows the list it was made for, and the arrays in
   use are left alone. *)
LEMMA Allocated ==
  ASSUME Stored, NEW list \in Seq(Node), Len(list) <= MaxLen, UniqueIn(list),
         Allocate(list), settings' \in Settings, view' = view
  PROVE  Kept /\ NodeList' = list
<1>1. PICK a \in FreeArrays, c \in Len(list)..MaxLen :
        /\ nodes' = [arr |-> a, len |-> Len(list)]
        /\ heap' = [heap EXCEPT ![a] = Holding(list)]
        /\ cap' = [cap EXCEPT ![a] = c]
  BY DEF Allocate
<1>2. a \in Arrays /\ Len(list) \in 0..MaxLen /\ MaxLen \in Nat
  BY RecommendedAssumption DEF FreeArrays
<1>3. /\ Holding(list) \in [1..MaxLen -> Node \cup {None}]
      /\ \A i \in 1..Len(list) : Holding(list)[i] = list[i] /\ list[i] \in Node
  BY <1>2 DEF Holding
<1>4. heap' \in Heaps /\ cap' \in [Arrays -> 0..MaxLen]
  BY <1>1, <1>2, <1>3 DEF Stored, Heaps
<1>5. Shows(nodes)'
  BY <1>1, <1>2, <1>3 DEF Shows, Slices, Stored, Heaps
<1>6. \A p \in Handlers : Shows(view[p])'
  <2> SUFFICES ASSUME NEW p \in Handlers PROVE Shows(view[p])'
    OBVIOUS
  <2>1. Shows(view[p]) /\ view[p].arr # a
    BY <1>1 DEF Stored, FreeArrays
  <2>2. \A b \in Arrays : b # a => heap'[b] = heap[b]
    BY <1>1 DEF Stored, Heaps
  <2> QED BY <2>1, <2>2 DEF Shows
<1>7. NodeList' = list
  <2>1. nodes'.len = Len(list) /\ \A i \in 1..Len(list) : heap'[nodes'.arr][i] = list[i]
    BY <1>1, <1>2, <1>3 DEF Stored, Heaps
  <2>2. /\ NodeList' \in Seq(Node) /\ Len(NodeList') = Len(list)
        /\ \A i \in 1..Len(list) : NodeList'[i] = list[i]
    BY <1>2, <1>3, <2>1, ElementList DEF NodeList, Elements
  <2> QED BY <2>2
<1>8. UniqueIn(NodeList)'
  BY <1>7 DEF UniqueIn
<1>9. nodes'.arr \in Arrays
  BY <1>1, <1>2
<1> QED BY <1>4, <1>5, <1>6, <1>7, <1>8, <1>9 DEF Kept

-----------------------------------------------------------------------------
(* What each handler leaves in memory. *)

LEMMA SetupKeeps ==
  ASSUME Stored, NEW p \in Handlers, Setup(p)
  PROVE  /\ Kept
         /\ settings'.domain # None
         /\ \A i \in 1..Len(NodeList') :
              Made(NodeList'[i], settings'.domain, settings'.cert)
<1>1. PICK direct \in BOOLEAN, domain \in Names, keys \in Keygen,
           S \in SUBSET (1..Len(Recommended)) :
        /\ direct \/ domain \in Public
        /\ \E host \in ConfiguredHost(domain, direct), f \in Enumerations(S) :
             /\ settings' = [done |-> TRUE, direct |-> direct, domain |-> host,
                             cert |-> IF direct THEN None ELSE domain]
             /\ Allocate([i \in DOMAIN f |-> NewNode(Recommended[f[i]], host,
                            IF direct THEN None ELSE domain, keys)])
  BY DEF Setup
<1>2. PICK host \in ConfiguredHost(domain, direct), f \in Enumerations(S) :
        /\ settings' = [done |-> TRUE, direct |-> direct, domain |-> host,
                        cert |-> IF direct THEN None ELSE domain]
        /\ Allocate([i \in DOMAIN f |-> NewNode(Recommended[f[i]], host,
                       IF direct THEN None ELSE domain, keys)])
  BY <1>1
<1> DEFINE cert == IF direct THEN None ELSE domain
           list == [i \in DOMAIN f |-> NewNode(Recommended[f[i]], host, cert, keys)]
<1>3. Len(Recommended) \in Nat
      /\ \A k \in 1..Len(Recommended) : Recommended[k] \in Protocols
  BY RecommendedAssumption
<1>4. keys \in BOOLEAN /\ host \in Addresses /\ domain \in Addresses
  BY AddressAssumption, ConfiguredHostType DEF Names, Addresses
<1>5. PICK m \in 0..MaxLen :
        /\ f \in [1..m -> S]
        /\ \A i, j \in 1..m : f[i] = f[j] => i = j
  <2>1. S \in SUBSET Nat
    BY <1>3
  <2> QED BY <2>1, EnumerationIsInjective
<1>6. m \in Nat /\ m <= MaxLen /\ DOMAIN f = 1..m
  BY <1>5, RecommendedAssumption
<1>7. \A i \in 1..m : /\ list[i] \in Node
                      /\ list[i].proto = Recommended[f[i]]
                      /\ Made(list[i], host, cert)
  <2> SUFFICES ASSUME NEW i \in 1..m
               PROVE  /\ list[i] \in Node
                      /\ list[i].proto = Recommended[f[i]]
                      /\ Made(list[i], host, cert)
    OBVIOUS
  <2>1. f[i] \in 1..Len(Recommended)
    BY <1>5
  <2>2. Recommended[f[i]] \in Protocols
    BY <1>3, <2>1
  <2>3. list[i] = NewNode(Recommended[f[i]], host, cert, keys)
    BY <1>6
  <2> HIDE DEF list, cert
  <2> QED BY <1>4, <2>2, <2>3, NewNodeType DEF Made
<1>8. list \in Seq(Node) /\ Len(list) = m
  <2>1. list \in [1..m -> Node]
    BY <1>6, <1>7
  <2> HIDE DEF list
  <2> QED BY <1>6, <2>1, FunctionIsSeq
<1>9. UniqueIn(list)
  <2>1. \A i, j \in 1..m : Recommended[f[i]] = Recommended[f[j]] => i = j
    BY <1>5, RecommendedAssumption
  <2> HIDE DEF list
  <2> QED BY <1>7, <1>8, <2>1 DEF UniqueIn
<1>10. settings' \in Settings
  BY <1>1, <1>2, <1>4 DEF Settings, Names
<1>11. view' = view
  BY DEF Setup, Update, work
<1>12. settings'.domain = host /\ settings'.cert = cert /\ host # None
  BY <1>1, <1>2, AddressAssumption DEF ConfiguredHost
<1>13. Allocate(list)
  BY <1>2
<1> HIDE DEF list, cert
<1>14. Kept /\ NodeList' = list
  BY <1>6, <1>8, <1>9, <1>10, <1>11, <1>13, Allocated
<1> QED BY <1>7, <1>8, <1>12, <1>14

LEMMA AddNodeKeeps ==
  ASSUME Stored, NEW p \in Handlers, AddNode(p)
  PROVE  /\ Kept
         /\ settings' = settings
         /\ \A i \in 1..Len(NodeList') :
              \/ IsStored(NodeList'[i])
              \/ \E host \in ConfiguredHost(settings.domain, settings.direct) :
                   Made(NodeList'[i], host, settings.cert)
<1>1. PICK k \in 1..Len(Recommended), keys \in Keygen,
           host \in ConfiguredHost(settings.domain, settings.direct) :
        LET n == NewNode(Recommended[k], host, settings.cert, keys) IN
        /\ \A i \in 1..nodes.len : NodeList[i].proto # n.proto
        /\ IF nodes.len < cap[nodes.arr]
             THEN /\ heap' = [heap EXCEPT ![nodes.arr][nodes.len + 1] = n]
                  /\ nodes' = [nodes EXCEPT !.len = @ + 1]
                  /\ UNCHANGED cap
             ELSE Allocate(Append(NodeList, n))
  BY DEF AddNode
<1> DEFINE n == NewNode(Recommended[k], host, settings.cert, keys)
<1>2. nodes.len < MaxLen /\ UNCHANGED <<settings, view>> /\ up = "up"
  BY DEF AddNode, Update, work, ReceiveAuthenticated, Receive
<1>3. n \in Node /\ Made(n, host, settings.cert)
  <2>1. Recommended[k] \in Protocols
    BY RecommendedAssumption
  <2>2. settings.domain \in Addresses /\ settings.direct \in BOOLEAN
    BY DEF Stored, Settings
  <2> QED BY <2>1, <2>2, ConfiguredHostType, NewNodeType, AddressAssumption DEF Made
<1> HIDE DEF n
<1>4. /\ NodeList \in Seq(Node) /\ Len(NodeList) = nodes.len /\ nodes.len \in 0..MaxLen
      /\ \A i \in 1..nodes.len : NodeList[i] = heap[nodes.arr][i]
  BY StoredList
<1>5. UniqueIn(NodeList) /\ \A i \in 1..nodes.len : NodeList[i].proto # n.proto
  BY <1>1 DEF n, Stored, UniqueProtocol
<1>6. CASE Allocate(Append(NodeList, n))
  <2>1. /\ Append(NodeList, n) \in Seq(Node)
        /\ Len(Append(NodeList, n)) = nodes.len + 1
        /\ \A i \in 1..nodes.len : Append(NodeList, n)[i] = NodeList[i]
        /\ Append(NodeList, n)[nodes.len + 1] = n
    BY <1>3, <1>4
  <2>2. UniqueIn(Append(NodeList, n))
    BY <1>4, <1>5, <2>1 DEF UniqueIn
  <2>3. Len(Append(NodeList, n)) <= MaxLen /\ settings' \in Settings /\ view' = view
    BY <1>2, <1>4, <2>1, RecommendedAssumption DEF Stored
  <2>4. Kept /\ NodeList' = Append(NodeList, n)
    BY <1>6, <2>1, <2>2, <2>3, Allocated
  <2>5. \A i \in 1..(nodes.len + 1) : i \in 1..nodes.len \/ i = nodes.len + 1
    BY <1>4, RecommendedAssumption
  <2> QED BY <1>2, <1>3, <1>4, <2>1, <2>4, <2>5 DEF IsStored
<1>7. CASE /\ nodes.len < cap[nodes.arr]
           /\ heap' = [heap EXCEPT ![nodes.arr][nodes.len + 1] = n]
           /\ nodes' = [nodes EXCEPT !.len = @ + 1]
           /\ UNCHANGED cap
  <2>1. nodes.arr \in Arrays
    BY <1>2 DEF Stored
  <2>2. heap' \in Heaps /\ \A b \in Arrays, i \in 1..MaxLen :
          heap'[b][i] = IF b = nodes.arr /\ i = nodes.len + 1 THEN n ELSE heap[b][i]
    <3>1. /\ nodes.len + 1 \in 1..MaxLen
          /\ heap[nodes.arr] \in [1..MaxLen -> Node \cup {None}]
      BY <1>2, <1>4, <2>1, RecommendedAssumption DEF Stored, Heaps
    <3>2. /\ heap' = [heap EXCEPT ![nodes.arr] = [@ EXCEPT ![nodes.len + 1] = n]]
          /\ [heap[nodes.arr] EXCEPT ![nodes.len + 1] = n] \in [1..MaxLen -> Node \cup {None}]
      BY <1>3, <1>7, <3>1
    <3> QED BY <2>1, <3>1, <3>2 DEF Stored, Heaps
  <2>3. nodes' \in Slices /\ nodes'.arr = nodes.arr /\ nodes'.len = nodes.len + 1
    <3>1. nodes \in Slices /\ nodes.len + 1 \in 0..MaxLen
      BY <1>2, <1>4, RecommendedAssumption DEF Stored, Shows
    <3> QED BY <1>7, <3>1 DEF Slices
  <2>4. Shows(nodes)'
    <3>1. n \in Node
      BY <1>3
    <3>2. \A i \in 1..(nodes.len + 1) :
            i \in 1..MaxLen /\ (i \in 1..nodes.len \/ i = nodes.len + 1)
      BY <1>2, <1>4, RecommendedAssumption
    <3>3. \A i \in 1..nodes.len : heap[nodes.arr][i] \in Node
      BY DEF Stored, Shows
    <3>4. \A i \in 1..(nodes.len + 1) : heap'[nodes.arr][i] \in Node
      BY <2>1, <2>2, <3>1, <3>2, <3>3
    <3> QED BY <2>1, <2>3, <3>4 DEF Shows
  <2>5. ASSUME NEW q \in Handlers PROVE Shows(view[q])'
    <3>1. Shows(view[q]) /\ view[q].len \in 0..MaxLen
      BY DEF Stored, Shows, Slices
    <3>2. \A i \in 1..view[q].len : i \in 1..MaxLen
      BY <3>1, RecommendedAssumption
    <3> QED BY <1>2, <1>3, <2>2, <3>1, <3>2 DEF Shows
  <2>6. UniqueIn(NodeList)' /\ \A i \in 1..Len(NodeList') :
          IsStored(NodeList'[i]) \/ NodeList'[i] = n
    <3>1. /\ Len(NodeList)' = nodes.len + 1
          /\ \A i \in 1..nodes.len : NodeList'[i] = NodeList[i]
          /\ NodeList'[nodes.len + 1] = n
      <4>1. /\ Len(NodeList)' = nodes'.len
            /\ \A i \in 1..nodes'.len : NodeList'[i] = heap'[nodes'.arr][i]
        BY <2>3, <2>4, ElementList DEF NodeList, Elements, Shows, Slices
      <4>2. /\ \A i \in 1..nodes.len : i \in 1..MaxLen /\ i \in 1..(nodes.len + 1)
            /\ \A i \in 1..nodes.len : i # nodes.len + 1
            /\ nodes.len + 1 \in 1..MaxLen /\ nodes.len + 1 \in 1..(nodes.len + 1)
        BY <1>2, <1>4, RecommendedAssumption
      <4>3. \A i \in 1..nodes.len : heap'[nodes.arr][i] = heap[nodes.arr][i]
        BY <2>1, <2>2, <4>2
      <4>4. heap'[nodes.arr][nodes.len + 1] = n
        BY <2>1, <2>2, <4>2
      <4> QED BY <1>4, <2>3, <4>1, <4>2, <4>3, <4>4
    <3>2. \A i \in 1..(nodes.len + 1) : i \in 1..nodes.len \/ i = nodes.len + 1
      BY <1>4, RecommendedAssumption
    <3>3. UniqueIn(NodeList)'
      BY <1>4, <1>5, <3>1, <3>2 DEF UniqueIn
    <3>4. \A i \in 1..Len(NodeList') : IsStored(NodeList'[i]) \/ NodeList'[i] = n
      BY <1>4, <3>1, <3>2 DEF IsStored
    <3> QED BY <3>3, <3>4
  <2>7. settings' \in Settings /\ cap' \in [Arrays -> 0..MaxLen]
    BY <1>2, <1>7 DEF Stored
  <2>8. Kept
    BY <2>1, <2>2, <2>3, <2>4, <2>5, <2>6, <2>7 DEF Kept
  <2> QED BY <1>2, <1>3, <2>6, <2>8
<1> QED BY <1>1, <1>6, <1>7 DEF n

(* A change in place that leaves nodes where there were nodes. *)
LEMMA Overwritten ==
  ASSUME Stored, heap' \in Heaps, view' = view,
         \A b \in Arrays, i \in 1..MaxLen : heap[b][i] \in Node => heap'[b][i] \in Node
  PROVE  /\ \A p \in Handlers : Shows(view[p])'
         /\ \A i \in 1..nodes.len : i \in 1..MaxLen /\ heap'[nodes.arr][i] \in Node
<1>1. ASSUME NEW slice \in Slices, Shows(slice)
      PROVE  \A i \in 1..slice.len : i \in 1..MaxLen /\ heap'[slice.arr][i] \in Node
  <2>1. slice.len \in 0..MaxLen
    BY DEF Slices
  <2>2. \A i \in 1..slice.len : i \in 1..MaxLen
    BY <2>1, RecommendedAssumption
  <2> QED BY <1>1, <2>2 DEF Shows
<1>2. \A p \in Handlers : Shows(view[p])'
  BY <1>1 DEF Stored, Shows
<1>3. \A i \in 1..nodes.len : i \in 1..MaxLen /\ heap'[nodes.arr][i] \in Node
  BY <1>1 DEF Stored, Shows
<1> QED BY <1>2, <1>3

LEMMA RemoveNodeKeeps ==
  ASSUME Stored, NEW p \in Handlers, RemoveNode(p)
  PROVE  /\ Kept
         /\ settings' = settings
         /\ \A i \in 1..Len(NodeList') : IsStored(NodeList'[i])
<1>1. PICK i \in 1..nodes.len : \E f \in Enumerations(
             {j \in 1..nodes.len : NodeList[j].proto # NodeList[i].proto}) :
        /\ heap' = [heap EXCEPT ![nodes.arr] =
                      [j \in 1..MaxLen |-> IF j \in DOMAIN f THEN @[f[j]] ELSE @[j]]]
        /\ nodes' = [nodes EXCEPT !.len = Len(f)]
  BY DEF RemoveNode
<1> DEFINE kept == {j \in 1..nodes.len : NodeList[j].proto # NodeList[i].proto}
<1>2. PICK f \in Enumerations(kept) :
        /\ heap' = [heap EXCEPT ![nodes.arr] =
                      [j \in 1..MaxLen |-> IF j \in DOMAIN f THEN @[f[j]] ELSE @[j]]]
        /\ nodes' = [nodes EXCEPT !.len = Len(f)]
  BY <1>1
<1>3. UNCHANGED <<settings, cap, view>> /\ up = "up"
  BY DEF RemoveNode, Update, work, ReceiveAuthenticated, Receive
<1>4. /\ NodeList \in Seq(Node) /\ Len(NodeList) = nodes.len /\ nodes.len \in 0..MaxLen
      /\ \A j \in 1..nodes.len : NodeList[j] = heap[nodes.arr][j]
  BY StoredList
<1>5. kept \in SUBSET Nat
  BY <1>4, RecommendedAssumption
<1>6. PICK m \in 0..MaxLen :
        /\ f \in [1..m -> kept]
        /\ \A j, k \in 1..m : f[j] = f[k] => j = k
  BY <1>5, EnumerationIsInjective
<1>7. DOMAIN f = 1..m /\ Len(f) = m /\ \A j \in 1..m : f[j] \in 1..nodes.len
  <2>1. m \in Nat
    BY RecommendedAssumption
  <2> QED BY <1>6, <2>1, FunctionIsSeq
<1> HIDE DEF kept
<1>8. nodes.arr \in Arrays /\ heap[nodes.arr] \in [1..MaxLen -> Node \cup {None}]
  BY <1>3 DEF Stored, Heaps
<1> DEFINE row == [j \in 1..MaxLen |->
                     IF j \in 1..m THEN heap[nodes.arr][f[j]] ELSE heap[nodes.arr][j]]
<1>9. heap' = [heap EXCEPT ![nodes.arr] = row]
  BY <1>2, <1>7
<1>10. \A j \in 1..nodes.len : j \in 1..MaxLen /\ heap[nodes.arr][j] \in Node
  <2>1. \A j \in 1..nodes.len : j \in 1..MaxLen
    BY <1>4, RecommendedAssumption
  <2> QED BY <2>1 DEF Stored, Shows
<1>11. row \in [1..MaxLen -> Node \cup {None}]
       /\ \A j \in 1..MaxLen : heap[nodes.arr][j] \in Node => row[j] \in Node
  BY <1>7, <1>8, <1>10
<1>12. \A j \in 1..m : row[j] = NodeList[f[j]] /\ j \in 1..MaxLen
  <2>1. \A j \in 1..m : j \in 1..MaxLen
    BY RecommendedAssumption
  <2> QED BY <1>4, <1>7, <2>1
<1> HIDE DEF row
<1>13. heap' \in Heaps /\ \A b \in Arrays, j \in 1..MaxLen :
         heap[b][j] \in Node => heap'[b][j] \in Node
  BY <1>8, <1>9, <1>11 DEF Stored, Heaps
<1>14. nodes' \in Slices /\ nodes'.arr = nodes.arr /\ nodes'.len = m
  <2>1. nodes \in Slices
    BY DEF Stored, Shows
  <2> QED BY <1>2, <1>7, <2>1 DEF Slices
<1>15. heap'[nodes.arr] = row
  BY <1>8, <1>9 DEF Stored, Heaps
<1>16. \A j \in 1..m : heap'[nodes.arr][j] = NodeList[f[j]] /\ NodeList[f[j]] \in Node
  BY <1>4, <1>7, <1>10, <1>12, <1>15
<1>17. Shows(nodes)'
  BY <1>8, <1>14, <1>16 DEF Shows
<1>18. UniqueIn(NodeList)' /\ \A j \in 1..Len(NodeList') : IsStored(NodeList'[j])
  <2>1. /\ Len(NodeList)' = m
        /\ \A j \in 1..m : NodeList'[j] = NodeList[f[j]]
    BY <1>14, <1>16, ElementList DEF NodeList, Elements
  <2>2. UniqueIn(NodeList)
    BY DEF Stored, UniqueProtocol
  <2>3. UniqueIn(NodeList)'
    BY <1>4, <1>6, <1>7, <2>1, <2>2, SMTT(20) DEF UniqueIn
  <2>4. \A j \in 1..m : f[j] \in 1..Len(NodeList)
    BY <1>4, <1>7
  <2> QED BY <2>1, <2>3, <2>4 DEF IsStored
<1>19. \A q \in Handlers : Shows(view[q])'
  BY <1>3, <1>13, Overwritten
<1> QED BY <1>3, <1>8, <1>13, <1>14, <1>17, <1>18, <1>19 DEF Kept, Stored

(* A change in place of the stored nodes that keeps their protocols. *)
LEMMA EditedInPlace ==
  ASSUME Stored, up = "up", UNCHANGED <<nodes, cap, view>>, settings' \in Settings,
         NEW row \in [1..MaxLen -> Node \cup {None}],
         heap' = [heap EXCEPT ![nodes.arr] = row],
         \A i \in 1..MaxLen : heap[nodes.arr][i] \in Node => row[i] \in Node,
         \A i \in 1..nodes.len : row[i].proto = heap[nodes.arr][i].proto
  PROVE  Kept /\ Len(NodeList') = nodes.len /\ \A i \in 1..nodes.len : NodeList'[i] = row[i]
<1>1. nodes.arr \in Arrays
  BY DEF Stored
<1>2. heap' \in Heaps /\ heap'[nodes.arr] = row
      /\ \A b \in Arrays, i \in 1..MaxLen : heap[b][i] \in Node => heap'[b][i] \in Node
  BY <1>1 DEF Stored, Heaps
<1>3. /\ \A q \in Handlers : Shows(view[q])'
      /\ \A i \in 1..nodes.len : heap'[nodes.arr][i] \in Node
  BY <1>2, Overwritten
<1>4. Shows(nodes)'
  BY <1>1, <1>3 DEF Stored, Shows
<1>5. /\ NodeList \in Seq(Node) /\ Len(NodeList) = nodes.len /\ nodes.len \in 0..MaxLen
      /\ \A i \in 1..nodes.len : NodeList[i] = heap[nodes.arr][i]
  BY StoredList
<1>6. Len(NodeList)' = nodes.len /\ \A i \in 1..nodes.len : NodeList'[i] = row[i]
  <2>1. nodes'.arr = nodes.arr /\ nodes'.len = nodes.len
    OBVIOUS
  <2>2. \A i \in 1..nodes'.len : heap'[nodes'.arr][i] = row[i]
                                 /\ heap'[nodes'.arr][i] \in Node
    BY <1>2, <1>3, <2>1
  <2> QED BY <1>5, <2>1, <2>2, ElementList DEF NodeList, Elements
<1>7. UniqueIn(NodeList)'
  <2>1. UniqueIn(NodeList)
    BY DEF Stored, UniqueProtocol
  <2>2. \A i \in 1..nodes.len : NodeList'[i].proto = NodeList[i].proto
    BY <1>5, <1>6
  <2> QED BY <1>5, <1>6, <2>1, <2>2 DEF UniqueIn
<1> QED BY <1>1, <1>2, <1>3, <1>4, <1>6, <1>7 DEF Kept, Stored

LEMMA ToggleNodeKeeps ==
  ASSUME Stored, NEW p \in Handlers, ToggleNode(p)
  PROVE  /\ Kept
         /\ settings' = settings
         /\ Len(NodeList') = Len(NodeList)
         /\ \A i \in 1..Len(NodeList) : \E s \in {"running", "stopped"} :
              NodeList'[i] = [NodeList[i] EXCEPT !.status = s]
<1>1. PICK i \in 1..nodes.len :
        heap' = [heap EXCEPT ![nodes.arr][i].status =
                   IF @ = "running" THEN "stopped" ELSE "running"]
  BY DEF ToggleNode
<1>2. UNCHANGED <<settings, nodes, cap, view>> /\ up = "up"
  BY DEF ToggleNode, Update, work, ReceiveAuthenticated, Receive
<1>3. nodes.arr \in Arrays /\ nodes.len \in 0..MaxLen
  BY <1>2, StoredList DEF Stored
<1>4. heap[nodes.arr] \in [1..MaxLen -> Node \cup {None}]
      /\ heap[nodes.arr][i] \in Node /\ i \in 1..MaxLen
  BY <1>3, RecommendedAssumption DEF Stored, Heaps, Shows
<1> DEFINE old == heap[nodes.arr][i]
           new == [old EXCEPT !.status = IF @ = "running" THEN "stopped" ELSE "running"]
           row == [heap[nodes.arr] EXCEPT ![i] = new]
<1>5. new \in Node /\ new.proto = old.proto
  BY <1>4 DEF Node
<1>6. heap' = [heap EXCEPT ![nodes.arr] = row]
  BY <1>1
<1> HIDE DEF new
<1>7. /\ row \in [1..MaxLen -> Node \cup {None}]
      /\ \A j \in 1..MaxLen : heap[nodes.arr][j] \in Node => row[j] \in Node
      /\ \A j \in 1..nodes.len : row[j].proto = heap[nodes.arr][j].proto
  BY <1>3, <1>4, <1>5, RecommendedAssumption
<1>8. \A j \in 1..nodes.len : \E s \in {"running", "stopped"} :
        row[j] = [heap[nodes.arr][j] EXCEPT !.status = s]
  <2> SUFFICES ASSUME NEW j \in 1..nodes.len
               PROVE  \E s \in {"running", "stopped"} :
                        row[j] = [heap[nodes.arr][j] EXCEPT !.status = s]
    OBVIOUS
  <2>1. heap[nodes.arr][j] \in Node /\ j \in 1..MaxLen
    BY <1>3, RecommendedAssumption DEF Stored, Shows
  <2>2. CASE j = i
    BY <1>4, <2>2 DEF new
  <2>3. CASE j # i
    <3>1. row[j] = heap[nodes.arr][j]
      BY <1>4, <2>1, <2>3
    <3>2. heap[nodes.arr][j]
            = [heap[nodes.arr][j] EXCEPT !.status = heap[nodes.arr][j].status]
          /\ heap[nodes.arr][j].status \in {"running", "stopped"}
      BY <2>1 DEF Node
    <3> QED BY <3>1, <3>2
  <2> QED BY <2>2, <2>3
<1> HIDE DEF row
<1>9. settings' \in Settings
  BY <1>2 DEF Stored
<1>10. Kept /\ Len(NodeList') = nodes.len /\ \A j \in 1..nodes.len : NodeList'[j] = row[j]
  BY <1>2, <1>6, <1>7, <1>9, EditedInPlace
<1>11. Len(NodeList) = nodes.len /\ \A j \in 1..nodes.len : NodeList[j] = heap[nodes.arr][j]
  BY StoredList
<1> QED BY <1>2, <1>8, <1>10, <1>11

(* UpdateSettings on one node. *)
LEMMA RelinkedType ==
  ASSUME NEW n \in Node, NEW host \in Addresses, NEW cert
  PROVE  /\ Relinked(n, host, cert) \in Node
         /\ Relinked(n, host, cert).proto = n.proto
         /\ Relinked(n, host, cert).host = host
BY DEF Relinked, Node, Link, Links, Addresses

LEMMA UpdateSettingsKeeps ==
  ASSUME Stored, NEW p \in Handlers, UpdateSettings(p)
  PROVE  /\ Kept
         /\ settings'.domain # None
         /\ Len(NodeList') = Len(NodeList)
         /\ \A i \in 1..Len(NodeList) :
              NodeList'[i] = Relinked(NodeList[i], settings'.domain, settings'.cert)
<1>1. PICK direct \in BOOLEAN, domain \in Names :
        /\ direct \/ domain \in Public
        /\ \E host \in ConfiguredHost(domain, direct) :
             LET cert == IF direct THEN None ELSE domain IN
             /\ settings' = [done |-> TRUE, direct |-> direct, domain |-> host,
                             cert |-> cert]
             /\ heap' = [heap EXCEPT ![nodes.arr] =
                  [i \in 1..MaxLen |-> IF i <= nodes.len
                                         THEN Relinked(@[i], host, cert) ELSE @[i]]]
  BY DEF UpdateSettings
<1> DEFINE cert == IF direct THEN None ELSE domain
<1>2. PICK host \in ConfiguredHost(domain, direct) :
        /\ settings' = [done |-> TRUE, direct |-> direct, domain |-> host, cert |-> cert]
        /\ heap' = [heap EXCEPT ![nodes.arr] =
             [i \in 1..MaxLen |-> IF i <= nodes.len
                                    THEN Relinked(@[i], host, cert) ELSE @[i]]]
  BY <1>1
<1>3. host \in Addresses /\ domain \in Addresses
  BY ConfiguredHostType DEF Names, Addresses
<1>4. settings' \in Settings
  BY <1>1, <1>2, <1>3 DEF Settings, Names
<1>5. settings'.domain = host /\ settings'.cert = cert /\ host # None
  BY <1>1, <1>2, AddressAssumption DEF ConfiguredHost
<1> HIDE DEF cert
<1>6. UNCHANGED <<nodes, cap, view>> /\ up = "up"
  BY DEF UpdateSettings, Update, work, ReceiveAuthenticated, Receive
<1>7. nodes.arr \in Arrays /\ nodes.len \in 0..MaxLen
  BY <1>6, StoredList DEF Stored
<1>8. heap[nodes.arr] \in [1..MaxLen -> Node \cup {None}]
      /\ \A i \in 1..nodes.len : heap[nodes.arr][i] \in Node
  BY <1>7 DEF Stored, Heaps, Shows
<1> DEFINE row == [i \in 1..MaxLen |-> IF i <= nodes.len
                      THEN Relinked(heap[nodes.arr][i], host, cert) ELSE heap[nodes.arr][i]]
<1>9. heap' = [heap EXCEPT ![nodes.arr] = row]
  BY <1>2
<1>10. ASSUME NEW i \in 1..MaxLen, i <= nodes.len
      PROVE  row[i] \in Node /\ row[i].proto = heap[nodes.arr][i].proto
  <2>1. heap[nodes.arr][i] \in Node
    BY <1>7, <1>8, <1>10, RecommendedAssumption
  <2> QED BY <1>3, <1>10, <2>1, RelinkedType
<1>11. ASSUME NEW i \in 1..MaxLen, ~(i <= nodes.len)
       PROVE  row[i] = heap[nodes.arr][i]
  BY <1>11
<1>12. \A i \in 1..MaxLen : i <= nodes.len => row[i] = Relinked(heap[nodes.arr][i], host, cert)
  OBVIOUS
<1>13. row = [i \in 1..MaxLen |-> row[i]]
  OBVIOUS
<1> HIDE DEF row
<1>14. row \in [1..MaxLen -> Node \cup {None}]
  <2>1. \A i \in 1..MaxLen : row[i] \in Node \cup {None}
    BY <1>8, <1>10, <1>11
  <2> QED BY <1>13, <2>1
<1>15. \A i \in 1..MaxLen : heap[nodes.arr][i] \in Node => row[i] \in Node
  BY <1>10, <1>11
<1>16. \A i \in 1..nodes.len : i \in 1..MaxLen /\ i <= nodes.len
  BY <1>7, RecommendedAssumption
<1>17. \A i \in 1..nodes.len : row[i].proto = heap[nodes.arr][i].proto
  BY <1>10, <1>16
<1>18. Kept /\ Len(NodeList') = nodes.len /\ \A i \in 1..nodes.len : NodeList'[i] = row[i]
  BY <1>4, <1>6, <1>9, <1>14, <1>15, <1>17, EditedInPlace
<1>19. Len(NodeList) = nodes.len /\ \A i \in 1..nodes.len : NodeList[i] = heap[nodes.arr][i]
  BY StoredList
<1> QED BY <1>16, <1>5, <1>12, <1>18, <1>19

-----------------------------------------------------------------------------
(* The start. *)

LEMMA EnsuredType ==
  ASSUME NEW n \in Node, NEW host \in Addresses, NEW cert, NEW generated \in BOOLEAN
  PROVE  /\ Ensured(n, host, cert, generated) \in Node
         /\ Ensured(n, host, cert, generated).proto = n.proto
         /\ Ensured(n, host, cert, generated).host = host
<1> DEFINE m == [n EXCEPT !.host = host]
           k == [m EXCEPT !.keys = TRUE]
<1>1. m \in Node /\ m.proto = n.proto /\ m.host = host /\ Link(m) \in Links
  BY DEF Node, Link, Links, Addresses
<1>2. k \in Node /\ k.proto = n.proto /\ k.host = host /\ Link(k) \in Links
  BY DEF Node, Link, Links, Addresses
<1> HIDE DEF m, k
<1>3. /\ [k EXCEPT !.status = "running", !.link = Link(k)] \in Node
      /\ [k EXCEPT !.status = "running", !.link = Link(k)].proto = n.proto
      /\ [k EXCEPT !.status = "running", !.link = Link(k)].host = host
  BY <1>2 DEF Node
<1>4. /\ [m EXCEPT !.status = "stopped", !.link = None] \in Node
      /\ [m EXCEPT !.status = "stopped", !.link = None].proto = n.proto
      /\ [m EXCEPT !.status = "stopped", !.link = None].host = host
  BY <1>1 DEF Node, Links
<1>5. /\ [m EXCEPT !.link = Link(m)] \in Node
      /\ [m EXCEPT !.link = Link(m)].proto = n.proto
      /\ [m EXCEPT !.link = Link(m)].host = host
  BY <1>1 DEF Node
<1> QED BY <1>1, <1>3, <1>4, <1>5 DEF Ensured, m, k

(* The list a start makes of a saved one. *)
LEMMA EnsuredListType ==
  ASSUME NEW d \in Saved, UniqueIn(d.list), NEW generated \in BOOLEAN,
         NEW host \in Addresses
  PROVE  LET list == EnsuredList(d, host, generated) IN
         list \in Seq(Node) /\ UniqueIn(list)
<1> DEFINE ensured == [i \in 1..Len(d.list) |->
                         Ensured(d.list[i], host, d.settings.cert, generated)]
           n == NewNode("shadowsocks", host, d.settings.cert, FALSE)
<1>1. d.list \in Seq(Node) /\ Len(d.list) \in Nat
      /\ \A i \in 1..Len(d.list) : d.list[i] \in Node
  BY DEF Saved
<1>2. \A i \in 1..Len(d.list) : ensured[i] \in Node /\ ensured[i].proto = d.list[i].proto
  BY <1>1, EnsuredType
<1>3. ensured \in [1..Len(d.list) -> Node]
  BY <1>2
<1> HIDE DEF ensured
<1>4. ensured \in Seq(Node) /\ Len(ensured) = Len(d.list)
  BY <1>1, <1>3, FunctionIsSeq
<1>5. UniqueIn(ensured)
  BY <1>2, <1>4 DEF UniqueIn
<1>6. n \in Node /\ n.proto = "shadowsocks"
  BY NewNodeType DEF Protocols, NeedNoCert
<1> HIDE DEF n
<1>7. CASE LacksShadowsocks(d.list)
  <2>1. \A i \in 1..Len(ensured) : ensured[i].proto # n.proto
    BY <1>2, <1>4, <1>6, <1>7 DEF LacksShadowsocks, HasProtocol
  <2>2. /\ Append(ensured, n) \in Seq(Node)
        /\ Len(Append(ensured, n)) = Len(ensured) + 1
        /\ \A i \in 1..Len(ensured) : Append(ensured, n)[i] = ensured[i]
        /\ Append(ensured, n)[Len(ensured) + 1] = n
    BY <1>4, <1>6
  <2>3. UniqueIn(Append(ensured, n))
    BY <1>4, <1>5, <1>6, <2>1, <2>2 DEF UniqueIn
  <2> QED BY <1>7, <2>2, <2>3 DEF EnsuredList, ensured, n
<1>8. CASE ~LacksShadowsocks(d.list)
  BY <1>4, <1>5, <1>8 DEF EnsuredList, ensured
<1> QED BY <1>7, <1>8

(* No stopped node of the one list is running in the other. *)
NothingRevived(before, after) ==
  \A i \in 1..Len(before) : before[i].status = "stopped" => after[i].status # "running"

(* What Start does for one outcome of key generation and one address. *)
StartsWith(p, generated, host) ==
  LET list == EnsuredList(disk, host, generated)
      changed == EnsureChanges(disk, host, generated)
  IN /\ Len(list) <= MaxLen
     /\ settings' = [disk.settings EXCEPT !.domain =
                       IF NamesItself(disk, host) THEN host ELSE @]
     /\ \E a \in Arrays, c \in Len(list)..MaxLen :
          /\ nodes' = [arr |-> a, len |-> Len(list)]
          /\ heap' = [b \in Arrays |-> Holding(IF b = a THEN list ELSE <<>>)]
          /\ cap' = [b \in Arrays |-> IF b = a THEN c ELSE 0]
     /\ \/ /\ disk' = [settings |-> settings', list |-> list]
           /\ drift' = (drift \/ Busy # {})
           /\ IF changed THEN Boot(p) ELSE Serve
        \/ disk' = disk /\ drift' = TRUE /\ Serve
     /\ revived' = (revived \/ (~changed /\ \E i \in 1..Len(disk.list) :
            disk.list[i].status = "stopped" /\ list[i].status = "running"))

LEMMA StartKeeps ==
  ASSUME Stored, NEW p \in Handlers, Start(p)
  PROVE  /\ Kept
         /\ \/ disk' = [settings |-> settings', list |-> NodeList']
            \/ disk' = disk /\ drift' = TRUE /\ solo' = {}
         /\ view' = [q \in Handlers |-> NoSlice]
         /\ \E generated \in BOOLEAN,
               host \in ConfiguredHost(disk.settings.domain, disk.settings.direct) :
             /\ host \in Addresses
             /\ settings' = [disk.settings EXCEPT !.domain =
                               IF NamesItself(disk, host) THEN host ELSE @]
             /\ NodeList' = EnsuredList(disk, host, generated)
             /\ nodes'.len = Len(NodeList')
             /\ ~drift' => /\ ~drift /\ Busy = {}
                           /\ IF EnsureChanges(disk, host, generated) THEN Boot(p) ELSE Serve
             /\ ~revived' =>
                  /\ ~revived
                  /\ EnsureChanges(disk, host, generated) \/ NothingRevived(disk.list, NodeList')
<1>1. PICK generated \in Keygen,
           host \in ConfiguredHost(disk.settings.domain, disk.settings.direct) :
        LET list == EnsuredList(disk, host, generated) IN
        /\ Len(list) <= MaxLen
        /\ settings' = [disk.settings EXCEPT !.domain =
                          IF NamesItself(disk, host) THEN host ELSE @]
        /\ \E a \in Arrays, c \in Len(list)..MaxLen :
             /\ nodes' = [arr |-> a, len |-> Len(list)]
             /\ heap' = [b \in Arrays |-> Holding(IF b = a THEN list ELSE <<>>)]
             /\ cap' = [b \in Arrays |-> IF b = a THEN c ELSE 0]
        /\ \/ disk' = [settings |-> settings', list |-> list]
           \/ disk' = disk /\ drift' = TRUE /\ solo' = {}
        /\ ~drift' => /\ ~drift /\ Busy = {}
                      /\ IF EnsureChanges(disk, host, generated) THEN Boot(p) ELSE Serve
        /\ ~revived' =>
             ~revived /\ (EnsureChanges(disk, host, generated) \/ NothingRevived(disk.list, list))
  <2>1. PICK generated \in Keygen,
             host \in ConfiguredHost(disk.settings.domain, disk.settings.direct) :
          StartsWith(p, generated, host)
    BY DEF Start, StartsWith
  <2>2. ~drift' => /\ ~drift /\ Busy = {}
                   /\ IF EnsureChanges(disk, host, generated) THEN Boot(p) ELSE Serve
    BY <2>1 DEF StartsWith
  <2>3. ~revived' => \/ ~revived /\ EnsureChanges(disk, host, generated)
                     \/ ~revived /\ NothingRevived(disk.list, EnsuredList(disk, host, generated))
    BY <2>1 DEF StartsWith, NothingRevived
  <2> QED BY <2>1, <2>2, <2>3 DEF StartsWith, Serve
<1> DEFINE list == EnsuredList(disk, host, generated)
<1>2. disk \in Saved /\ disk.settings \in Settings /\ UniqueIn(disk.list)
  BY DEF Stored, Saved, UniqueProtocol
<1>3. generated \in BOOLEAN /\ host \in Addresses
  BY <1>2, ConfiguredHostType, AddressAssumption DEF Settings
<1>4. list \in Seq(Node) /\ UniqueIn(list)
  BY <1>2, <1>3, EnsuredListType
<1> HIDE DEF list
<1>5. PICK a \in Arrays, c \in Len(list)..MaxLen :
        /\ nodes' = [arr |-> a, len |-> Len(list)]
        /\ heap' = [b \in Arrays |-> Holding(IF b = a THEN list ELSE <<>>)]
        /\ cap' = [b \in Arrays |-> IF b = a THEN c ELSE 0]
  BY <1>1 DEF list
<1>6. Len(list) \in 0..MaxLen /\ MaxLen \in Nat
  BY <1>1, <1>4, RecommendedAssumption DEF list
<1>7. /\ Holding(list) \in [1..MaxLen -> Node \cup {None}]
      /\ \A i \in 1..Len(list) : Holding(list)[i] = list[i] /\ list[i] \in Node
  BY <1>4, <1>6 DEF Holding
<1>8. Holding(<<>>) \in [1..MaxLen -> Node \cup {None}]
  BY <1>6 DEF Holding
<1>9. heap' \in Heaps /\ cap' \in [Arrays -> 0..MaxLen]
  BY <1>5, <1>6, <1>7, <1>8 DEF Heaps
<1>10. nodes' \in Slices /\ nodes'.arr = a /\ nodes'.len = Len(list)
       /\ \A i \in 1..Len(list) : heap'[a][i] = list[i] /\ list[i] \in Node
  BY <1>5, <1>6, <1>7 DEF Slices
<1>11. Shows(nodes)'
  BY <1>10 DEF Shows
<1>12. NodeList' = list
  <2>1. /\ NodeList' \in Seq(Node) /\ Len(NodeList') = Len(list)
        /\ \A i \in 1..Len(list) : NodeList'[i] = list[i]
    BY <1>6, <1>10, ElementList DEF NodeList, Elements
  <2> QED BY <1>4, <2>1
<1>13. view' = [q \in Handlers |-> NoSlice]
  BY DEF Start
<1>14. \A q \in Handlers : Shows(view[q])'
  BY <1>6, <1>13 DEF Shows, NoSlice, Slices
<1>15. settings' \in Settings
  BY <1>1, <1>2, <1>3 DEF Settings
<1>16. UniqueIn(NodeList)'
  BY <1>4, <1>12 DEF UniqueIn
<1>17. \/ disk' = [settings |-> settings', list |-> NodeList']
       \/ disk' = disk /\ drift' = TRUE /\ solo' = {}
  BY <1>1, <1>12 DEF list
<1>18. /\ NodeList' = EnsuredList(disk, host, generated) /\ nodes'.len = Len(NodeList')
       /\ ~drift' => /\ ~drift /\ Busy = {}
                     /\ IF EnsureChanges(disk, host, generated) THEN Boot(p) ELSE Serve
       /\ ~revived' =>
            /\ ~revived
            /\ EnsureChanges(disk, host, generated) \/ NothingRevived(disk.list, NodeList')
  BY <1>1, <1>10, <1>12 DEF list
<1>19. Kept
  BY <1>9, <1>10, <1>11, <1>14, <1>15, <1>16 DEF Kept
<1> QED BY <1>1, <1>3, <1>13, <1>17, <1>18, <1>19

-----------------------------------------------------------------------------
(* Stored is inductive. *)

LEMMA KeptIsStored ==
  ASSUME Stored, Kept, view' \in [Handlers -> Slices],
         disk' = disk \/ disk' = [settings |-> settings', list |-> NodeList']
  PROVE  Stored'
<1>1. nodes'.len \in 0..MaxLen /\ \A i \in 1..nodes'.len : heap'[nodes'.arr][i] \in Node
  BY DEF Kept, Shows, Slices
<1>2. NodeList' \in Seq(Node) /\ Len(NodeList') \in 0..MaxLen
  BY <1>1, ElementList DEF NodeList, Elements
<1>3. disk' \in Saved /\ Len(disk'.list) <= MaxLen /\ UniqueIn(disk.list)'
  <2>1. CASE disk' = disk
    BY <2>1 DEF Stored, UniqueProtocol, UniqueIn
  <2>2. CASE disk' = [settings |-> settings', list |-> NodeList']
    BY <1>2, <2>2, RecommendedAssumption DEF Kept, Saved, UniqueIn
  <2> QED BY <2>1, <2>2
<1> QED BY <1>3 DEF Kept, Stored, UniqueProtocol

LEMMA StoreUntouched ==
  ASSUME Stored, UNCHANGED store, nodes.arr \in Arrays,
         view' \in [Handlers -> Slices],
         \A q \in Handlers : view'[q] \in {view[q], nodes, NoSlice},
         disk' = disk \/ disk' = [settings |-> settings', list |-> NodeList']
  PROVE  Stored'
<1>1. UNCHANGED <<settings, nodes, heap, cap>>
  BY DEF store
<1>2. \A q \in Handlers : Shows(view[q])'
  <2> SUFFICES ASSUME NEW q \in Handlers PROVE Shows(view[q])'
    OBVIOUS
  <2>1. Shows(view'[q])
    <3>1. Shows(view[q]) /\ Shows(nodes)
      BY DEF Stored
    <3>2. Shows(NoSlice)
      BY RecommendedAssumption DEF Shows, NoSlice, Slices
    <3> QED BY <3>1, <3>2
  <2> QED BY <1>1, <2>1 DEF Shows
<1>3. Shows(nodes)' /\ UniqueIn(NodeList)'
  <2>1. NodeList' = NodeList
    BY <1>1 DEF NodeList, Elements
  <2>2. UniqueIn(NodeList)'
    BY <2>1 DEF Stored, UniqueProtocol, UniqueIn
  <2>3. Shows(nodes)'
    BY <1>1 DEF Stored, Shows
  <2> QED BY <2>2, <2>3
<1>4. Kept
  BY <1>1, <1>2, <1>3 DEF Kept, Stored
<1> QED BY <1>4, KeptIsStored

LEMMA StoredInit == Init => Stored
<1> SUFFICES ASSUME Init PROVE Stored
  OBVIOUS
<1>1. disk \in Saved /\ Len(disk.list) <= MaxLen /\ UniqueIn(disk.list)
  BY FirstStatesAssumption DEF Init
<1>2. MaxLen \in Nat /\ NoSlice \in Slices /\ Shows(NoSlice)
  BY RecommendedAssumption DEF NoSlice, Slices, Shows
<1>3. heap \in Heaps /\ cap \in [Arrays -> 0..MaxLen]
  <2>1. Holding(<<>>) \in [1..MaxLen -> Node \cup {None}]
    BY <1>2 DEF Holding
  <2> QED BY <1>2, <2>1 DEF Init, Heaps
<1>4. Len(NodeList) = 0 /\ UniqueIn(NodeList)
  <2>1. nodes.len = 0 /\ nodes.len \in 0..MaxLen
    BY <1>2 DEF Init, NoSlice
  <2>2. Len(NodeList) = 0
    BY <2>1, ElementList DEF NodeList, Elements
  <2> QED BY <2>2 DEF UniqueIn
<1>5. settings \in Settings /\ up = "down" /\ Busy = {}
  BY <1>1 DEF Init, Saved, Busy
<1>6. Shows(nodes) /\ view \in [Handlers -> Slices] /\ \A p \in Handlers : Shows(view[p])
  BY <1>2 DEF Init
<1> QED BY <1>1, <1>3, <1>4, <1>5, <1>6 DEF Stored, UniqueProtocol

LEMMA StoredStep ==
  ASSUME Stored, [Next]_vars
  PROVE  Stored'
<1>1. ASSUME NEW p \in Handlers,
             \/ Setup(p) \/ AddNode(p) \/ RemoveNode(p) \/ ToggleNode(p)
             \/ UpdateSettings(p)
      PROVE  Stored'
  <2>1. Kept
    BY <1>1, SetupKeeps, AddNodeKeeps, RemoveNodeKeeps, ToggleNodeKeeps,
       UpdateSettingsKeeps
  <2>2. Update(p)
    BY <1>1 DEF Setup, AddNode, RemoveNode, ToggleNode, UpdateSettings
  <2>3. view' = view
        /\ (disk' = disk \/ disk' = [settings |-> settings', list |-> NodeList'])
    BY <2>2 DEF Update, Save, work
  <2>4. view' \in [Handlers -> Slices]
    BY <2>3 DEF Stored
  <2> QED BY <2>1, <2>3, <2>4, KeptIsStored
<1>2. ASSUME NEW p \in Handlers, UpdateElsewhere(p) \/ SingBoxConfig(p) \/ ChainHandler(p)
      PROVE  Stored'
  <2>1. UNCHANGED store /\ UNCHANGED view /\ up = "up"
    BY <1>2 DEF UpdateElsewhere, SingBoxConfig, ChainHandler, Update, work,
                ReceiveAuthenticated, Receive
  <2>2. NodeList' = NodeList /\ settings' = settings
    BY <2>1 DEF store, NodeList, Elements
  <2>3. disk' = disk \/ disk' = [settings |-> settings', list |-> NodeList']
    BY <1>2, <2>2 DEF UpdateElsewhere, SingBoxConfig, ChainHandler, Update, Save
  <2>4. nodes.arr \in Arrays /\ view' \in [Handlers -> Slices]
    BY <2>1 DEF Stored
  <2> QED BY <2>1, <2>3, <2>4, StoreUntouched
<1>3. ASSUME NEW p \in Handlers, Apply(p)
      PROVE  Stored'
  <2>1. UNCHANGED <<store, disk>> /\ p \in Busy
    BY <1>3 DEF Apply, Snapshot, RenderNode, OpenConfig, ConfigInstalled, ConfigRefused,
                RestartService, RestartFails, Return, Busy
  <2>2. \/ view' = [view EXCEPT ![p] = nodes]
        \/ view' = [view EXCEPT ![p] = NoSlice]
        \/ view' = view
    BY <1>3 DEF Apply, Snapshot, RenderNode, OpenConfig, ConfigInstalled, ConfigRefused,
                RestartService, RestartFails, Return, work
  <2>3. nodes \in Slices /\ NoSlice \in Slices
    BY RecommendedAssumption DEF Stored, Shows, NoSlice, Slices
  <2>4. /\ view' \in [Handlers -> Slices]
        /\ \A q \in Handlers : view'[q] \in {view[q], nodes, NoSlice}
    BY <2>2, <2>3 DEF Stored
  <2>5. nodes.arr \in Arrays
    BY <2>1 DEF Stored
  <2> QED BY <2>1, <2>4, <2>5, StoreUntouched
<1>4. ASSUME NEW p \in Handlers, Start(p)
      PROVE  Stored'
  <2>1. /\ Kept
        /\ disk' = disk \/ disk' = [settings |-> settings', list |-> NodeList']
        /\ view' = [q \in Handlers |-> NoSlice]
    BY <1>4, StartKeeps
  <2>2. view' \in [Handlers -> Slices]
    BY <2>1, RecommendedAssumption DEF NoSlice, Slices
  <2> QED BY <2>1, <2>2, KeptIsStored
<1>5. CASE UNCHANGED vars
  <2>1. UNCHANGED <<settings, nodes, heap, cap, view, disk, up>>
        /\ NodeList' = NodeList /\ Busy' = Busy
    BY <1>5 DEF vars, NodeList, Elements, Busy
  <2>2. Shows(nodes)' /\ \A p \in Handlers : Shows(view[p])'
    BY <2>1 DEF Stored, Shows
  <2>3. UniqueProtocol'
    BY <2>1 DEF Stored, UniqueProtocol, UniqueIn
  <2> QED BY <2>1, <2>2, <2>3 DEF Stored
<1> QED BY <1>1, <1>2, <1>3, <1>4, <1>5 DEF Next, Handle

LEMMA StoredAlways == Spec => []Stored
BY StoredInit, StoredStep, PTL DEF Spec

(* No interleaving of handlers, pipelines and restarts makes the store or
   state.json hold two nodes of one protocol. *)
THEOREM ProtocolsStayUnique == Spec => []UniqueProtocol
<1>1. Stored => UniqueProtocol
  BY DEF Stored
<1> QED BY StoredAlways, <1>1, PTL

-----------------------------------------------------------------------------
(* After a start nothing is listed as running that cannot run. *)

Startable(n, cert) ==
  n.status = "running" =>
    Runnable(n.proto, cert) /\ (n.proto = "vless-reality" => n.keys)

LEMMA EnsuredIsStartable ==
  ASSUME NEW n \in Node, NEW host, NEW cert, NEW generated \in BOOLEAN
  PROVE  Startable(Ensured(n, host, cert, generated), cert)
<1> DEFINE m == [n EXCEPT !.host = host]
           k == [m EXCEPT !.keys = TRUE]
<1>1. CASE n.proto = "vless-reality" /\ (n.keys \/ generated)
  <2>1. Ensured(n, host, cert, generated)
          = [k EXCEPT !.status = "running", !.link = Link(k)]
    BY <1>1 DEF Ensured
  <2>2. /\ [k EXCEPT !.status = "running", !.link = Link(k)].proto = "vless-reality"
        /\ [k EXCEPT !.status = "running", !.link = Link(k)].keys
    BY <1>1 DEF Node
  <2> QED BY <2>1, <2>2 DEF Startable, Runnable, NeedNoCert
<1>2. CASE n.proto = "vless-reality" /\ ~(n.keys \/ generated)
  BY <1>2 DEF Ensured, Startable, Node
<1>3. CASE n.proto # "vless-reality" /\ Runnable(n.proto, cert)
  BY <1>3 DEF Ensured, Startable, Node
<1>4. CASE n.proto # "vless-reality" /\ ~Runnable(n.proto, cert)
  BY <1>4 DEF Ensured, Startable, Node
<1> QED BY <1>1, <1>2, <1>3, <1>4

LEMMA StartedList ==
  ASSUME NEW d \in Saved, NEW generated \in BOOLEAN, NEW host \in Addresses
  PROVE  \A i \in 1..Len(EnsuredList(d, host, generated)) :
           Startable(EnsuredList(d, host, generated)[i], d.settings.cert)
<1> DEFINE ensured == [i \in 1..Len(d.list) |->
                         Ensured(d.list[i], host, d.settings.cert, generated)]
           n == NewNode("shadowsocks", host, d.settings.cert, FALSE)
<1>1. Len(d.list) \in Nat /\ \A i \in 1..Len(d.list) : d.list[i] \in Node
  BY DEF Saved
<1>2. \A i \in 1..Len(d.list) : ensured[i] \in Node /\ Startable(ensured[i], d.settings.cert)
  BY <1>1, EnsuredType, EnsuredIsStartable
<1>3. ensured \in [1..Len(d.list) -> Node]
  BY <1>2
<1> HIDE DEF ensured
<1>4. ensured \in Seq(Node) /\ Len(ensured) = Len(d.list)
  BY <1>1, <1>3, FunctionIsSeq
<1>5. n \in Node /\ Startable(n, d.settings.cert)
  BY NewNodeType DEF Startable, Runnable, Protocols, NeedNoCert
<1> HIDE DEF n
<1>6. CASE LacksShadowsocks(d.list)
  <2>1. /\ Len(Append(ensured, n)) = Len(ensured) + 1
        /\ \A i \in 1..Len(ensured) : Append(ensured, n)[i] = ensured[i]
        /\ Append(ensured, n)[Len(ensured) + 1] = n
    BY <1>4, <1>5
  <2>2. \A i \in 1..Len(Append(ensured, n)) :
          Startable(Append(ensured, n)[i], d.settings.cert)
    BY <1>1, <1>2, <1>4, <1>5, <2>1
  <2> QED BY <1>6, <2>2 DEF EnsuredList, ensured, n
<1>7. CASE ~LacksShadowsocks(d.list)
  BY <1>2, <1>4, <1>7 DEF EnsuredList, ensured
<1> QED BY <1>6, <1>7

(* Whatever state file a start finds, and whatever process it replaces. *)
THEOREM StartLeavesRunnable == Spec => StartStopsWhatCannotRun
<1> DEFINE A == (\E p \in Handlers : Start(p)) =>
                  \A i \in 1..nodes'.len : Startable(NodeList'[i], settings'.cert)
<1>1. Stored => A
  <2> SUFFICES ASSUME Stored, NEW p \in Handlers, Start(p)
               PROVE  \A i \in 1..nodes'.len : Startable(NodeList'[i], settings'.cert)
    OBVIOUS
  <2>1. PICK generated \in BOOLEAN, host \in Addresses :
          /\ settings' = [disk.settings EXCEPT !.domain =
                            IF NamesItself(disk, host) THEN host ELSE @]
          /\ NodeList' = EnsuredList(disk, host, generated)
          /\ nodes'.len = Len(NodeList')
    BY StartKeeps
  <2>2. disk \in Saved /\ settings'.cert = disk.settings.cert
    BY <2>1 DEF Stored, Saved, Settings
  <2> QED BY <2>1, <2>2, StartedList
<1>2. Stored => [(\E p \in Handlers : Start(p)) =>
                   \A i \in 1..nodes'.len :
                     LET n == NodeList'[i] IN
                     n.status = "running" =>
                       Runnable(n.proto, settings'.cert)
                         /\ (n.proto = "vless-reality" => n.keys)]_vars
  BY <1>1 DEF Startable
<1> QED BY <1>2, StoredAlways, PTL DEF StartStopsWhatCannotRun

-----------------------------------------------------------------------------
(* state.json and memory. *)

(* A pipeline that runs alone began after a save that succeeded: only the GET,
   which saves nothing, may run alone over a failed one, and it never reaches
   the restart that would clear the excuse. *)
Accounted ==
  /\ pc \in [Handlers -> Places]
  /\ \A p \in Handlers : pc[p] = "restart" => p \notin viewing
  /\ (~drift \/ \E p \in Handlers : p \in solo /\ p \notin viewing) =>
       disk = [settings |-> settings, list |-> NodeList]

LEMMA AccountedStep ==
  ASSUME Stored, Accounted, [Next]_vars
  PROVE  Accounted'
<1> DEFINE Written == disk' = [settings |-> settings', list |-> NodeList']
           Excused == drift' = TRUE /\ solo' = {}
<1> USE DEF Goto, Places
<1>1. ASSUME NEW p \in Handlers, Update(p)
      PROVE  Accounted'
  <2>1. /\ Written \/ Excused
        /\ pc' = pc \/ pc' = [pc EXCEPT ![p] = "snapshot"]
        /\ viewing' = viewing
    BY <1>1 DEF Update, Save, Launch
  <2> QED BY <2>1 DEF Accounted
<1>2. ASSUME NEW p \in Handlers, UpdateElsewhere(p)
      PROVE  Accounted'
  <2>1. NodeList' = NodeList /\ settings' = settings
    BY <1>2 DEF UpdateElsewhere, store, NodeList, Elements
  <2> QED BY <1>2, <2>1 DEF UpdateElsewhere, history, Accounted
<1>3. ASSUME NEW p \in Handlers, SingBoxConfig(p)
      PROVE  Accounted'
  <2>1. NodeList' = NodeList /\ settings' = settings /\ disk' = disk
    BY <1>3 DEF SingBoxConfig, store, NodeList, Elements
  <2>2. /\ pc' = [pc EXCEPT ![p] = "snapshot"]
        /\ solo' \subseteq {p}
        /\ viewing' = viewing \cup {p}
        /\ ~drift' => ~drift
    BY <1>3 DEF SingBoxConfig, Launch
  <2> QED BY <2>1, <2>2 DEF Accounted
<1>4. ASSUME NEW p \in Handlers, Apply(p)
      PROVE  Accounted'
  <2>1. NodeList' = NodeList /\ settings' = settings /\ disk' = disk
    BY <1>4 DEF Apply, Snapshot, RenderNode, OpenConfig, ConfigInstalled, ConfigRefused,
                RestartService, RestartFails, Return, store, NodeList, Elements
  <2>2. CASE Snapshot(p) \/ RenderNode(p) \/ OpenConfig(p)
    <3>1. /\ pc' \in [Handlers -> Places]
          /\ \A q \in Handlers : pc'[q] = "restart" => pc[q] = "restart"
          /\ UNCHANGED <<viewing, solo, drift>>
      BY <2>2 DEF Snapshot, RenderNode, OpenConfig, history, Accounted
    <3> QED BY <2>1, <3>1 DEF Accounted
  <2>3. CASE ConfigInstalled(p) \/ ConfigRefused(p)
    <3>1. /\ pc' = [pc EXCEPT ![p] = IF p \in viewing THEN "idle" ELSE "restart"]
          /\ viewing' = viewing \ {p}
          /\ p \in viewing => solo' = solo \ {p}
          /\ solo' \subseteq solo
      BY <2>3 DEF ConfigInstalled, ConfigRefused, Return
    <3>2. drift' = drift \/ drift' = (drift \/ p \notin viewing)
      BY <2>3 DEF ConfigInstalled, ConfigRefused
    <3>3. ~drift' => ~drift
      BY <3>2
    <3> QED BY <2>1, <3>1, <3>3 DEF Accounted
  <2>4. CASE RestartService(p) \/ RestartFails(p)
    <3>1. /\ pc' = [pc EXCEPT ![p] = "idle"] /\ p \notin viewing
          /\ viewing' = viewing /\ solo' = solo \ {p}
      BY <2>4 DEF RestartService, RestartFails, Accounted
    <3>2. drift' = TRUE \/ drift' = (drift /\ p \notin solo)
      BY <2>4 DEF RestartService, RestartFails
    <3>3. ~drift' => ~drift \/ p \in solo
      BY <3>2
    <3> QED BY <2>1, <3>1, <3>3 DEF Accounted
  <2> QED BY <1>4, <2>2, <2>3, <2>4 DEF Apply
<1>5. ASSUME NEW p \in Handlers, Start(p)
      PROVE  Accounted'
  <2>1. Written \/ Excused
    BY <1>5, StartKeeps
  <2>2. /\ pc' \in [Handlers -> Places]
        /\ \A q \in Handlers : pc'[q] # "restart"
        /\ viewing' = {}
    BY <1>5 DEF Start, Serve, Boot
  <2> QED BY <2>1, <2>2 DEF Accounted
<1>6. CASE UNCHANGED vars
  BY <1>6 DEF vars, Accounted, NodeList, Elements
<1> QED
  BY <1>1, <1>2, <1>3, <1>4, <1>5, <1>6
  DEF Next, Handle, Setup, AddNode, RemoveNode, ToggleNode, UpdateSettings, ChainHandler

(* state.json has what memory has once a pipeline that ran alone has come to
   its end and no save has failed since. *)
THEOREM DiskFollowsStore == Spec => []DiskHasStore
<1>1. Init => Accounted
  BY DEF Init, Accounted, Places
<1>2. Accounted => DiskHasStore
  BY DEF Accounted, DiskHasStore
<1> QED BY <1>1, <1>2, AccountedStep, StoredAlways, PTL DEF Spec
=============================================================================
