--------------------------- MODULE MCChainPairing ---------------------------
(* Constants of the ChainPairing runs. *)
EXTENDS ChainPairing, TLC

CONSTANTS a, b, c, atA, atB, atC, oldA, linkA, linkB, linkC

(* Every server has one endpoint, by which everybody knows it. *)
Two == {a, b}
TwoEndpoints == {atA, atB}
TwoAt == atA :> a @@ atB :> b
TwoOrigins == a :> {atA} @@ b :> {atB}
TwoSelf == a :> atA @@ b :> atB
TwoLinks == {linkA, linkB}
TwoExitOf == linkA :> a @@ linkB :> b

PeerA == [endpoint |-> atA, link |-> linkA]
PeerB == [endpoint |-> atB, link |-> linkB]
PeerC == [endpoint |-> atC, link |-> linkC]

(* Strangers, or each the other's entry and exit. *)
StrangersOrMutual ==
  {a :> <<>> @@ b :> <<>>, a :> <<PeerB>> @@ b :> <<PeerA>>}
Strangers == {a :> <<>> @@ b :> <<>>}

Three == {a, b, c}
ThreeEndpoints == {atA, atB, atC}
ThreeAt == TwoAt @@ atC :> c
(* Nobody asks for codes, or uses one, at server b. *)
ThreeOrigins == a :> {atA} @@ b :> {} @@ c :> {atC}
ThreeSelf == TwoSelf @@ c :> atC
ThreeLinks == {linkA, linkB, linkC}
ThreeExitOf == linkA :> a @@ linkB :> b @@ linkC :> c

(* One entry with two exits, the second of which is an entry of the first. *)
TwoExits == {a :> <<PeerB, PeerC>> @@ b :> <<>> @@ c :> <<PeerB>>}

(* Server a has a certificate and names itself https://a:8443, but its
   administrator opened the panel at http://a:8088. *)
AliasEndpoints == {atA, atB, oldA}
AliasAt == TwoAt @@ oldA :> a
AliasOrigins == a :> {oldA} @@ b :> {atB}

(* What a run of lists, codes and names may leave out: no guard and no list depends on
   what the configurations say, on the other histories, or on whether a sender still
   waits. *)
NamesOnly ==
  <<lists, withdrawn, events,
    [r \in Requests |-> [req[r] EXCEPT !.outbound = None, !.overtaken = FALSE,
                                       !.sole = FALSE, !.waiting = FALSE]]>>
=============================================================================
