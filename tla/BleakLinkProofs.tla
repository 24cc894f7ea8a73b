--------------------------- MODULE BleakLinkProofs ---------------------------
(***************************************************************************)
(* A live native link is never hidden, for any number of clients.          *)
(***************************************************************************)
EXTENDS BleakLink, TLAPS

(* What a call in progress knows agrees with what the transport stores.    *)
CallHoldsClient ==
    call.kind # "none" =>
        /\ call.at \in {"native", "up", "teardown"}
        /\ call.client = link.client /\ call.client # NoClient
        /\ call.handler = call.client
        /\ call.at \in {"native", "up"} => link.handler = call.client

LinkInv ==
    /\ LinkTypeOK
    /\ link.client \in 0 .. link.made
    /\ native \subseteq {link.client}
    /\ call.kind = "none" <=> call.at = "none"
    /\ CallHoldsClient
    /\ call.kind = "none" /\ link.client \in native => link.handler = link.client

USE LinkAssumption DEF NoClient, Clients, Outcomes

LEMMA InitInv == LinkInit => LinkInv
BY DEF LinkInit, LinkInv, LinkTypeOK, Links, Calls, CallHoldsClient, NoCall

(* The end of a teardown re-establishes everything, whichever way it ended. *)
LEMMA ConcludedInv ==
    ASSUME LinkInv, NEW up \in BOOLEAN, NEW cancelled \in BOOLEAN,
           call.kind # "none", Concluded(up, cancelled), losses' = losses,
           up => native' = native,
           ~up => native' = native \ {call.client}
    PROVE  LinkInv'
<1>1. /\ link'.client = IF up THEN call.client ELSE NoClient
      /\ link'.handler = IF up THEN call.handler ELSE NoClient
      /\ link'.made = link.made
  BY DEF Concluded, LinkInv, LinkTypeOK, Links, Calls
<1>2. call'.kind = "none" /\ call'.at = "none"
  BY DEF Concluded, NoCall
<1>3. LinkTypeOK'
  <2>1. link' \in Links
    <3>1. link.made \in 0 .. MaxClients /\ {call.client, call.handler} \subseteq 0 .. MaxClients
      BY DEF LinkInv, LinkTypeOK, Links, Calls
    <3> QED BY <3>1 DEF Concluded, Links
  <2>2. call' \in Calls
    BY DEF Concluded, NoCall, Calls
  <2> QED BY <2>1, <2>2 DEF LinkInv, LinkTypeOK
<1>4. native' \subseteq {link'.client} /\ link'.client \in 0 .. link'.made
  <2>1. call.client = link.client /\ link.made \in Nat
        /\ link.client \in 0 .. link.made /\ native \subseteq {link.client}
    BY DEF LinkInv, LinkTypeOK, Links, Calls, CallHoldsClient
  <2>2. CASE up
    BY <1>1, <2>1, <2>2
  <2>3. CASE ~up
    BY <1>1, <2>1, <2>3
  <2> QED BY <2>2, <2>3
<1>5. link'.client \in native' => link'.handler = link'.client
  BY <1>1 DEF LinkInv, LinkTypeOK, Links, Calls, CallHoldsClient
<1> QED BY <1>2, <1>3, <1>4, <1>5 DEF LinkInv, CallHoldsClient

LEMMA StepInv == LinkInv /\ [LinkNext]_linkVars => LinkInv'
<1> SUFFICES ASSUME LinkInv, [LinkNext]_linkVars PROVE LinkInv'
  OBVIOUS
<1>1. CASE OpenLink
  <2>1. /\ link'.client = link.made + 1 /\ link'.handler = link.made + 1
        /\ link'.made = link.made + 1 /\ native' = native /\ native = {}
    BY <1>1 DEF OpenLink, LinkInv, LinkTypeOK, Links, Calls, LinkConnected
  <2>2. /\ call'.kind = "connect" /\ call'.at = "native"
        /\ call'.client = link.made + 1 /\ call'.handler = link.made + 1
    BY <1>1 DEF OpenLink
  <2>3. LinkTypeOK'
    <3>1. link.made + 1 \in Clients /\ native' = native /\ losses' = losses
      BY <1>1 DEF OpenLink, LinkInv, LinkTypeOK, Links, Calls
    <3>2. link \in Links
      BY DEF LinkInv, LinkTypeOK, Links, Calls
    <3>3. link' \in Links
      BY <1>1, <3>1, <3>2 DEF OpenLink, Links
    <3>4. call' \in Calls
      BY <1>1, <3>1 DEF OpenLink, Calls
    <3> QED BY <3>1, <3>3, <3>4 DEF LinkInv, LinkTypeOK, Links, Calls
  <2> QED BY <2>1, <2>2, <2>3 DEF LinkInv, LinkTypeOK, Links, Calls, CallHoldsClient
<1>2. CASE ConnectReturns
  BY <1>2 DEF ConnectReturns, LinkInv, LinkTypeOK, Links, Calls, CallHoldsClient, NoCall
<1>3. CASE ConnectFails
  <2>1. PICK cancelled \in BOOLEAN : TearDownOrConclude(cancelled)
    BY <1>3 DEF ConnectFails
  <2>2. call.kind # "none" /\ native' = native /\ losses' = losses
    BY <1>3 DEF ConnectFails, LinkInv
  <2>3. CASE call.client \in native
    <3>1. /\ link' = [link EXCEPT !.handler = NoClient]
          /\ call' = [call EXCEPT !.at = "teardown", !.cancelled = cancelled]
      BY <2>1, <2>3 DEF TearDownOrConclude
    <3>2. link' \in Links /\ link'.client = link.client /\ link'.made = link.made
      BY <3>1 DEF LinkInv, LinkTypeOK, Links
    <3>3. /\ call' \in Calls /\ call'.kind = call.kind /\ call'.at = "teardown"
          /\ call'.client = call.client /\ call'.handler = call.handler
      BY <3>1 DEF LinkInv, LinkTypeOK, Calls
    <3> QED BY <2>2, <3>2, <3>3 DEF LinkInv, LinkTypeOK, CallHoldsClient
  <2>4. CASE call.client \notin native
    <3>1. Concluded(FALSE, cancelled) /\ native' = native \ {call.client}
      BY <2>1, <2>2, <2>4 DEF TearDownOrConclude
    <3> QED BY <3>1, <2>2, ConcludedInv
  <2> QED BY <2>3, <2>4
<1>4. CASE DisconnectNothing
  BY <1>4 DEF DisconnectNothing, LinkInv, LinkTypeOK, Links, Calls, CallHoldsClient, NoCall
<1>5. CASE CloseLink
  <2>1. LinkTypeOK'
    <3>1. link \in Links /\ call \in Calls
      BY DEF LinkInv, LinkTypeOK, Links, Calls
    <3>2. link' \in Links
      BY <1>5, <3>1 DEF CloseLink, Links
    <3>3. call' \in Calls
      <4>1. link.client \in 0 .. MaxClients /\ link.handler \in 0 .. MaxClients
        BY <3>1 DEF Links
      <4>2. CASE LinkConnected
        <5>1. call' = [kind |-> "disconnect", at |-> "teardown", client |-> link.client,
                       handler |-> link.handler, cancelled |-> FALSE]
          BY <1>5, <4>2 DEF CloseLink
        <5> QED BY <4>1, <5>1 DEF Calls
      <4>3. CASE ~LinkConnected
        BY <1>5, <3>1, <4>3 DEF CloseLink
      <4> QED BY <4>2, <4>3
    <3> QED BY <1>5, <3>2, <3>3 DEF CloseLink, LinkInv, LinkTypeOK, Links, Calls
  <2>2. CASE LinkConnected
    <3>1. /\ link'.client = link.client /\ link'.handler = NoClient
          /\ link'.made = link.made /\ native' = native
      BY <1>5, <2>2 DEF CloseLink, LinkInv, LinkTypeOK, Links, Calls
    <3>2. /\ call'.kind = "disconnect" /\ call'.at = "teardown"
          /\ call'.client = link.client /\ call'.handler = link.handler
      BY <1>5, <2>2 DEF CloseLink
    <3>3. link.handler = link.client /\ link.client # NoClient
      BY <1>5, <2>2 DEF CloseLink, LinkInv, LinkConnected
    <3> QED BY <2>1, <3>1, <3>2, <3>3 DEF LinkInv, LinkTypeOK, Links, Calls, CallHoldsClient
  <2>3. CASE ~LinkConnected
    <3>1. /\ link'.client = NoClient /\ link'.made = link.made /\ native' = native
          /\ native = {} /\ call' = call /\ call.kind = "none"
      BY <1>5, <2>3 DEF CloseLink, LinkInv, LinkTypeOK, Links, Calls, LinkConnected
    <3> QED BY <2>1, <3>1 DEF LinkInv, LinkTypeOK, Links, Calls, CallHoldsClient
  <2> QED BY <2>2, <2>3
<1>6. CASE CancelTeardown
  BY <1>6 DEF CancelTeardown, LinkInv, LinkTypeOK, Links, Calls, CallHoldsClient, NoCall
<1>7. CASE TeardownEnds
  <2>1. PICK up \in BOOLEAN :
          /\ native' = IF up THEN native ELSE native \ {call.client}
          /\ Concluded(up, call.cancelled)
    BY <1>7 DEF TeardownEnds
  <2>2. call.kind # "none" /\ call.cancelled \in BOOLEAN /\ losses' = losses
    BY <1>7 DEF TeardownEnds, LinkInv, LinkTypeOK, Links, Calls
  <2> QED BY <2>1, <2>2, ConcludedInv
<1>8. CASE LinkComesUp
  BY <1>8 DEF LinkComesUp, LinkInv, LinkTypeOK, Links, Calls, CallHoldsClient, NoCall
<1>9. CASE LinkLost
  <2>1. native' \subseteq native /\ link' = link /\ call' = call
    BY <1>9 DEF LinkLost
  <2>2. losses' \subseteq Clients
    <3>1. link.handler # NoClient => link.handler \in Clients
      BY DEF LinkInv, LinkTypeOK, Links
    <3>2. losses \subseteq Clients
      BY DEF LinkInv, LinkTypeOK
    <3> QED BY <1>9, <3>1, <3>2 DEF LinkLost
  <2> QED BY <2>1, <2>2 DEF LinkInv, LinkTypeOK, CallHoldsClient
<1>10. CASE UNCHANGED linkVars
  BY <1>10 DEF linkVars, LinkInv, LinkTypeOK, Links, Calls, CallHoldsClient, NoCall
<1> QED
  BY <1>1, <1>2, <1>3, <1>4, <1>5, <1>6, <1>7, <1>8, <1>9, <1>10 DEF LinkNext

THEOREM LinkInvariant == LinkSpec => []LinkInv
BY InitInv, StepInv, PTL DEF LinkSpec

(* Every variable of the transport keeps its type. *)
THEOREM LinkTypeCorrect == LinkSpec => []LinkTypeOK
<1>1. LinkInv => LinkTypeOK
  BY DEF LinkInv
<1> QED BY <1>1, LinkInvariant, PTL

(* Whatever call was cancelled, refused or failed on the way, a live link  *)
(* is the one disconnect() would reach, and between calls the session's    *)
(* handler is attached to it.                                              *)
THEOREM LinkNeverHidden == LinkSpec => []NoHiddenLink
<1>1. LinkInv => NoHiddenLink
  BY DEF LinkInv, NoHiddenLink, LinkTypeOK, Links, Calls
<1> QED BY <1>1, LinkInvariant, PTL

(* A loss of the link between two calls always reaches the session. *)
THEOREM LossReachesSession == LinkSpec => LossReported
<1>1. LinkInv /\ [LinkNext]_linkVars =>
        [\A client \in native \ native' :
           call.kind = "none" /\ call'.kind = "none" => losses' = losses \cup {client}]_linkVars
  <2> SUFFICES ASSUME LinkInv, LinkNext, NEW client \in native \ native',
                      call.kind = "none", call'.kind = "none"
               PROVE  losses' = losses \cup {client}
    OBVIOUS
  <2>1. CASE LinkLost
    BY <2>1 DEF LinkLost, LinkInv, LinkTypeOK, Links, Calls
  <2>2. CASE TeardownEnds
    BY <2>2 DEF TeardownEnds, LinkInv
  <2> QED
    BY <2>1, <2>2 DEF LinkNext, OpenLink, ConnectReturns, ConnectFails, DisconnectNothing,
       CloseLink, CancelTeardown, LinkComesUp
<1> QED BY <1>1, LinkInvariant, PTL DEF LinkSpec, LossReported
=============================================================================
