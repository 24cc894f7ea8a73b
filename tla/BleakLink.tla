------------------------------ MODULE BleakLink ------------------------------
(***************************************************************************)
(* BleakTransport of bleak.py over the native BLE client.  The session     *)
(* makes one connect() or disconnect() call at a time; around that call    *)
(* the native link comes up, refuses, is lost or resists its teardown, and *)
(* the task that awaits it is cancelled, any number of times.              *)
(***************************************************************************)
EXTENDS Integers, FiniteSets

CONSTANT MaxClients     \* bound: native clients, one per connect()

ASSUME LinkAssumption == MaxClients \in Nat

Clients == 1 .. MaxClients
NoClient == 0

VARIABLES
    native,     \* clients whose is_connected is true
    link,       \* _client, and the client whose _disconnect_handler is set
    call,       \* the call in progress, and its local variables
    losses      \* losses of the link that reached the session's handler

linkVars == <<native, link, call, losses>>

NoCall == [kind |-> "none", at |-> "none", client |-> NoClient,
           handler |-> NoClient, cancelled |-> FALSE]
Outcomes == {"none", "returned", "raised", "cancelled"}

Links == [client : 0 .. MaxClients, handler : 0 .. MaxClients,
          made : 0 .. MaxClients, outcome : Outcomes]
Calls == [kind : {"none", "connect", "disconnect"},
          at : {"none", "native", "up", "teardown"},
          client : 0 .. MaxClients, handler : 0 .. MaxClients, cancelled : BOOLEAN]

LinkTypeOK ==
    /\ native \subseteq Clients
    /\ link \in Links
    /\ call \in Calls
    /\ losses \subseteq Clients

LinkInit ==
    /\ native = {}
    /\ link = [client |-> NoClient, handler |-> NoClient, made |-> 0, outcome |-> "none"]
    /\ call = NoCall
    /\ losses = {}

LinkConnected == link.client \in native

(* connect(): refused over a live link; otherwise a client is made and its *)
(* native connect awaited.                                                 *)
OpenLink ==
    /\ call.kind = "none" /\ ~LinkConnected /\ link.made < MaxClients
    /\ LET client == link.made + 1 IN
         /\ link' = [client |-> client, handler |-> client, made |-> client,
                     outcome |-> "none"]
         /\ call' = [kind |-> "connect", at |-> "native", client |-> client,
                     handler |-> client, cancelled |-> FALSE]
    /\ UNCHANGED <<native, losses>>

(* By the time the task resumes the link may be lost again. *)
ConnectReturns ==
    /\ call.at = "up"
    /\ link' = [link EXCEPT !.outcome = "returned"]
    /\ call' = NoCall
    /\ UNCHANGED <<native, losses>>

(* Slip: the handler is not given back to a link that stayed up. *)
ConcludedDetached(up, cancelled) ==
    /\ link' = [link EXCEPT
         !.client = IF up THEN call.client ELSE NoClient,
         !.outcome = IF cancelled THEN "cancelled"
                     ELSE IF up \/ call.kind = "connect" THEN "raised" ELSE "returned"]
    /\ call' = NoCall

(* The end of a teardown, of whichever call: a link that is still up stays *)
(* reachable with the handler it had, and a cancellation that arrived on   *)
(* the way is raised only now.                                             *)
Concluded(up, cancelled) ==
    /\ link' = [
         client |-> IF up THEN call.client ELSE NoClient,
         handler |-> IF up THEN call.handler ELSE NoClient,
         made |-> link.made,
         outcome |-> IF cancelled THEN "cancelled"
                     ELSE IF up \/ call.kind = "connect" THEN "raised" ELSE "returned"]
    /\ call' = NoCall

(* _disconnect_native: nothing to await when the link is down. *)
TearDownOrConclude(cancelled) ==
    IF call.client \in native
    THEN /\ link' = [link EXCEPT !.handler = NoClient]
         /\ call' = [call EXCEPT !.at = "teardown", !.cancelled = cancelled]
    ELSE Concluded(FALSE, cancelled)

(* The native connect raises, or the awaiting task is cancelled, perhaps   *)
(* at the very moment the link came up.                                    *)
ConnectFails ==
    /\ call.at \in {"native", "up"}
    /\ \E cancelled \in BOOLEAN : TearDownOrConclude(cancelled)
    /\ UNCHANGED <<native, losses>>

(* disconnect(): without a client there is only the handler to forget. *)
DisconnectNothing ==
    /\ call.kind = "none" /\ link.client = NoClient
    /\ link' = [link EXCEPT !.handler = NoClient, !.outcome = "returned"]
    /\ UNCHANGED <<native, call, losses>>

CloseLink ==
    /\ call.kind = "none" /\ link.client # NoClient
    /\ IF LinkConnected
       THEN /\ link' = [client |-> link.client, handler |-> NoClient, made |-> link.made,
                        outcome |-> "none"]
            /\ call' = [kind |-> "disconnect", at |-> "teardown", client |-> link.client,
                        handler |-> link.handler, cancelled |-> FALSE]
       ELSE /\ link' = [client |-> NoClient, handler |-> NoClient, made |-> link.made,
                        outcome |-> "returned"]
            /\ call' = call
    /\ UNCHANGED <<native, losses>>

(* A cancellation during the shielded teardown is only remembered. *)
CancelTeardown ==
    /\ call.at = "teardown"
    /\ call' = [call EXCEPT !.cancelled = TRUE]
    /\ UNCHANGED <<native, link, losses>>

(* The native disconnect is over: the link went down, or it raised, or     *)
(* returned, with the link still up.                                       *)
TeardownEnds ==
    /\ call.at = "teardown"
    /\ \E up \in BOOLEAN :
         /\ up => call.client \in native
         /\ native' = IF up THEN native ELSE native \ {call.client}
         /\ Concluded(up, call.cancelled)
    /\ UNCHANGED losses

(* The peripheral: the link comes up during the native connect, and may be *)
(* lost at any time; _on_disconnected() passes a loss to the handler.      *)
LinkComesUp ==
    /\ call.at = "native"
    /\ native' = native \cup {call.client}
    /\ call' = [call EXCEPT !.at = "up"]
    /\ UNCHANGED <<link, losses>>

LinkLost ==
    /\ \E client \in native :
         /\ native' = native \ {client}
         /\ losses' = IF link.handler # NoClient
                        THEN losses \cup {link.handler} ELSE losses
    /\ UNCHANGED <<link, call>>

LinkNext ==
    \/ OpenLink
    \/ ConnectReturns
    \/ ConnectFails
    \/ DisconnectNothing
    \/ CloseLink
    \/ CancelTeardown
    \/ TeardownEnds
    \/ LinkComesUp
    \/ LinkLost

LinkSpec == LinkInit /\ [][LinkNext]_linkVars

-----------------------------------------------------------------------------
(* A live link is never hidden: whatever call was cancelled or refused on  *)
(* the way, its client is the one disconnect() would reach, and once the   *)
(* call is over the session's handler is attached to it again.             *)
NoHiddenLink ==
    \A client \in native :
        /\ link.client = client
        /\ call.kind = "none" => link.handler = client

(* So a loss between two calls always reaches the session, and it is never *)
(* taken for the loss of another connection.                               *)
LossReported ==
    [][\A client \in native \ native' :
         call.kind = "none" /\ call'.kind = "none" => losses' = losses \cup {client}]_linkVars
=============================================================================
