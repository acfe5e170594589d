----------------------------- MODULE MCClients -----------------------------
(* The parts of the client applications whose promises are also about what *)
(* happens in the end, for TLC: the store and the websocket of the web     *)
(* application, and the file manager of the desktop. They share no state,  *)
(* so that a behaviour is one of the part it has chosen in the beginning,  *)
(* and the others stay as they are.                                        *)
EXTENDS CallStore, CallSocket, JsonFile, TLC

CONSTANTS me, phone, o1

VARIABLE part

clientVars == <<storeVars, socketVars, jsonVars, part>>

ClientsInit ==
    /\ part \in {"store", "socket", "json"}
    /\ StoreInit /\ SocketInit /\ JsonInit
    /\ part # "store" => ~rings

ClientsNext ==
    /\ UNCHANGED part
    /\ \/ part = "store" /\ StoreNext /\ UNCHANGED <<socketVars, jsonVars>>
       \/ part = "socket" /\ SocketNext /\ UNCHANGED <<storeVars, jsonVars>>
       \/ part = "json" /\ JsonNext /\ UNCHANGED <<storeVars, socketVars>>

\* The fairness of each part, while it is the one that runs.
ClientsFairness ==
    /\ \A c \in Call : WF_storeVars(part = "store" /\ RingTimeout(c))
    /\ WF_socketVars(part = "socket" /\ (Connected \/ RetryTimeout))
    /\ WF_jsonVars(part = "json" /\ (Pool \/ Callback \/ SaveSync))

ClientsSpec == ClientsInit /\ [][ClientsNext]_clientVars /\ ClientsFairness

\* Every variable of the parts has its type.
TypeOK == StoreTypeOK /\ SocketTypeOK /\ JsonTypeOK
=============================================================================
