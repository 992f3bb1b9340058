------------------------------ MODULE SyncServer ------------------------------
(***************************************************************************)
(* The WebSocket server for remote controls (main/ipc/syncServer.ts).      *)
(*                                                                         *)
(* sync:start creates a server that listens, or fails, later; the module   *)
(* keeps one reference (wss) to "the" server, which is only set by the     *)
(* listening event.  What the clients send is modelled in ScreenState;     *)
(* here only who receives the live:update and screens:state messages       *)
(* matters.                                                                *)
(***************************************************************************)
EXTENDS Naturals, FiniteSets

CONSTANTS
    Servers,      \* the WebSocketServer objects that the calls create
    Ports,        \* the ports asked for
    BusyPorts,    \* those that another program of the machine holds
    Clients,      \* the remote controls
    None          \* no server, no port

ASSUME ServerAssumption == None \notin Servers \cup Ports /\ BusyPorts \subseteq Ports

VARIABLES
    server,     \* server[s]: its stage, its port, and whether its call is answered
    wss,        \* the server that stop, status and the broadcasts know of
    remote,     \* remote[c]: the server of client c, and whether a broadcast
                \* since its connection has missed it
    status,     \* the last sync:status sent to the regie
    raced       \* a start for another port was accepted before wss was set

srvVars == <<server, wss, remote, status, raced>>

SrvInit ==
    /\ server = [s \in Servers |-> [stage |-> "none", port |-> None, answered |-> FALSE]]
    /\ wss = None
    /\ remote = [c \in Clients |-> [of |-> None, missed |-> FALSE]]
    /\ status = [running |-> FALSE, clients |-> 0]
    /\ raced = FALSE

Holders(p) == {s \in Servers : server[s].stage = "listening" /\ server[s].port = p}

Free(p) == p \notin BusyPorts /\ Holders(p) = {}

Binding == {s \in Servers : server[s].stage = "binding"}

\* getStatus and broadcastStatus, for the next values of wss and remote.
broadcastStatus(w, rem) ==
    status' = [running |-> w # None,
               clients |-> IF w = None THEN 0
                           ELSE Cardinality({c \in Clients : rem[c].of = w})]

startServer_NoCheck(s, p) ==
    /\ server[s].stage = "none"
    /\ server' = [server EXCEPT ![s] = [stage |-> "binding", port |-> p, answered |-> FALSE]]
    /\ raced' = (raced \/ \E t \in Binding : server[t].port # p)
    /\ UNCHANGED <<wss, remote, status>>

\* With a server in wss the call is answered at once and creates nothing.
startServer(s, p) ==
    /\ wss = None
    /\ server[s].stage = "none"
    /\ server' = [server EXCEPT ![s] = [stage |-> "binding", port |-> p, answered |-> FALSE]]
    /\ raced' = (raced \/ \E t \in Binding : server[t].port # p)
    /\ UNCHANGED <<wss, remote, status>>

listening(s) ==
    /\ server[s].stage = "binding"
    /\ Free(server[s].port)
    /\ server' = [server EXCEPT ![s].stage = "listening", ![s].answered = TRUE]
    /\ wss' = s
    /\ broadcastStatus(s, remote)
    /\ UNCHANGED <<remote, raced>>

serverError_Silent(s) ==
    /\ server[s].stage = "binding"
    /\ ~Free(server[s].port)
    /\ server' = [server EXCEPT ![s].stage = "failed"]
    /\ UNCHANGED <<wss, remote, status, raced>>

\* EADDRINUSE.  The call is only answered when no server runs.
serverError(s) ==
    /\ server[s].stage = "binding"
    /\ ~Free(server[s].port)
    /\ server' = [server EXCEPT ![s].stage = "failed", ![s].answered = wss = None]
    /\ UNCHANGED <<wss, remote, status, raced>>

connection(c) ==
    /\ remote[c].of = None
    /\ \E s \in Servers :
        /\ server[s].stage = "listening"
        /\ remote' = [remote EXCEPT ![c] = [of |-> s, missed |-> FALSE]]
        /\ broadcastStatus(wss, remote')
    /\ UNCHANGED <<server, wss, raced>>

clientClose(c) ==
    /\ remote[c].of # None
    /\ remote' = [remote EXCEPT ![c].of = None]
    /\ broadcastStatus(wss, remote')
    /\ UNCHANGED <<server, wss, raced>>

\* syncBroadcastLive and syncBroadcastScreenState
broadcastToClients ==
    /\ remote' = [c \in Clients |-> [remote[c] EXCEPT !.missed = @ \/ (remote[c].of \notin {None, wss})]]
    /\ UNCHANGED <<server, wss, status, raced>>

\* The clients' connections end with client.close(); a server that is still
\* binding is not touched.
stopServer ==
    /\ wss # None
    /\ server' = [server EXCEPT ![wss].stage = "closed"]
    /\ remote' = [c \in Clients |-> IF remote[c].of = wss
                                    THEN [remote[c] EXCEPT !.of = None] ELSE remote[c]]
    /\ wss' = None
    /\ broadcastStatus(None, remote')
    /\ UNCHANGED raced

ServerStep ==
    \/ \E s \in Servers, p \in Ports : startServer(s, p)
    \/ \E s \in Servers : listening(s) \/ serverError(s)
    \/ \E c \in Clients : connection(c) \/ clientClose(c)
    \/ broadcastToClients
    \/ stopServer

-----------------------------------------------------------------------------
(* Properties *)

\* The regie's last sync:status tells whether a server runs and how many remote
\* controls it has: no event of syncServer.ts changes either silently.
StatusShown ==
    status = [running |-> wss # None,
              clients |-> Cardinality({c \in Clients : wss # None /\ remote[c].of = wss})]

\* Unless two starts for different ports overlapped (startServer tests wss, which
\* only the listening event sets), the server that listens is the one that
\* sync:stop closes, and every connected remote control gets every live:update.
NoOrphanServer ==
    ~raced => /\ \A s \in Servers : server[s].stage = "listening" => wss = s
              /\ \A c \in Clients : ~remote[c].missed

\* A start call is answered, or another server has taken its place: an error
\* event with no server running resolves the promise.
StartAnswered ==
    \A s \in Servers :
        server[s].stage = "binding" ~> (server[s].answered \/ wss # None \/ server[s].stage = "none")

\* The regie and the remote controls are never out of step with the WebSocket
\* server (syncServer.ts): what runs is what sync:status says and what sync:stop
\* closes, whichever starts, stops, errors and disconnections overlap.
ServerUnderControl == StatusShown /\ NoOrphanServer
=============================================================================
