---------------------------- MODULE ProviderProxy ----------------------------
(* The websocket side of the provider proxy (provider-proxy/main.ts). A client *)
(* connection has at most one current socket to a provider, openSocket[id]: a  *)
(* message for the same url is sent on it, a message for another url           *)
(* terminates it and opens a new one. What a provider's socket emits is        *)
(* forwarded to the client that opened it, after its termination too. Nothing  *)
(* is awaited inside a handler, so each is one step; messages on their way are *)
(* queues, lost when the connection is cut. The statistics of /status and the  *)
(* plain http requests of POST / keep no state between requests.               *)
(*                                                                             *)
(* A frame is known by what its readers make of it, that is whether its text   *)
(* reads as a JSON object with an exit_code. They see neither the channel it   *)
(* came on (its first byte) nor which exit code it is; a socket's field plain  *)
(* keeps for the properties whether that would have mattered.                  *)
(*                                                                             *)
(* The ws library is modelled from its use: terminate() makes a socket emit    *)
(* what it had received, an error when it was still connecting, and its close, *)
(* within the next turns of the event loop, before another socket of the       *)
(* client can finish its handshake over the network.                           *)
EXTENDS Naturals, Sequences

CONSTANTS
  Urls,        \* addresses of shells and logs at the providers
  MaxConns,    \* bound of the model: client connections
  MaxSockets,  \* bound of the model: sockets to providers
  MaxOutput    \* bound of the model: frames of output per socket

ASSUME ProviderProxyAssumption ==
  MaxConns \in Nat \ {0} /\ MaxSockets \in Nat /\ MaxOutput \in Nat

VARIABLES
  link,        \* connection -> "unused", "up", "cut" or "gone" (the proxy knows)
  toProxy,     \* connection -> messages on their way to the proxy
  toClient,    \* connection -> messages on their way to the client
  openSocket,  \* connection -> its current socket, or NoSocket
  sockets      \* all sockets to providers, in the order they were opened

proxyVars == <<link, toProxy, toClient, openSocket, sockets>>

Conns == 1..MaxConns
NoSocket == 0

(* "open" carries the certificate and no data, "data" the reverse. What the    *)
(* client gets does not name the url it comes from: "output" is a frame of     *)
(* either channel, "result" one that reads as an exit_code of any value,       *)
(* "failure" one that has an error message too.                                *)
Request == [type : {"open", "data"}, url : Urls] \cup [type : {"ping"}]
Ping == [type |-> "ping"]
Reply == {"pong", "output", "result", "failure", "error", "closed"}

(* plain: all that came from it is the standard output of a command that has   *)
(* not failed, none of it reading as an exit code.                             *)
Socket == [conn : Conns, url : Urls, cert : BOOLEAN,
           state : {"connecting", "open", "done", "aborted", "ending", "closed"},
           emitted : 0..MaxOutput, plain : BOOLEAN, got : SUBSET Urls]

Pending(s) == sockets[s].state \in {"aborted", "ending"}
SetState(s, state) == [sockets EXCEPT ![s].state = state]

(* ws.send to a client that is not there does nothing.                         *)
Forward(c, replies) ==
  toClient' = IF link[c] = "up" THEN [toClient EXCEPT ![c] = @ \o replies] ELSE toClient

\* Mutant of TerminatedState: a socket that is still connecting is left alone.
TerminateOpened(state) == IF state \in {"open", "done"} THEN "ending" ELSE state

(* terminate() on a socket: nothing when it is closed already.                 *)
TerminatedState(state) ==
  CASE state = "connecting" -> "aborted"
    [] state \in {"open", "done"} -> "ending"
    [] OTHER -> state

(* The sockets after openSocket[id]?.terminate().                              *)
Terminated(c) ==
  IF openSocket[c] = NoSocket THEN sockets
  ELSE [sockets EXCEPT ![openSocket[c]].state = TerminatedState(@)]

-----------------------------------------------------------------------------
(* Messages of clients *)

\* Mutant of IsForOpenSocket: any current socket will do.
HasOpenSocket(c, m) == openSocket[c] # NoSocket

(* openSocket[id]?.url === url, whatever has become of that socket.            *)
IsForOpenSocket(c, m) == openSocket[c] # NoSocket /\ sockets[openSocket[c]].url = m.url

(* On the current socket. Without data there is nothing to split and send()    *)
(* throws while the socket is connecting: the client gets an error. On a       *)
(* socket that is closed the data is dropped, and only logged.                 *)
SendOn(c, m) ==
  LET s == openSocket[c] IN
  IF m.type = "open" \/ sockets[s].state = "connecting"
  THEN Forward(c, <<"error">>) /\ UNCHANGED sockets
  ELSE /\ sockets' = IF sockets[s].state \in {"open", "done"}
                     THEN [sockets EXCEPT ![s].got = @ \cup {m.url}] ELSE sockets
       /\ UNCHANGED toClient

(* providerWebSocket: a new socket, with the certificate the message has.      *)
OpenSocket(c, m) ==
  /\ Len(sockets) < MaxSockets
  /\ sockets' = Append(Terminated(c),
                       [conn |-> c, url |-> m.url, cert |-> m.type = "open",
                        state |-> "connecting", emitted |-> 0, plain |-> TRUE, got |-> {}])
  /\ openSocket' = [openSocket EXCEPT ![c] = Len(sockets) + 1]
  /\ UNCHANGED toClient

ProxyReceive(c) ==
  /\ link[c] \in {"up", "cut"} /\ toProxy[c] # <<>>
  /\ LET m == Head(toProxy[c]) IN
       \/ /\ m = Ping
          /\ Forward(c, <<"pong">>)
          /\ UNCHANGED <<openSocket, sockets>>
       \/ /\ m # Ping /\ IsForOpenSocket(c, m)
          /\ SendOn(c, m)
          /\ UNCHANGED openSocket
       \/ /\ m # Ping /\ ~IsForOpenSocket(c, m)
          /\ OpenSocket(c, m)
  /\ toProxy' = [toProxy EXCEPT ![c] = Tail(@)]
  /\ UNCHANGED link

SocketsAfterClose(c) == Terminated(c)

(* The client's connection has ended: its socket goes with it.                 *)
ProxyClose(c) ==
  /\ link[c] = "cut"
  /\ link' = [link EXCEPT ![c] = "gone"]
  /\ toProxy' = [toProxy EXCEPT ![c] = <<>>]
  /\ sockets' = SocketsAfterClose(c)
  /\ openSocket' = [openSocket EXCEPT ![c] = NoSocket]
  /\ UNCHANGED toClient

-----------------------------------------------------------------------------
(* Providers *)

(* A provider takes a connection with a certificate only.                      *)
SocketOpens(s) ==
  /\ sockets[s].state = "connecting" /\ sockets[s].cert
  /\ \A t \in 1..(s - 1) : sockets[t].conn = sockets[s].conn => ~Pending(t)
  /\ sockets' = SetState(s, "open")
  /\ UNCHANGED <<link, toProxy, toClient, openSocket>>

SocketRefused(s) ==
  /\ sockets[s].state = "connecting"
  /\ \A t \in 1..(s - 1) : sockets[t].conn = sockets[s].conn => ~Pending(t)
  /\ sockets' = SetState(s, "closed")
  /\ Forward(sockets[s].conn, <<"error", "closed">>)
  /\ UNCHANGED <<link, toProxy, openSocket>>

(* A frame of output, or of what the command writes to its standard error;    *)
(* after terminate() one that had been received before.                        *)
SocketOutput(s) ==
  /\ sockets[s].state \in {"open", "ending"} /\ sockets[s].emitted < MaxOutput
  /\ \E plain \in {sockets[s].plain, FALSE} :
       sockets' = [sockets EXCEPT ![s].emitted = @ + 1, ![s].plain = plain]
  /\ Forward(sockets[s].conn, <<"output">>)
  /\ UNCHANGED <<link, toProxy, openSocket>>

(* A frame of output that reads as an exit code; one per socket is enough.     *)
SocketMimics(s) ==
  /\ sockets[s].state \in {"open", "ending"} /\ sockets[s].plain
  /\ sockets' = [sockets EXCEPT ![s].plain = FALSE]
  /\ Forward(sockets[s].conn, <<"result">>)
  /\ UNCHANGED <<link, toProxy, openSocket>>

(* The command has ended: with exit code 0 after all of its output, with       *)
(* another one after any part of it, or it could not be run.                   *)
SocketResult(s) ==
  /\ sockets[s].state = "open"
  /\ \/ /\ sockets[s].emitted = MaxOutput
        /\ sockets' = SetState(s, "done")
        /\ Forward(sockets[s].conn, <<"result">>)
     \/ /\ sockets' = [sockets EXCEPT ![s].state = "done", ![s].plain = FALSE]
        /\ Forward(sockets[s].conn, <<"result">>)
     \/ /\ sockets' = SetState(s, "done")
        /\ Forward(sockets[s].conn, <<"failure">>)
  /\ UNCHANGED <<link, toProxy, openSocket>>

(* Closed by the provider or by the network, with or without a result.         *)
SocketCloses(s) ==
  /\ sockets[s].state \in {"open", "done"}
  /\ sockets' = SetState(s, "closed")
  /\ Forward(sockets[s].conn, <<"closed">>)
  /\ UNCHANGED <<link, toProxy, openSocket>>

TerminatedCloses(s) ==
  /\ Pending(s)
  /\ sockets' = SetState(s, "closed")
  /\ Forward(sockets[s].conn,
             IF sockets[s].state = "aborted" THEN <<"error", "closed">> ELSE <<"closed">>)
  /\ UNCHANGED <<link, toProxy, openSocket>>

ProxyStep ==
  \/ \E c \in Conns : ProxyReceive(c) \/ ProxyClose(c)
  \/ \E s \in DOMAIN sockets :
       \/ SocketOpens(s) \/ SocketRefused(s)
       \/ SocketOutput(s) \/ SocketMimics(s) \/ SocketResult(s)
       \/ SocketCloses(s) \/ TerminatedCloses(s)

ProxyInit ==
  /\ link = [c \in Conns |-> "unused"]
  /\ toProxy = [c \in Conns |-> <<>>]
  /\ toClient = [c \in Conns |-> <<>>]
  /\ openSocket = [c \in Conns |-> NoSocket]
  /\ sockets = <<>>

ProxyTypeOK ==
  /\ link \in [Conns -> {"unused", "up", "cut", "gone"}]
  /\ toProxy \in [Conns -> Seq(Request)]
  /\ toClient \in [Conns -> Seq(Reply)]
  /\ openSocket \in [Conns -> 0..MaxSockets]
  /\ sockets \in Seq(Socket) /\ Len(sockets) <= MaxSockets
==============================================================================
