---------------------------- MODULE ProxyClients ----------------------------
(* The pages of the web application that talk to the provider proxy: the      *)
(* shell of a lease (DeploymentLeaseShell.tsx), its logs or events            *)
(* (DeploymentLogs.tsx), and the downloads of a file or of the logs           *)
(* (BackgroundTaskProvider.tsx), one client of one kind in a behaviour. The   *)
(* proxy keeps nothing in common between clients, so one shows what each sees. *)
(*                                                                            *)
(* A shell or log page keeps one websocket, which its hook opens again when it *)
(* is cut, with the messages sent meanwhile; an effect asks for the stream     *)
(* selected unless the page thinks it has one. A download opens a websocket    *)
(* of its own, once.                                                          *)
EXTENDS ProviderProxy

CONSTANTS
  Leases, Services,   \* what the page's menus offer; a url is a pair of them
  FirstLease, FirstService,
  None,
  MaxShown,           \* bound of the model: frames per socket of a page
  MaxSelections,      \* bound of the model: selections by the user
  MaxSent             \* bound of the model: keys and pings

ASSUME ProxyClientsAssumption ==
  /\ Urls = Leases \X Services
  /\ FirstLease \in Leases /\ FirstService \in Services
  /\ None \notin Leases \cup Services
  /\ MaxShown \in Nat /\ MaxSelections \in Nat /\ MaxSent \in Nat

VARIABLES
  kind,       \* "shell", "logs", "file" or "logFile"
  conn,       \* the page's connection
  outbox,     \* messages waiting for the connection to be open
  page,       \* state of a shell or log page
  download,   \* state of a download
  sent,       \* keys and pings sent so far
  selections  \* selections so far

clientVars == <<kind, conn, outbox, page, download, sent, selections>>
allVars == <<proxyVars, clientVars>>

Streams == {"shell", "logs"}
Downloads == {"file", "logFile"}

(* service is None until the status of the lease has arrived: then the menu of *)
(* services is shown (canSetConnection).                                      *)
Page == [lease : Leases, service : Services \cup {None},
         currentUrl : Urls \cup {None}, isConnectionEstablished : BOOLEAN,
         isConnectionClosed : BOOLEAN, isChangingSocket : BOOLEAN]

(* content counts the frames collected.                                       *)
Download == [content : Nat, outcome : {"none", "saved", "failed", "cancelled"}]

Send(m) ==
  IF link[conn] = "up"
  THEN toProxy' = [toProxy EXCEPT ![conn] = Append(@, m)] /\ UNCHANGED outbox
  ELSE outbox' = Append(outbox, m) /\ UNCHANGED toProxy

-----------------------------------------------------------------------------
(* The websocket *)

Connect ==
  /\ link[conn] = "unused"
  /\ link' = [link EXCEPT ![conn] = "up"]
  /\ toProxy' = [toProxy EXCEPT ![conn] = outbox]
  /\ outbox' = <<>>
  /\ UNCHANGED <<toClient, openSocket, sockets, kind, conn, page, download,
                 sent, selections>>

(* The client's end is closed: what is on its way to the client is lost.      *)
Cut ==
  /\ link' = [link EXCEPT ![conn] = "cut"]
  /\ toClient' = [toClient EXCEPT ![conn] = <<>>]

(* shouldReconnect: a page goes on with a new connection.                     *)
ConnectionLost ==
  /\ kind \in Streams /\ link[conn] = "up" /\ conn < MaxConns
  /\ Cut
  /\ conn' = conn + 1
  /\ UNCHANGED <<toProxy, openSocket, sockets, kind, outbox, page, download,
                 sent, selections>>

-----------------------------------------------------------------------------
(* Shell and log pages *)

(* The effect on lease, service and isConnectionEstablished: the selected     *)
(* stream is asked for.                                                       *)
Ask(p) ==
  /\ page' = [p EXCEPT !.currentUrl = <<p.lease, p.service>>]
  /\ Send([type |-> "open", url |-> <<p.lease, p.service>>])

(* The status of the selected lease arrives; the effect returns early when a  *)
(* message has come in meanwhile.                                             *)
StatusArrives ==
  /\ kind \in Streams /\ page.service = None
  /\ LET p == [page EXCEPT !.service = FirstService]
     IN  IF page.isConnectionEstablished
         THEN page' = p /\ UNCHANGED <<toProxy, outbox>>
         ELSE Ask(p)
  /\ UNCHANGED <<link, toClient, openSocket, sockets, kind, conn, download,
                 sent, selections>>

SelectService ==
  /\ kind \in Streams /\ page.service # None /\ selections < MaxSelections
  /\ \E v \in Services \ {page.service} :
       Ask([page EXCEPT !.service = v, !.isConnectionEstablished = FALSE,
                        !.isChangingSocket = kind = "shell"])
  /\ selections' = selections + 1
  /\ UNCHANGED <<link, toClient, openSocket, sockets, kind, conn, download, sent>>

(* Nothing is asked for before the new lease's status has arrived.            *)
SelectLease ==
  /\ kind \in Streams /\ selections < MaxSelections
  /\ \E l \in Leases \ {page.lease} :
       page' = [page EXCEPT !.lease = l, !.service = None,
                            !.isConnectionEstablished = FALSE,
                            !.isChangingSocket = kind = "shell"]
  /\ selections' = selections + 1
  /\ UNCHANGED <<proxyVars, kind, conn, outbox, download, sent>>

(* A key or a paste goes to the url asked for last.                           *)
Key ==
  /\ kind = "shell" /\ page.currentUrl # None /\ sent < MaxSent
  /\ Send([type |-> "data", url |-> page.currentUrl])
  /\ sent' = sent + 1
  /\ UNCHANGED <<link, toClient, openSocket, sockets, kind, conn, page, download,
                 selections>>

(* useCustomWebSocket's interval.                                             *)
SendPing ==
  /\ kind = "shell" /\ sent < MaxSent
  /\ Send(Ping)
  /\ sent' = sent + 1
  /\ UNCHANGED <<link, toClient, openSocket, sockets, kind, conn, page, download,
                 selections>>

\* Mutant of ShellReceived: output leaves isChangingSocket as it is.
KeepsChangingSocket(m) ==
  CASE m = "output" -> [page EXCEPT !.isConnectionEstablished = TRUE,
                                    !.isConnectionClosed = FALSE]
    [] m = "closed" /\ ~page.isChangingSocket -> [page EXCEPT !.isConnectionClosed = TRUE]
    [] OTHER -> page

(* onCommandResponseReceived: a frame that reads as an exit code is not shown. *)
ShellReceived(m) ==
  CASE m = "output" -> [page EXCEPT !.isConnectionEstablished = TRUE,
                                    !.isConnectionClosed = FALSE,
                                    !.isChangingSocket = FALSE]
    [] m = "closed" /\ ~page.isChangingSocket -> [page EXCEPT !.isConnectionClosed = TRUE]
    [] OTHER -> page

(* onLogReceived: any message will do.                                        *)
LogReceived == [page EXCEPT !.isConnectionEstablished = TRUE]

PageReceive ==
  /\ kind \in Streams /\ toClient[conn] # <<>>
  /\ page' = IF kind = "shell" THEN ShellReceived(Head(toClient[conn])) ELSE LogReceived
  /\ toClient' = [toClient EXCEPT ![conn] = Tail(@)]
  /\ UNCHANGED <<link, toProxy, openSocket, sockets, kind, conn, outbox, download,
                 sent, selections>>

-----------------------------------------------------------------------------
(* Downloads *)

Ended(outcome) == download' = [download EXCEPT !.outcome = outcome] /\ Cut

\* Mutant of FileReceived: the end of the stream taken for the end of the file.
FileReceivedOrClosed(m) ==
  CASE m = "output" -> download' = [download EXCEPT !.content = @ + 1] /\ UNCHANGED link
    [] m \in {"result", "closed"} /\ download.content > 0 -> Ended("saved")
    [] OTHER -> Ended("failed")

(* downloadFileFromShell: every frame is taken for a part of the file until    *)
(* one reads as an exit code, whichever, without an error message: then the    *)
(* file is taken for complete. Anything else ends the download.                *)
FileReceived(m) ==
  CASE m = "output" -> download' = [download EXCEPT !.content = @ + 1] /\ UNCHANGED link
    [] m = "result" /\ download.content > 0 -> Ended("saved")
    [] OTHER -> Ended("failed")

(* downloadLogs: what cannot be parsed is ignored.                            *)
LogLineReceived(m) ==
  /\ download' = IF m = "output" THEN [download EXCEPT !.content = @ + 1] ELSE download
  /\ UNCHANGED link

DownloadReceive ==
  /\ kind \in Downloads /\ link[conn] = "up" /\ toClient[conn] # <<>>
  /\ LET m == Head(toClient[conn]) IN
     IF kind = "file" THEN FileReceived(m) ELSE LogLineReceived(m)
  /\ toClient' = IF download'.outcome = "none" THEN [toClient EXCEPT ![conn] = Tail(@)]
                 ELSE [toClient EXCEPT ![conn] = <<>>]
  /\ UNCHANGED <<toProxy, openSocket, sockets, kind, conn, outbox, page, sent, selections>>

(* The timer of downloadLogs: no line for three seconds, from the beginning   *)
(* on. A connection that is not open yet is closed as well.                   *)
LogsAreIdle ==
  /\ kind = "logFile" /\ download.outcome = "none"
  /\ Ended("saved")
  /\ UNCHANGED <<toProxy, openSocket, sockets, kind, conn, outbox, page, sent, selections>>

(* The user cancels, or the connection is lost.                               *)
DownloadEnds ==
  /\ kind \in Downloads /\ download.outcome = "none"
  /\ \/ Ended("cancelled")
     \/ link[conn] = "up" /\ Ended("failed")
  /\ UNCHANGED <<toProxy, openSocket, sockets, kind, conn, outbox, page, sent, selections>>

-----------------------------------------------------------------------------
ClientsInit ==
  /\ ProxyInit
  /\ kind \in Streams \cup Downloads
  /\ conn = 1
  /\ outbox = IF kind \in Streams THEN <<>>
              ELSE <<[type |-> "open", url |-> <<FirstLease, FirstService>>]>>
  /\ page = [lease |-> FirstLease, service |-> None, currentUrl |-> None,
             isConnectionEstablished |-> FALSE, isConnectionClosed |-> FALSE,
             isChangingSocket |-> FALSE]
  /\ download = [content |-> 0, outcome |-> "none"]
  /\ sent = 0 /\ selections = 0

(* A page's sockets are kept shorter than the files of a download, and all but *)
(* the first of a shell are plain: to a page a frame of either channel is the  *)
(* same, and a frame that reads as an exit code changes nothing.               *)
Brief ==
  kind \in Streams =>
    \A s \in DOMAIN sockets' :
      /\ sockets'[s].emitted <= MaxShown
      /\ ~sockets'[s].plain => kind = "shell" /\ s = 1

ClientsNext ==
  \/ ProxyStep /\ Brief /\ UNCHANGED clientVars
  \/ Connect \/ ConnectionLost
  \/ StatusArrives \/ SelectService \/ SelectLease \/ Key \/ SendPing \/ PageReceive
  \/ DownloadReceive \/ LogsAreIdle \/ DownloadEnds

ClientsSpec == ClientsInit /\ [][ClientsNext]_allVars

-----------------------------------------------------------------------------
(* Types of the proxy's and the client's state.                               *)
ClientsTypeOK ==
  /\ ProxyTypeOK
  /\ kind \in Streams \cup Downloads
  /\ conn \in Conns
  /\ outbox \in Seq(Request)
  /\ page \in Page /\ download \in Download
  /\ sent \in 0..MaxSent /\ selections \in 0..MaxSelections

(* No socket to a provider is left open behind a client's back: one that is    *)
(* connecting or open is the current socket of a connection the proxy still   *)
(* has, however selections, reconnections and cancellations interleave.       *)
NoOrphanSockets ==
  \A s \in DOMAIN sockets :
    sockets[s].state \in {"connecting", "open", "done"}
      => /\ openSocket[sockets[s].conn] = s
         /\ link[sockets[s].conn] \in {"up", "cut"}

(* What is typed is never run by another shell than the one whose url it was   *)
(* typed for, although the shell is replaced while keys are on their way. And  *)
(* a key is what opens a shell, without the certificate, only after the        *)
(* websocket was cut and opened again: the page does not ask for its shell on  *)
(* the new connection, and only until it does.                                *)
KeysReachTheirShell ==
  \A s \in DOMAIN sockets :
    /\ sockets[s].got \subseteq {sockets[s].url}
    /\ ~sockets[s].cert
         => /\ sockets[s].conn > 1
            /\ \A t \in 1..(s - 1) : sockets[t].conn = sockets[s].conn => ~sockets[t].cert

AtRest ==
  /\ link[conn] = "up" /\ toProxy[conn] = <<>> /\ toClient[conn] = <<>>
  /\ \A s \in DOMAIN sockets : ~Pending(s)

(* When everything sent has arrived, a shell page that believes to be         *)
(* connected and whose current shell was closed tells the user so, and one     *)
(* whose shell has printed something and is open does not.                    *)
LossIsShown ==
  AtRest /\ kind = "shell" /\ page.isConnectionEstablished /\ openSocket[conn] # NoSocket
    => LET socket == sockets[openSocket[conn]] IN
       /\ socket.state = "closed" => page.isConnectionClosed
       /\ socket.state = "open" /\ socket.emitted > 0 => ~page.isConnectionClosed

(* A file is saved only when all of it has arrived, wherever the provider, the *)
(* network or the user interrupt the download. The code cannot tell a file     *)
(* from three things, which are excepted: the output of a command that ended   *)
(* with an exit code other than 0, what the command wrote to its standard      *)
(* error, and a file with a frame that reads as an exit code. Each of them is  *)
(* saved under the name of the file.                                           *)
SavedFileIsWhole ==
  kind = "file" /\ download.outcome = "saved" /\ (\A s \in DOMAIN sockets : sockets[s].plain)
    => download.content = MaxOutput
==============================================================================
