---------------------------- MODULE VunmoServer ----------------------------
(***************************************************************************)
(* The connection layer of the Vunmo server (vunmo/vunmo-server.cc) with   *)
(* the clients that connect to it (vunmo/vunmo-client.cc).  The server's   *)
(* threads - client listener, request listener, workers - share            *)
(* client_conns and the descriptor table; a step of a thread is the code   *)
(* between two points where it can block or be overtaken.                  *)
(*                                                                         *)
(* The loops around these functions and the account lookup are stubs in    *)
(* the repository (vunmo-server.cc:3-143): they are modelled as the        *)
(* comments in their place say, and are external.                          *)
(*                                                                         *)
(* A client process that connects is a session.  A socket is named by its  *)
(* session and the hello sent on it; the server's descriptor for it is the *)
(* lowest free number, so numbers are reused.                              *)
(***************************************************************************)
EXTENDS Integers, Sequences, FiniteSets

CONSTANTS
    Ids,            \* client ids
    Sessions,       \* client processes, numbered
    IdOf,           \* IdOf[s]: the id session s connects with
    After,          \* After[s]: sessions that are gone before s starts
    MaxRequests,    \* MaxRequests[s]: requests session s makes
    Targets,        \* Targets[s]: the targets of its requests, or NoTarget
    Crashes,        \* sessions whose process may die at any time
    Strangers,      \* sessions that send a hello of an unknown type
    Workers,        \* worker threads (n_workers)
    Acceptor,       \* the client_listener thread
    Listener,       \* the request_listener thread
    Free,           \* the owner of a mutex nobody holds
    NoTarget,       \* no id
    MaxFds,         \* descriptors the process may have open for clients
    MayStop         \* whether stop() may be called

ASSUME ServerAssumption ==
    /\ IsFiniteSet(Ids) /\ Sessions \subseteq Nat \ {0} /\ IsFiniteSet(Sessions)
    /\ IdOf \in [Sessions -> Ids] /\ After \in [Sessions -> SUBSET Sessions]
    /\ MaxRequests \in [Sessions -> Nat] /\ NoTarget \notin Ids
    /\ Targets \in [Sessions -> SUBSET (Ids \cup {NoTarget})]
    /\ Crashes \subseteq Sessions /\ Strangers \subseteq Sessions
    /\ IsFiniteSet(Workers) /\ Acceptor # Listener
    /\ {Acceptor, Listener} \cap Workers = {}
    /\ Free \notin Workers \cup {Acceptor, Listener}
    /\ MaxFds \in Nat /\ MayStop \in BOOLEAN

VARIABLES
    client_conns,       \* per id: the client_conn, or NoConn
    incomplete_conns,   \* per id: a client_conn with a descriptor missing
    client_conns_mtx,   \* the thread that holds the map's mutex
    mtx,                \* per id: the thread that holds the client_conn's
    fds,                \* descriptor table: the socket behind each number
    backlog,            \* sockets accept() has yet to return
    work_queue,         \* requests the workers have yet to pop
    acceptor, listener, \* pc and locals of the two listeners
    worker,             \* per worker: pc and locals
    run,                \* "running", "stopping", "stopped", "exited" or "killed"
    client,             \* per session: pc, requests made, and what its two
                        \* sockets hold: unread (for the server), inbox, notices
    peer                \* per socket: the state of the client's end

mutexes == <<client_conns_mtx, mtx>>
threads == <<acceptor, listener, worker>>
network == <<backlog, client, peer>>
vars == <<client_conns, incomplete_conns, mutexes, fds, work_queue, threads, run,
          network>>

-----------------------------------------------------------------------------
Threads == Workers \cup {Acceptor, Listener}

\* REQUESTS_HELLO, NOTIFICATIONS_HELLO and any other type.
Hellos == {"requests", "notifications", "bad"}
Sockets == Sessions \X Hellos
NoSock == <<0, "none">>
RequestSock(s) == <<s, "requests">>
NoticeSock(s) == <<s, "notifications">>

\* -1, the descriptor a half made client_conn lacks, is 0 here.
NoFd == 0
Fds == 1 .. MaxFds

Conns == [request_fd : Fds \cup {NoFd}, notification_fd : Fds \cup {NoFd},
          is_connected : BOOLEAN, exists : BOOLEAN]
NoConn == [request_fd |-> NoFd, notification_fd |-> NoFd,
           is_connected |-> FALSE, exists |-> FALSE]

\* A request: its sender, the target of a payment or a charge, and `from', the
\* session it came from, which the program does not know.
Requests == [id : Ids, target : Ids \cup {NoTarget}, from : Sessions]
NoRequest == [id |-> NoTarget, target |-> NoTarget, from |-> 0]

\* A response or notification: whom the server means, and for whose request.
Messages == [type : {"response", "notification"}, to : Ids, about : Sessions]

registered == {i \in Ids : client_conns[i].exists}
SocketAt(f) == IF f \in Fds THEN fds[f] ELSE NoSock

\* The server's end of a socket is open while a descriptor, or the listen
\* queue of a running server, refers to it.
ServerEnd(sock) ==
    \/ \E f \in Fds : fds[f] = sock
    \/ run = "running" /\ \E n \in DOMAIN backlog : backlog[n] = sock

\* The table after close() on each number of F.  Closing a number that is not
\* open does nothing; closing one that was reused closes the new socket.
Closed(F) == [f \in Fds |-> IF f \in F THEN NoSock ELSE fds[f]]
FdsOf(conn) == {conn.request_fd, conn.notification_fd}

\* The threads at the head of their loops, with no locals alive.
AcceptorHome == [pc |-> "accept", fd |-> NoFd, id |-> NoTarget, conn |-> NoConn]
ListenerHome == [pc |-> "lock", todo |-> {}, available |-> {},
                 poll_fds |-> [i \in Ids |-> NoFd], client |-> NoTarget,
                 sock |-> NoSock, requests |-> << >>]
WorkerHome == [pc |-> "pop", req |-> NoRequest, accounts |-> {}, notify |-> FALSE]

Init ==
    /\ client_conns = [i \in Ids |-> NoConn]
    /\ incomplete_conns = [i \in Ids |-> NoConn]
    /\ client_conns_mtx = Free /\ mtx = [i \in Ids |-> Free]
    /\ fds = [f \in Fds |-> NoSock]
    /\ backlog = << >> /\ work_queue = << >>
    /\ acceptor = AcceptorHome /\ listener = ListenerHome
    /\ worker = [w \in Workers |-> WorkerHome]
    /\ run = "running"
    /\ client = [s \in Sessions |-> [pc |-> "start", nreq |-> 0, unread |-> NoRequest,
                                     inbox |-> << >>, notices |-> << >>]]
    /\ peer = [k \in Sockets |-> "none"]

-----------------------------------------------------------------------------
(* The client listener: accept_clients_loop, accept_client.                *)

\* accept() returns the next connection under the lowest free number.
Accept ==
    /\ acceptor.pc = "accept" /\ run = "running" /\ backlog # << >>
    /\ \E f \in Fds :
         /\ fds[f] = NoSock /\ \A g \in 1 .. f - 1 : fds[g] # NoSock
         /\ fds' = [fds EXCEPT ![f] = Head(backlog)]
         /\ acceptor' = [acceptor EXCEPT !.pc = "hello", !.fd = f]
    /\ backlog' = Tail(backlog)
    /\ UNCHANGED <<client_conns, incomplete_conns, mutexes, work_queue, listener,
                   worker, run, client, peer>>

\* stop() came before accept_client's second look at is_stopped: it returns
\* nullptr, and nobody closes the descriptor accept() has just returned.
AcceptStopped ==
    /\ acceptor.pc = "hello" /\ run = "stopping"
    /\ acceptor' = AcceptorHome
    /\ UNCHANGED <<client_conns, incomplete_conns, mutexes, fds, work_queue, listener,
                   worker, run, network>>

\* The id's client_conn with the new descriptor in the place the hello names;
\* a descriptor an earlier hello left there is overwritten, not closed.
WithHello(conn, hello, f) ==
    [request_fd |-> IF hello = "requests" THEN f ELSE conn.request_fd,
     notification_fd |-> IF hello = "notifications" THEN f ELSE conn.notification_fd,
     is_connected |-> FALSE, exists |-> TRUE]

\* The rest of accept_client, if the server was running at that look; stop() may
\* come during the read().  The descriptor of a short hello is left open; a
\* client with both descriptors leaves incomplete_conns and is returned.
ReadHello ==
    LET sock == SocketAt(acceptor.fd)
        i == IdOf[sock[1]]
        conn == WithHello(incomplete_conns[i], sock[2], acceptor.fd)
        complete == NoFd \notin FdsOf(conn)
    IN
    /\ acceptor.pc = "hello"
    /\ IF sock = NoSock \/ peer[sock] = "silent"
         THEN acceptor' = AcceptorHome /\ UNCHANGED incomplete_conns
         ELSE /\ incomplete_conns' = [incomplete_conns EXCEPT ![i] =
                                        IF complete THEN NoConn ELSE conn]
              /\ acceptor' = IF complete
                               THEN [acceptor EXCEPT !.pc = "register", !.id = i,
                                                     !.conn = conn]
                               ELSE AcceptorHome
    /\ UNCHANGED <<client_conns, mutexes, fds, work_queue, listener, worker, run,
                   network>>

\* accept_clients_loop: a new id is inserted, connected, under the map's
\* mutex; a known one goes to handle_reconnecting_client.
Register ==
    /\ acceptor.pc = "register" /\ client_conns_mtx = Free
    /\ IF acceptor.id \in registered
         THEN acceptor' = [acceptor EXCEPT !.pc = "reconnect"] /\ UNCHANGED client_conns
         ELSE /\ client_conns' = [client_conns EXCEPT ![acceptor.id] =
                                    [acceptor.conn EXCEPT !.is_connected = TRUE]]
              /\ acceptor' = AcceptorHome
    /\ UNCHANGED <<incomplete_conns, mutexes, fds, work_queue, listener, worker, run,
                   network>>

\* Mutant: a connected client loses its connection to the newcomer.
Rejects_never(conn) == FALSE

Rejects(conn) == conn.is_connected

\* A second connection of a connected client is closed; a disconnected client
\* takes over the new descriptors.
handle_reconnecting_client ==
    LET i == acceptor.id IN
    /\ acceptor.pc = "reconnect" /\ mtx[i] = Free
    /\ IF Rejects(client_conns[i])
         THEN fds' = Closed(FdsOf(acceptor.conn)) /\ UNCHANGED client_conns
         ELSE /\ client_conns' = [client_conns EXCEPT ![i] =
                                    [acceptor.conn EXCEPT !.is_connected = TRUE]]
              /\ UNCHANGED fds
    /\ acceptor' = AcceptorHome
    /\ UNCHANGED <<incomplete_conns, mutexes, work_queue, listener, worker, run,
                   network>>

-----------------------------------------------------------------------------
(* The request listener: receive_requests_loop, fetch_requests.            *)

notListener == <<incomplete_conns, acceptor, worker, run, backlog, peer>>

FetchLock ==
    /\ listener.pc = "lock" /\ run = "running" /\ client_conns_mtx = Free
    /\ client_conns_mtx' = Listener
    /\ listener' = [listener EXCEPT !.pc = "scan", !.todo = registered]
    /\ UNCHANGED <<client_conns, mtx, fds, work_queue, client, notListener>>

\* Mutant: the mutex of a client that is not collected stays locked.
KeepsLock_always(i) == mtx[i] = Free

\* try_lock() succeeds and the client is connected.
KeepsLock(i) == mtx[i] = Free /\ client_conns[i].is_connected

\* Collect a connected client whose mutex is free, and keep the mutex; a busy
\* or disconnected client is passed over.
FetchScan(i) ==
    /\ listener.pc = "scan" /\ i \in listener.todo
    /\ mtx' = IF KeepsLock(i) THEN [mtx EXCEPT ![i] = Listener] ELSE mtx
    /\ listener' = [listener EXCEPT !.todo = @ \ {i}, !.available =
                      IF mtx[i] = Free /\ client_conns[i].is_connected
                        THEN @ \cup {i} ELSE @]
    /\ UNCHANGED <<client_conns, client_conns_mtx, fds, work_queue, client, notListener>>

\* Mutant: the early return leaves client_conns_mtx locked.
FetchPrepare_locked ==
    /\ listener.pc = "scan" /\ listener.todo = {}
    /\ mtx' = [i \in Ids |-> IF i \in listener.available THEN Free ELSE mtx[i]]
    /\ client_conns_mtx' = IF listener.available = {} THEN Listener ELSE Free
    /\ listener' =
         IF listener.available = {} THEN ListenerHome
         ELSE [listener EXCEPT !.pc = "poll", !.poll_fds = [i \in Ids |->
                 IF i \in listener.available THEN client_conns[i].request_fd ELSE NoFd]]
    /\ UNCHANGED <<client_conns, fds, work_queue, client, notListener>>

\* Note the request descriptors, release the clients and then the map.
FetchPrepare ==
    /\ listener.pc = "scan" /\ listener.todo = {}
    /\ mtx' = [i \in Ids |-> IF i \in listener.available THEN Free ELSE mtx[i]]
    /\ client_conns_mtx' = Free
    /\ listener' =
         IF listener.available = {} THEN ListenerHome
         ELSE [listener EXCEPT !.pc = "poll", !.poll_fds = [i \in Ids |->
                 IF i \in listener.available THEN client_conns[i].request_fd ELSE NoFd]]
    /\ UNCHANGED <<client_conns, fds, work_queue, client, notListener>>

\* POLLIN: a request, the end of the stream or a reset can be read.  A number
\* that is no longer open reports POLLNVAL only.
HasRequest(sock) == /\ sock # NoSock /\ sock[2] = "requests"
                    /\ client[sock[1]].unread # NoRequest
Readable(sock) == HasRequest(sock) \/ (sock # NoSock /\ peer[sock] # "open")

\* poll() returns what is readable, or nothing after 100 ms.
FetchPoll ==
    LET ready == {i \in listener.available : Readable(SocketAt(listener.poll_fds[i]))} IN
    /\ listener.pc = "poll"
    /\ listener' = IF ready = {} THEN ListenerHome
                   ELSE [ListenerHome EXCEPT !.pc = "read", !.todo = ready]
    /\ UNCHANGED <<client_conns, mutexes, fds, work_queue, client, notListener>>

\* A client whose mutex is busy is skipped; otherwise read() is called on the
\* descriptor its client_conn has now.
FetchTryLock(i) ==
    /\ listener.pc = "read" /\ i \in listener.todo
    /\ IF mtx[i] = Free
         THEN /\ mtx' = [mtx EXCEPT ![i] = Listener]
              /\ listener' = [listener EXCEPT !.pc = "reading", !.todo = @ \ {i},
                     !.client = i, !.sock = SocketAt(client_conns[i].request_fd)]
         ELSE listener' = [listener EXCEPT !.todo = @ \ {i}] /\ UNCHANGED mtx
    /\ UNCHANGED <<client_conns, client_conns_mtx, fds, work_queue, client, notListener>>

\* Mutant: only the request descriptor is closed.
Disconnect_half(i) ==
    /\ fds' = Closed({client_conns[i].request_fd})
    /\ client_conns' = [client_conns EXCEPT ![i].is_connected = FALSE]

\* What follows a short read or write: close both, is_connected = false.
Disconnect(i) ==
    /\ fds' = Closed(FdsOf(client_conns[i]))
    /\ client_conns' = [client_conns EXCEPT ![i].is_connected = FALSE]

\* read() returns a request, or less, which disconnects the client.  While
\* there is neither it blocks, with the client's mutex held.
read_request ==
    LET i == listener.client
        sock == listener.sock
        next == [listener EXCEPT !.pc = "read", !.client = NoTarget, !.sock = NoSock]
    IN
    /\ listener.pc = "reading"
    /\ sock = NoSock \/ Readable(sock)
    /\ IF HasRequest(sock)
         THEN /\ client' = [client EXCEPT ![sock[1]].unread = NoRequest]
              /\ listener' = [next EXCEPT !.requests = Append(@, client[sock[1]].unread)]
              /\ UNCHANGED <<client_conns, fds>>
         ELSE Disconnect(i) /\ listener' = next /\ UNCHANGED client
    /\ mtx' = [mtx EXCEPT ![i] = Free]
    /\ UNCHANGED <<client_conns_mtx, work_queue, notListener>>

\* Mutant: the nullptr of a short read is pushed as well.
FetchReturn_null ==
    /\ listener.pc = "read" /\ listener.todo = {}
    /\ work_queue' = IF listener.requests = << >> THEN Append(work_queue, NoRequest)
                     ELSE work_queue \o listener.requests
    /\ listener' = ListenerHome
    /\ UNCHANGED <<client_conns, mutexes, fds, client, notListener>>

\* fetch_requests returns and the loop pushes its requests.
FetchReturn ==
    /\ listener.pc = "read" /\ listener.todo = {}
    /\ work_queue' = work_queue \o listener.requests
    /\ listener' = ListenerHome
    /\ UNCHANGED <<client_conns, mutexes, fds, client, notListener>>

-----------------------------------------------------------------------------
(* The workers: work_loop, process_request, send_response and              *)
(* send_notification.                                                      *)

notWorker == <<incomplete_conns, acceptor, listener, backlog>>

\* pop() of the queue, which stop() ends.
Pop(w) ==
    /\ worker[w].pc = "pop" /\ run = "running" /\ work_queue # << >>
    /\ worker' = [worker EXCEPT ![w].pc = "accounts", ![w].req = Head(work_queue)]
    /\ work_queue' = Tail(work_queue)
    /\ UNCHANGED <<client_conns, mutexes, fds, run, client, peer, notWorker>>

\* get_two_accounts finds the target, which is another client.
HasTarget(req) == req.target \in registered \ {req.id}

\* The account(s) are locked until the request is done, and the handler runs.
\* A payment the balance does not cover, a missing target and a request to
\* oneself get a response and no notification.
GetAccounts(w) ==
    LET req == worker[w].req
        accounts == {req.id} \cup IF HasTarget(req) THEN {req.target} ELSE {}
    IN
    /\ worker[w].pc = "accounts"
    /\ \A x \in Workers : accounts \cap worker[x].accounts = {}
    /\ \E ok \in {FALSE, HasTarget(req)} :
         worker' = [worker EXCEPT ![w].pc = "resp_map", ![w].notify = ok,
                                  ![w].accounts = accounts]
    /\ UNCHANGED <<client_conns, mutexes, fds, work_queue, run, client, peer, notWorker>>

\* Mutant: the response goes to the target of the request.
Addressee_target(w) == IF worker[w].req.target \in registered THEN worker[w].req.target
                                                              ELSE worker[w].req.id

\* The client a worker is sending to.
Addressee(w) == IF worker[w].pc \in {"resp_map", "resp_client", "resp_write"}
                  THEN worker[w].req.id ELSE worker[w].req.target

\* client_conns_mtx.lock() and find().
SendLockMap(w) ==
    /\ worker[w].pc \in {"resp_map", "note_map"} /\ client_conns_mtx = Free
    /\ client_conns_mtx' = w
    /\ worker' = [worker EXCEPT ![w].pc = IF @ = "resp_map" THEN "resp_client"
                                                            ELSE "note_client"]
    /\ UNCHANGED <<client_conns, mtx, fds, work_queue, run, client, peer, notWorker>>

\* Mutant: client_conns_mtx is not released.
SendLockClient_both(w) ==
    /\ worker[w].pc \in {"resp_client", "note_client"} /\ mtx[Addressee(w)] = Free
    /\ mtx' = [mtx EXCEPT ![Addressee(w)] = w]
    /\ worker' = [worker EXCEPT ![w].pc = IF @ = "resp_client" THEN "resp_write"
                                                               ELSE "note_write"]
    /\ UNCHANGED <<client_conns, client_conns_mtx, fds, work_queue, run, client, peer,
                   notWorker>>

\* client->mtx.lock() under the map's mutex, which is released after it.
SendLockClient(w) ==
    /\ worker[w].pc \in {"resp_client", "note_client"} /\ mtx[Addressee(w)] = Free
    /\ mtx' = [mtx EXCEPT ![Addressee(w)] = w]
    /\ client_conns_mtx' = Free
    /\ worker' = [worker EXCEPT ![w].pc = IF @ = "resp_client" THEN "resp_write"
                                                               ELSE "note_write"]
    /\ UNCHANGED <<client_conns, fds, work_queue, run, client, peer, notWorker>>

\* write() of a message, by the state of the client's end: "open" delivers it;
\* after an orderly close ("fin") the bytes are accepted and may come back as a
\* reset; after a close with bytes unread ("rst"), or on a number that is not
\* open, it fails and the client is disconnected; after a reset that followed
\* a close ("pipe") it raises SIGPIPE, which ends the process by default.
Write(w, f, msg) ==
    LET sock == SocketAt(f)
        end == IF sock = NoSock THEN "none" ELSE peer[sock]
    IN
    \/ /\ end = "open"
       /\ client' = IF sock[2] = "requests"
                      THEN [client EXCEPT ![sock[1]].inbox = Append(@, msg)]
                      ELSE [client EXCEPT ![sock[1]].notices = Append(@, msg)]
       /\ UNCHANGED <<client_conns, fds, run, peer>>
    \/ /\ end = "fin"
       /\ peer' \in {peer, [peer EXCEPT ![sock] = "pipe"]}
       /\ UNCHANGED <<client_conns, fds, run, client>>
    \/ /\ end \in {"none", "rst", "silent"}
       /\ Disconnect(Addressee(w))
       /\ UNCHANGED <<run, client, peer>>
    \/ /\ end = "pipe"
       /\ run' = "killed" /\ fds' = [x \in Fds |-> NoSock]
       /\ UNCHANGED <<client_conns, client, peer>>

\* send_response writes whether or not the client is still connected.
send_response(w) ==
    LET i == Addressee(w) IN
    /\ worker[w].pc = "resp_write"
    /\ Write(w, client_conns[i].request_fd,
             [type |-> "response", to |-> i, about |-> worker[w].req.from])
    /\ mtx' = [mtx EXCEPT ![i] = Free]
    /\ worker' = [worker EXCEPT ![w] = IF @.notify THEN [@ EXCEPT !.pc = "note_map"]
                                                   ELSE WorkerHome]
    /\ UNCHANGED <<client_conns_mtx, work_queue, notWorker>>

\* send_notification writes to a connected client only.
send_notification(w) ==
    LET i == Addressee(w) IN
    /\ worker[w].pc = "note_write"
    /\ IF client_conns[i].is_connected
         THEN Write(w, client_conns[i].notification_fd,
                    [type |-> "notification", to |-> i, about |-> worker[w].req.from])
         ELSE UNCHANGED <<client_conns, fds, run, client, peer>>
    /\ mtx' = [mtx EXCEPT ![i] = Free]
    /\ worker' = [worker EXCEPT ![w] = WorkerHome]
    /\ UNCHANGED <<client_conns_mtx, work_queue, notWorker>>

-----------------------------------------------------------------------------
\* stop() sets is_stopped and shuts the listening socket down: connections
\* not yet accepted are closed and no more are made.
StopBegin ==
    /\ MayStop /\ run = "running" /\ run' = "stopping"
    /\ UNCHANGED <<client_conns, incomplete_conns, mutexes, fds, work_queue, threads,
                   network>>

\* Each thread is joined at the head of its loop; the queue is flushed and the
\* connected clients' descriptors are closed.
StopEnd ==
    /\ run = "stopping" /\ run' = "stopped"
    /\ acceptor.pc = "accept" /\ listener.pc = "lock"
    /\ \A w \in Workers : worker[w].pc = "pop"
    /\ work_queue' = << >>
    /\ fds' = Closed(UNION {FdsOf(client_conns[i]) :
                              i \in {j \in registered : client_conns[j].is_connected}})
    /\ client_conns' = [i \in Ids |-> NoConn]
    /\ UNCHANGED <<incomplete_conns, mutexes, threads, network>>

\* main returns from stop(), and the process ends: what is still open is closed.
Exit ==
    /\ run = "stopped" /\ run' = "exited"
    /\ fds' = [f \in Fds |-> NoSock]
    /\ UNCHANGED <<client_conns, incomplete_conns, mutexes, work_queue, threads, network>>

-----------------------------------------------------------------------------
(* The clients.                                                            *)

server == <<client_conns, incomplete_conns, mutexes, fds, work_queue, threads, run>>

\* How the close of a client's end leaves the socket.
CloseEnd(k, dirty) == IF peer[k] # "open" THEN peer[k]
                      ELSE IF dirty THEN "rst" ELSE "fin"

\* connect: send_hello on the request socket, then on the notification socket.
\* A process that dies between connect() and write() leaves a silent socket; a
\* refused connection ends the program.
SendHello(s) ==
    LET k == IF client[s].pc = "start" THEN RequestSock(s) ELSE NoticeSock(s) IN
    /\ client[s].pc \in {"start", "half"} /\ s \notin Strangers
    /\ \A r \in After[s] : client[r].pc = "gone"
    /\ \/ /\ run = "running"
          /\ peer' = [peer EXCEPT ![k] = "open"]
          /\ client' = [client EXCEPT ![s].pc = IF @ = "start" THEN "half" ELSE "idle"]
          /\ backlog' = Append(backlog, k)
       \/ /\ run = "running" /\ s \in Crashes
          /\ peer' = [peer EXCEPT ![RequestSock(s)] = CloseEnd(RequestSock(s), FALSE),
                                  ![k] = "silent"]
          /\ client' = [client EXCEPT ![s].pc = "gone"]
          /\ backlog' = Append(backlog, k)
       \/ /\ run # "running"
          /\ peer' = [peer EXCEPT ![RequestSock(s)] = CloseEnd(RequestSock(s), FALSE)]
          /\ client' = [client EXCEPT ![s].pc = "gone"]
          /\ UNCHANGED backlog
    /\ UNCHANGED server

\* Some other program connects with a hello of an unknown type.
BadHello(s) ==
    /\ client[s].pc = "start" /\ s \in Strangers /\ run = "running"
    /\ backlog' = Append(backlog, <<s, "bad">>)
    /\ peer' = [peer EXCEPT ![<<s, "bad">>] = "fin"]
    /\ client' = [client EXCEPT ![s].pc = "gone"]
    /\ UNCHANGED server

\* Mutant: the client does not wait for the response.
make_request_early(s) ==
    /\ client[s].pc = "idle" /\ client[s].nreq < MaxRequests[s]
    /\ \E t \in Targets[s] :
         client' = [client EXCEPT ![s].nreq = @ + 1, ![s].unread =
                      IF ServerEnd(RequestSock(s))
                        THEN [id |-> IdOf[s], target |-> t, from |-> s] ELSE @]
    /\ UNCHANGED <<server, backlog, peer>>

\* make_request up to its read(); the write succeeds even when the server has
\* just closed its end.
make_request(s) ==
    /\ client[s].pc = "idle" /\ client[s].nreq < MaxRequests[s]
    /\ \E t \in Targets[s] :
         client' = [client EXCEPT ![s].pc = "waiting", ![s].nreq = @ + 1, ![s].unread =
                      IF ServerEnd(RequestSock(s))
                        THEN [id |-> IdOf[s], target |-> t, from |-> s] ELSE @]
    /\ UNCHANGED <<server, backlog, peer>>

\* The rest of make_request: a response, or the end of the stream, after
\* which run_repl leaves its loop.
ReceiveResponse(s) ==
    /\ client[s].pc = "waiting"
    /\ \/ /\ client[s].inbox # << >>
          /\ client' = [client EXCEPT ![s].pc = "idle", ![s].inbox = Tail(@)]
       \/ /\ client[s].inbox = << >> /\ ~ServerEnd(RequestSock(s))
          /\ client' = [client EXCEPT ![s].pc = "failed"]
    /\ UNCHANGED <<server, backlog, peer>>

\* receive_notifications reads a notification.
receive_notifications(s) ==
    /\ client[s].pc \in {"idle", "waiting", "failed"} /\ client[s].notices # << >>
    /\ client' = [client EXCEPT ![s].notices = Tail(@)]
    /\ UNCHANGED <<server, backlog, peer>>

\* disconnect closes the request socket and joins the notification thread.
disconnect(s) ==
    /\ client[s].pc \in {"idle", "failed"}
    /\ client' = [client EXCEPT ![s].pc = "leaving"]
    /\ peer' = [peer EXCEPT ![RequestSock(s)] =
                  CloseEnd(RequestSock(s), client[s].inbox # << >>)]
    /\ UNCHANGED <<server, backlog>>

\* That thread leaves its read() only with a notification or when the server
\* closes its end; it then closes the notification socket.
DisconnectJoin(s) ==
    /\ client[s].pc = "leaving"
    /\ client[s].notices # << >> \/ ~ServerEnd(NoticeSock(s))
    /\ client' = [client EXCEPT ![s].pc = "gone", ![s].notices = << >>]
    /\ peer' = [peer EXCEPT ![NoticeSock(s)] =
                  CloseEnd(NoticeSock(s), Len(client[s].notices) > 1)]
    /\ UNCHANGED <<server, backlog>>

\* The client's process dies.
Crash(s) ==
    /\ s \in Crashes /\ client[s].pc \notin {"start", "gone"}
    /\ client' = [client EXCEPT ![s].pc = "gone"]
    /\ peer' = [peer EXCEPT
         ![RequestSock(s)] = CloseEnd(RequestSock(s), client[s].inbox # << >>),
         ![NoticeSock(s)] = CloseEnd(NoticeSock(s), client[s].notices # << >>)]
    /\ UNCHANGED <<server, backlog>>

-----------------------------------------------------------------------------
Alive == run \in {"running", "stopping"}

AcceptorStep ==
    Alive /\ \/ Accept \/ AcceptStopped \/ ReadHello \/ Register
             \/ handle_reconnecting_client

ListenerStep ==
    Alive /\ \/ FetchLock \/ FetchPrepare \/ FetchPoll \/ read_request \/ FetchReturn
             \/ \E i \in Ids : FetchScan(i) \/ FetchTryLock(i)

WorkerStep(w) ==
    Alive /\ \/ Pop(w) \/ GetAccounts(w) \/ SendLockMap(w) \/ SendLockClient(w)
             \/ send_response(w) \/ send_notification(w)

ClientStep(s) ==
    \/ SendHello(s) \/ BadHello(s) \/ make_request(s) \/ ReceiveResponse(s)
    \/ receive_notifications(s) \/ disconnect(s) \/ DisconnectJoin(s) \/ Crash(s)

Next == \/ AcceptorStep \/ ListenerStep \/ StopBegin \/ StopEnd \/ Exit
        \/ \E w \in Workers : WorkerStep(w)
        \/ \E s \in Sessions : ClientStep(s)

Spec == Init /\ [][Next]_vars

\* No thread is starved: one that can go on again and again, because the mutex
\* it waits for is released again and again, does go on.  A client completes
\* its connection and reads what was sent to it.  Nobody has to make a
\* request, to leave or to call stop().
Fairness ==
    /\ SF_vars(AcceptorStep) /\ SF_vars(ListenerStep) /\ WF_vars(StopEnd \/ Exit)
    /\ \A w \in Workers : SF_vars(WorkerStep(w))
    /\ \A s \in Sessions :
         WF_vars(SendHello(s) \/ ReceiveResponse(s) \/ DisconnectJoin(s))

FairSpec == Spec /\ Fairness

-----------------------------------------------------------------------------
Owners == Threads \cup {Free}

\* Types of the state of the server's threads and of the clients.
TypeOK ==
    /\ client_conns \in [Ids -> Conns] /\ incomplete_conns \in [Ids -> Conns]
    /\ client_conns_mtx \in Owners /\ mtx \in [Ids -> Owners]
    /\ fds \in [Fds -> Sockets \cup {NoSock}] /\ backlog \in Seq(Sockets)
    /\ work_queue \in Seq(Requests) /\ listener.requests \in Seq(Requests)
    /\ acceptor.pc \in {"accept", "hello", "register", "reconnect"}
    /\ acceptor.fd \in Fds \cup {NoFd} /\ acceptor.conn \in Conns
    /\ listener.pc \in {"lock", "scan", "poll", "read", "reading"}
    /\ listener.todo \subseteq Ids /\ listener.available \subseteq Ids
    /\ worker \in [Workers ->
         [pc : {"pop", "accounts", "resp_map", "resp_client", "resp_write", "note_map",
                "note_client", "note_write"},
          req : Requests \cup {NoRequest}, accounts : SUBSET Ids, notify : BOOLEAN]]
    /\ run \in {"running", "stopping", "stopped", "exited", "killed"}
    /\ \A s \in Sessions :
         /\ client[s].pc \in {"start", "half", "idle", "waiting", "failed", "leaving",
                              "gone"}
         /\ client[s].nreq \in 0 .. MaxRequests[s]
         /\ client[s].unread \in Requests \cup {NoRequest}
         /\ client[s].inbox \in Seq(Messages) /\ client[s].notices \in Seq(Messages)
    /\ peer \in [Sockets -> {"none", "open", "fin", "rst", "pipe", "silent"}]

\* The threads t waits for: the holder of the mutex its next lock() is on.
WaitsFor(t) ==
    (CASE t = Acceptor /\ acceptor.pc = "register" -> {client_conns_mtx}
       [] t = Acceptor /\ acceptor.pc = "reconnect" -> {mtx[acceptor.id]}
       [] t = Listener /\ listener.pc = "lock" -> {client_conns_mtx}
       [] t \in Workers /\ worker[t].pc \in {"resp_map", "note_map"} -> {client_conns_mtx}
       [] t \in Workers /\ worker[t].pc \in {"resp_client", "note_client"} ->
            {mtx[Addressee(t)]}
       [] t \in Workers /\ worker[t].pc = "accounts" ->
            {x \in Workers : {worker[t].req.id, worker[t].req.target}
                               \cap worker[x].accounts # {}}
       [] OTHER -> {}) \ {Free}

\* The threads of the server never wait for one another in a circle: a
\* send_response holds accounts and client_conns_mtx while it waits for a
\* client's mutex, and fetch_requests collects those under the map's.
NoCircularWait ==
    \A S \in (SUBSET Threads) \ {{}} : \E t \in S : WaitsFor(t) \cap S = {}

\* While a client stays connected nothing replaces its descriptors: a second
\* process with its id is turned away by handle_reconnecting_client.
ConnectionKept ==
    [][\A i \in Ids : client_conns[i].is_connected /\ client_conns'[i].is_connected
                        => client_conns'[i] = client_conns[i]]_vars

\* What send_response writes reaches the client process that made the request,
\* on its request socket, and a notification reaches a process of its target.
ResponseToOrigin ==
    \A s \in Sessions :
      /\ \A n \in DOMAIN client[s].inbox : /\ client[s].inbox[n].type = "response"
                                           /\ client[s].inbox[n].about = s
      /\ \A n \in DOMAIN client[s].notices : /\ client[s].notices[n].type = "notification"
                                             /\ client[s].notices[n].to = IdOf[s]

\* A client process has at most one request or response under way: unread,
\* fetched, queued, in work, or answered and not yet received.
Under(seq, s) == Cardinality({n \in DOMAIN seq : seq[n].from = s})
OneUnderWay ==
    \A s \in Sessions :
      (IF client[s].unread # NoRequest THEN 1 ELSE 0) + Len(client[s].inbox)
      + Under(listener.requests, s) + Under(work_queue, s)
      + Cardinality({w \in Workers : worker[w].req.from = s /\ worker[w].pc \in
                       {"accounts", "resp_map", "resp_client", "resp_write"}}) <= 1

\* No thread holds client_conns_mtx behind a read() with nothing to read.
NoHangUnderMapLock ==
    ~ /\ listener.pc = "reading" /\ listener.sock # NoSock /\ ~Readable(listener.sock)
      /\ \E w \in Workers : client_conns_mtx = w /\ mtx[Addressee(w)] = Listener

\* Every request of a client is answered, or its connection ends.
RequestAnswered ==
    \A s \in Sessions : client[s].pc = "waiting" ~> client[s].pc # "waiting"

\* A client that disconnects is not left waiting for its notification thread,
\* which leaves its read() only when the server closes the other end: when it
\* notices, in stop(), or, for a socket that stop() leaves open, at its exit.
DisconnectCompletes ==
    \A s \in Sessions : client[s].pc = "leaving" ~> client[s].pc = "gone"

\* stop() returns: every thread comes back to the head of its loop.
StopCompletes == run = "stopping" ~> run # "stopping"
=============================================================================
