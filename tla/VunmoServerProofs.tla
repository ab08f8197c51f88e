------------------------- MODULE VunmoServerProofs -------------------------
(***************************************************************************)
(* Proofs about VunmoServer: its types, that its threads never wait for    *)
(* one another in a circle, and what its descriptors are.                  *)
(***************************************************************************)
EXTENDS VunmoServer, SequenceTheorems, TLAPS

WorkerPcs == {"pop", "accounts", "resp_map", "resp_client", "resp_write", "note_map",
              "note_client", "note_write"}
Sending == {"resp_map", "resp_client", "resp_write", "note_map", "note_client", "note_write"}

AcceptorStates == [pc : {"accept", "hello", "register", "reconnect"}, fd : Fds \cup {NoFd},
                   id : Ids \cup {NoTarget}, conn : Conns]
ListenerStates == [pc : {"lock", "scan", "poll", "read", "reading"}, todo : SUBSET Ids,
                   available : SUBSET Ids, poll_fds : [Ids -> Fds \cup {NoFd}],
                   client : Ids \cup {NoTarget}, sock : Sockets \cup {NoSock},
                   requests : Seq(Requests)]
WorkerStates == [pc : WorkerPcs, req : Requests \cup {NoRequest}, accounts : SUBSET Ids,
                 notify : BOOLEAN]
ClientStates == [pc : {"start", "half", "idle", "waiting", "failed", "leaving", "gone"},
                 nreq : Nat, unread : Requests \cup {NoRequest}, inbox : Seq(Messages),
                 notices : Seq(Messages)]
Peers == [Sockets -> {"none", "open", "fin", "rst", "pipe", "silent"}]

\* The connections and descriptors the threads share.
TableTypes ==
    /\ client_conns \in [Ids -> Conns] /\ incomplete_conns \in [Ids -> Conns]
    /\ fds \in [Fds -> Sockets \cup {NoSock}]
MutexTypes == client_conns_mtx \in Owners /\ mtx \in [Ids -> Owners]
AcceptorTypes ==
    /\ acceptor \in AcceptorStates
    /\ acceptor.pc \in {"register", "reconnect"} => acceptor.id \in Ids
ListenerTypes ==
    /\ listener \in ListenerStates
    /\ listener.pc = "reading" => listener.client \in Ids
WorkerTypes ==
    /\ worker \in [Workers -> WorkerStates]
    /\ \A w \in Workers :
         /\ worker[w].pc # "pop" => worker[w].req \in Requests
         /\ worker[w].pc \in {"note_map", "note_client", "note_write"} =>
              worker[w].req.target \in Ids
         /\ worker[w].notify => worker[w].req.target \in Ids
         /\ worker[w].pc \notin Sending => worker[w].accounts = {} /\ worker[w].notify = FALSE
QueueTypes == work_queue \in Seq(Requests)
ClientTypes ==
    /\ client \in [Sessions -> ClientStates]
    /\ \A s \in Sessions : client[s].nreq <= MaxRequests[s]
NetTypes == backlog \in Seq(Sockets) /\ peer \in Peers
RunTypes == run \in {"running", "stopping", "stopped", "exited", "killed"}

Types == /\ TableTypes /\ MutexTypes /\ AcceptorTypes /\ ListenerTypes /\ WorkerTypes
         /\ QueueTypes /\ ClientTypes /\ NetTypes /\ RunTypes
-----------------------------------------------------------------------------
\* What a thread has at the head of its loop, and what stands for nothing.
LEMMA HomeTypes ==
    /\ NoConn \in Conns /\ NoSock \notin Sockets /\ NoRequest \notin Requests
    /\ AcceptorHome \in AcceptorStates /\ AcceptorHome.pc = "accept"
    /\ ListenerHome \in ListenerStates /\ ListenerHome.pc = "lock"
    /\ WorkerHome \in WorkerStates /\ WorkerHome.pc = "pop"
    /\ WorkerHome.notify = FALSE /\ WorkerHome.accounts = {}
<1> USE ServerAssumption
<1>1. NoConn \in Conns
  BY DEF NoConn, Conns
<1>2. NoSock \notin Sockets
  BY DEF NoSock, Sockets
<1>3. NoRequest \notin Requests
  BY DEF NoRequest, Requests
<1>4. AcceptorHome \in AcceptorStates /\ AcceptorHome.pc = "accept"
  BY <1>1 DEF AcceptorHome, AcceptorStates
<1>5. ListenerHome \in ListenerStates /\ ListenerHome.pc = "lock"
  BY DEF ListenerHome, ListenerStates
<1>6. /\ WorkerHome \in WorkerStates /\ WorkerHome.pc = "pop"
      /\ WorkerHome.notify = FALSE /\ WorkerHome.accounts = {}
  BY DEF WorkerHome, WorkerStates, WorkerPcs
<1> QED
  BY <1>1, <1>2, <1>3, <1>4, <1>5, <1>6

\* A server that has just started, with no client, has its types.
LEMMA InitTypes == Init => Types
<1> SUFFICES ASSUME Init PROVE Types
  OBVIOUS
<1> USE HomeTypes, ServerAssumption DEF Init
<1>1. TableTypes /\ MutexTypes
  BY DEF TableTypes, MutexTypes, Owners
<1>2. AcceptorTypes
  BY DEF AcceptorTypes
<1>3. ListenerTypes
  BY DEF ListenerTypes
<1>4. WorkerTypes
  BY DEF WorkerTypes
<1>5. QueueTypes /\ NetTypes /\ RunTypes
  BY DEF QueueTypes, NetTypes, RunTypes, Peers
<1>6. ClientTypes
  BY DEF ClientTypes, ClientStates
<1> QED
  BY <1>1, <1>2, <1>3, <1>4, <1>5, <1>6 DEF Types

\* The inductive form gives the types the runs check.
LEMMA TypesTypeOK == Types => TypeOK
<1> SUFFICES ASSUME Types PROVE TypeOK
  OBVIOUS
<1>1. /\ listener.requests \in Seq(Requests) /\ listener.pc \in {"lock", "scan", "poll", "read", "reading"}
      /\ listener.todo \subseteq Ids /\ listener.available \subseteq Ids
  BY DEF Types, ListenerTypes, ListenerStates
<1>2. /\ acceptor.pc \in {"accept", "hello", "register", "reconnect"}
      /\ acceptor.fd \in Fds \cup {NoFd} /\ acceptor.conn \in Conns
  BY DEF Types, AcceptorTypes, AcceptorStates
<1>3. \A s \in Sessions :
         /\ client[s].pc \in {"start", "half", "idle", "waiting", "failed", "leaving",
                              "gone"}
         /\ client[s].nreq \in 0 .. MaxRequests[s]
         /\ client[s].unread \in Requests \cup {NoRequest}
         /\ client[s].inbox \in Seq(Messages) /\ client[s].notices \in Seq(Messages)
  BY ServerAssumption DEF Types, ClientTypes, ClientStates
<1> QED
  BY <1>1, <1>2, <1>3 DEF Types, TypeOK, TableTypes, MutexTypes, WorkerTypes, WorkerStates, WorkerPcs,
                          QueueTypes, NetTypes, Peers, RunTypes

-----------------------------------------------------------------------------
(* Every step preserves the types.                                         *)

\* Where the descriptors of the table lead.
LEMMA SocketTypes ==
    ASSUME Types
    PROVE  /\ \A f : SocketAt(f) \in Sockets \cup {NoSock}
           /\ \A F : Closed(F) \in [Fds -> Sockets \cup {NoSock}]
BY DEF Types, TableTypes, SocketAt, Closed

\* accept() enters the next connection in the table.
LEMMA AcceptTypes == ASSUME Types, Accept PROVE Types'
<1>1. PICK f \in Fds :
        /\ fds' = [fds EXCEPT ![f] = Head(backlog)]
        /\ acceptor' = [acceptor EXCEPT !.pc = "hello", !.fd = f]
  BY DEF Accept
<1>2. Head(backlog) \in Sockets /\ Tail(backlog) \in Seq(Sockets)
  BY DEF Accept, Types, NetTypes
<1>3. TableTypes'
  BY <1>1, <1>2 DEF Accept, Types, TableTypes
<1>4. AcceptorTypes'
  BY <1>1 DEF Types, AcceptorTypes, AcceptorStates
<1>5. NetTypes'
  BY <1>2 DEF Accept, Types, NetTypes
<1> QED
  BY <1>3, <1>4, <1>5 DEF Accept, Types, MutexTypes, mutexes, ListenerTypes, WorkerTypes,
                          QueueTypes, ClientTypes, RunTypes

\* A hello leaves a client_conn.
LEMMA HelloTypes ==
    ASSUME NEW conn \in Conns, NEW hello, NEW f \in Fds \cup {NoFd}
    PROVE  WithHello(conn, hello, f) \in Conns
BY DEF WithHello, Conns

\* accept_client after its accept().
LEMMA ReadHelloTypes == ASSUME Types, ReadHello PROVE Types'
<1> DEFINE sock == SocketAt(acceptor.fd)
           i == IdOf[sock[1]]
           conn == WithHello(incomplete_conns[i], sock[2], acceptor.fd)
<1>1. sock \in Sockets \cup {NoSock} /\ acceptor.fd \in Fds \cup {NoFd}
  BY SocketTypes DEF Types, AcceptorTypes, AcceptorStates
<1>2. ASSUME sock # NoSock PROVE i \in Ids /\ conn \in Conns
  <2>1. sock[1] \in Sessions
    BY <1>1, <1>2 DEF Sockets
  <2>2. i \in Ids
    BY <2>1, ServerAssumption
  <2>3. incomplete_conns[i] \in Conns
    BY <2>2 DEF Types, TableTypes
  <2> QED
    BY <1>1, <2>2, <2>3, HelloTypes
<1>3. \/ acceptor' = AcceptorHome /\ UNCHANGED incomplete_conns
      \/ /\ sock # NoSock
         /\ incomplete_conns' \in {[incomplete_conns EXCEPT ![i] = NoConn],
                                   [incomplete_conns EXCEPT ![i] = conn]}
         /\ acceptor' \in {[acceptor EXCEPT !.pc = "register", !.id = i, !.conn = conn],
                           AcceptorHome}
  BY DEF ReadHello
<1> HIDE DEF sock, i, conn
<1>4. AcceptorTypes'
  BY <1>2, <1>3, HomeTypes DEF Types, AcceptorTypes, AcceptorStates
<1>5. TableTypes'
  BY <1>2, <1>3, HomeTypes DEF Types, TableTypes, ReadHello
<1> QED
  BY <1>4, <1>5 DEF ReadHello, Types, MutexTypes, mutexes, ListenerTypes, WorkerTypes,
                    QueueTypes, ClientTypes, NetTypes, RunTypes, network

\* accept_client gives up after stop().
LEMMA AcceptStoppedTypes == ASSUME Types, AcceptStopped PROVE Types'
<1>1. AcceptorTypes'
  BY HomeTypes DEF AcceptStopped, AcceptorTypes
<1> QED
  BY <1>1 DEF AcceptStopped, Types, TableTypes, MutexTypes, mutexes, ListenerTypes, WorkerTypes,
              QueueTypes, ClientTypes, NetTypes, RunTypes, network

\* is_connected is set or cleared.
LEMMA ConnectTypes ==
    ASSUME NEW conn \in Conns
    PROVE  [conn EXCEPT !.is_connected = TRUE] \in Conns /\ [conn EXCEPT !.is_connected = FALSE] \in Conns
BY DEF Conns

\* accept_clients_loop enters the client, or handle_reconnecting_client does.
LEMMA RegisterTypes == ASSUME Types, Register \/ handle_reconnecting_client PROVE Types'
<1>1. acceptor.id \in Ids /\ acceptor \in AcceptorStates /\ acceptor.conn \in Conns
  BY DEF Types, AcceptorTypes, AcceptorStates, Register, handle_reconnecting_client
<1>2. acceptor' \in {AcceptorHome, [acceptor EXCEPT !.pc = "reconnect"]}
  BY DEF Register, handle_reconnecting_client
<1>3. AcceptorTypes'
  BY <1>1, <1>2, HomeTypes DEF AcceptorTypes, AcceptorStates
<1>4. client_conns' \in {client_conns, [client_conns EXCEPT ![acceptor.id] =
                                          [acceptor.conn EXCEPT !.is_connected = TRUE]]}
  BY DEF Register, handle_reconnecting_client
<1>5. fds' = fds \/ fds' = Closed(FdsOf(acceptor.conn))
  BY DEF Register, handle_reconnecting_client
<1>6. TableTypes'
  BY <1>1, <1>4, <1>5, ConnectTypes, SocketTypes DEF Types, TableTypes, Register,
     handle_reconnecting_client
<1> QED
  BY <1>3, <1>6 DEF Register, handle_reconnecting_client, Types, MutexTypes, mutexes,
                    ListenerTypes, WorkerTypes, QueueTypes, ClientTypes, NetTypes, RunTypes, network

\* The listener changes the mutexes, its own state and, when it reads, more.
LEMMA FetchTypes ==
    ASSUME Types, FetchLock \/ FetchPrepare \/ FetchPoll \/ FetchReturn
                  \/ \E i \in Ids : FetchScan(i) \/ FetchTryLock(i)
    PROVE  Types'
<1> USE DEF FetchLock, FetchPrepare, FetchPoll, FetchReturn, FetchScan, FetchTryLock
<1>1. listener \in ListenerStates /\ registered \subseteq Ids /\ client_conns \in [Ids -> Conns]
  BY DEF Types, ListenerTypes, registered, TableTypes
<1>2. ListenerTypes'
  <2>1. CASE FetchLock
    BY <1>1, <2>1 DEF ListenerTypes, ListenerStates
  <2>2. CASE FetchPrepare
    <3>1. \A i \in Ids : client_conns[i].request_fd \in Fds \cup {NoFd}
      BY <1>1 DEF Conns
    <3> QED
      BY <1>1, <2>2, <3>1, HomeTypes DEF ListenerTypes, ListenerStates
  <2>3. CASE FetchPoll
    <3>1. PICK ready \in SUBSET listener.available :
             listener' = IF ready = {} THEN ListenerHome
                         ELSE [ListenerHome EXCEPT !.pc = "read", !.todo = ready]
      BY <2>3
    <3>2. ready \in SUBSET Ids
      BY <1>1, <3>1 DEF ListenerStates
    <3> QED
      BY <3>1, <3>2, HomeTypes DEF ListenerTypes, ListenerStates
  <2>4. CASE FetchReturn
    BY <2>4, HomeTypes DEF ListenerTypes
  <2>5. ASSUME NEW i \in Ids, FetchScan(i) PROVE ListenerTypes'
    <3>1. PICK a \in SUBSET Ids : listener' = [listener EXCEPT !.todo = @ \ {i}, !.available = a]
      BY <1>1, <2>5, ZenonT(60) DEF ListenerStates
    <3>2. listener.pc = "scan"
      BY <2>5
    <3>3. listener' \in ListenerStates /\ listener'.pc = "scan"
      BY ONLY <1>1, <3>1, <3>2 DEF ListenerStates
    <3> QED
      BY <3>3 DEF ListenerTypes
  <2>6. ASSUME NEW i \in Ids, FetchTryLock(i) PROVE ListenerTypes'
    <3>1. SocketAt(client_conns[i].request_fd) \in Sockets \cup {NoSock}
      BY SocketTypes
    <3>2. listener' \in {[listener EXCEPT !.todo = @ \ {i}],
                         [listener EXCEPT !.pc = "reading", !.todo = @ \ {i},
                            !.client = i, !.sock = SocketAt(client_conns[i].request_fd)]}
      BY <2>6
    <3>3. listener.pc = "read"
      BY <2>6
    <3>5. CASE listener' = [listener EXCEPT !.todo = @ \ {i}]
      BY <1>1, <3>3, <3>5 DEF ListenerTypes, ListenerStates
    <3> DEFINE k == SocketAt(client_conns[i].request_fd)
    <3>6. CASE listener' = [listener EXCEPT !.pc = "reading", !.todo = @ \ {i},
                            !.client = i, !.sock = k]
      <4> HIDE DEF k
      <4>1. k \in Sockets \cup {NoSock} /\ i \in Ids
        BY <2>6, <3>1 DEF k
      <4>2. listener' \in ListenerStates /\ listener'.client = i
        BY ONLY <1>1, <3>6, <4>1 DEF ListenerStates
      <4> QED
        BY <4>1, <4>2 DEF ListenerTypes
    <3> QED
      BY <3>2, <3>5, <3>6
  <2> QED
    BY <2>1, <2>2, <2>3, <2>4, <2>5, <2>6
<1>3. MutexTypes'
  BY DEF Types, MutexTypes, mutexes, Owners, Threads
<1>4. QueueTypes'
  <2>1. listener.requests \in Seq(Requests) /\ work_queue \in Seq(Requests)
    BY <1>1 DEF ListenerStates, Types, QueueTypes
  <2>2. work_queue' \in {work_queue, work_queue \o listener.requests}
    OBVIOUS
  <2>3. work_queue \o listener.requests \in Seq(Requests)
    BY <2>1, ConcatProperties
  <2> QED
    BY <2>1, <2>2, <2>3 DEF QueueTypes
<1>5. UNCHANGED <<client_conns, fds, client, notListener>>
  OBVIOUS
<1> QED
  BY <1>2, <1>3, <1>4, <1>5 DEF Types, TableTypes, notListener, AcceptorTypes, WorkerTypes,
     ClientTypes, NetTypes, RunTypes

\* What follows a short read or write.
LEMMA DisconnectTypes ==
    ASSUME Types, NEW i \in Ids, Disconnect(i)
    PROVE  client_conns' \in [Ids -> Conns] /\ fds' \in [Fds -> Sockets \cup {NoSock}]
<1>1. client_conns' = [client_conns EXCEPT ![i] = [client_conns[i] EXCEPT !.is_connected = FALSE]]
  BY DEF Disconnect
<1> QED
  BY <1>1, ConnectTypes, SocketTypes, ZenonT(60) DEF Disconnect, Types, TableTypes

\* fetch_requests reads a request, or ends a connection.
LEMMA ReadTypes == ASSUME Types, read_request PROVE Types'
<1> DEFINE i == listener.client
           sock == listener.sock
           next == [listener EXCEPT !.pc = "read", !.client = NoTarget, !.sock = NoSock]
<1>1. i \in Ids /\ sock \in Sockets \cup {NoSock} /\ listener \in ListenerStates
  BY DEF Types, ListenerTypes, ListenerStates, read_request
<1>2. next \in ListenerStates /\ next.pc = "read" /\ next.requests = listener.requests
  BY <1>1 DEF ListenerStates
<1>3. MutexTypes'
  BY <1>1 DEF Types, MutexTypes, Owners, read_request
<1>4. \/ /\ HasRequest(sock)
         /\ client' = [client EXCEPT ![sock[1]].unread = NoRequest]
         /\ listener' = [next EXCEPT !.requests = Append(@, client[sock[1]].unread)]
         /\ UNCHANGED <<client_conns, fds>>
      \/ Disconnect(i) /\ listener' = next /\ UNCHANGED client
  BY DEF read_request
<1>5. HasRequest(sock) => sock[1] \in Sessions /\ client[sock[1]].unread \in Requests
  <2> SUFFICES ASSUME HasRequest(sock) PROVE sock[1] \in Sessions /\ client[sock[1]].unread \in Requests
    OBVIOUS
  <2>1. sock[1] \in Sessions
    BY <1>1 DEF HasRequest, Sockets
  <2> QED
    BY <2>1 DEF HasRequest, Types, ClientTypes, ClientStates
<1> HIDE DEF next, sock, i
<1>6. ListenerTypes'
  <2>1. CASE HasRequest(sock) /\ listener' = [next EXCEPT !.requests = Append(@, client[sock[1]].unread)]
    <3>1. Append(next.requests, client[sock[1]].unread) \in Seq(Requests)
      BY <1>2, <1>5, <2>1 DEF ListenerStates
    <3> QED
      BY <1>2, <2>1, <3>1 DEF ListenerTypes, ListenerStates
  <2> QED
    BY <1>2, <1>4, <2>1 DEF ListenerTypes
<1>7. ClientTypes'
  <2>1. CASE HasRequest(sock) /\ client' = [client EXCEPT ![sock[1]].unread = NoRequest]
    <3>1. PICK s \in Sessions : s = sock[1]
      BY <1>5, <2>1
    <3>2. client' = [client EXCEPT ![s] = [client[s] EXCEPT !.unread = NoRequest]]
      BY <2>1, <3>1
    <3>3. client[s] \in ClientStates /\ client \in [Sessions -> ClientStates]
      BY DEF Types, ClientTypes
    <3>4. [client[s] EXCEPT !.unread = NoRequest] \in ClientStates
      BY <3>3 DEF ClientStates
    <3>5. [client[s] EXCEPT !.unread = NoRequest].nreq = client[s].nreq
      BY <3>3 DEF ClientStates
    <3> QED
      BY <3>2, <3>3, <3>4, <3>5 DEF Types, ClientTypes
  <2> QED
    BY <1>4, <2>1 DEF Types, ClientTypes
<1>8. TableTypes'
  BY <1>1, <1>4, DisconnectTypes DEF Types, TableTypes, read_request, notListener
<1> QED
  BY <1>3, <1>6, <1>7, <1>8 DEF Types, notListener, AcceptorTypes, WorkerTypes, QueueTypes,
     NetTypes, RunTypes, read_request

\* Worker w goes to state x.
LEMMA WorkerGoes ==
    ASSUME Types, NEW w \in Workers, NEW x \in WorkerStates, worker' = [worker EXCEPT ![w] = x],
           x.pc # "pop" => x.req \in Requests,
           x.pc \in {"note_map", "note_client", "note_write"} => x.req.target \in Ids,
           x.notify => x.req.target \in Ids,
           x.pc \notin Sending => x.accounts = {} /\ x.notify = FALSE
    PROVE  WorkerTypes'
BY DEF Types, WorkerTypes

\* What a worker has in hand.
LEMMA AtWork ==
    ASSUME Types, NEW w \in Workers
    PROVE  /\ worker[w] \in WorkerStates
           /\ worker[w].pc # "pop" => /\ worker[w].req \in Requests
                                      /\ worker[w].req.id \in Ids /\ worker[w].req.from \in Sessions
           /\ worker[w].pc \in {"note_map", "note_client", "note_write"} => worker[w].req.target \in Ids
           /\ worker[w].notify => worker[w].req.target \in Ids
           /\ worker[w].pc \notin Sending => worker[w].accounts = {} /\ worker[w].notify = FALSE
           /\ worker[w].pc \in Sending => Addressee(w) \in Ids
<1>1. worker[w] \in WorkerStates
  BY DEF Types, WorkerTypes
<1>2. worker[w].pc # "pop" => worker[w].req \in Requests
  BY DEF Types, WorkerTypes
<1>3. worker[w].pc # "pop" => worker[w].req.id \in Ids /\ worker[w].req.from \in Sessions
  BY <1>2 DEF Requests
<1>4. worker[w].pc \in {"note_map", "note_client", "note_write"} => worker[w].req.target \in Ids
  BY DEF Types, WorkerTypes
<1>5. worker[w].notify => worker[w].req.target \in Ids
  BY DEF Types, WorkerTypes
<1>6. worker[w].pc \notin Sending => worker[w].accounts = {} /\ worker[w].notify = FALSE
  BY DEF Types, WorkerTypes
<1>7. worker[w].pc \in Sending => Addressee(w) \in Ids
  BY <1>3, <1>4 DEF Addressee, Sending
<1> QED
  BY <1>1, <1>2, <1>3, <1>4, <1>5, <1>6, <1>7

\* A worker that takes one step further with its request.
LEMMA WorkerMoves ==
    ASSUME Types, NEW w \in Workers, worker[w].pc \in Sending,
           NEW pc \in Sending, worker' = [worker EXCEPT ![w].pc = pc],
           pc \in {"note_map", "note_client", "note_write"} => worker[w].req.target \in Ids
    PROVE  WorkerTypes'
<1> DEFINE x == [worker[w] EXCEPT !.pc = pc]
<1>1. worker[w].req \in Requests /\ worker[w] \in WorkerStates
  BY AtWork DEF Sending
<1>2. x \in WorkerStates /\ x.pc = pc /\ x.req = worker[w].req
  BY <1>1 DEF WorkerStates, WorkerPcs, Sending
<1>3. x.notify = worker[w].notify
  BY <1>1 DEF WorkerStates
<1>4. x.notify => x.req.target \in Ids
  BY <1>2, <1>3, AtWork
<1>5. worker' = [worker EXCEPT ![w] = x]
  OBVIOUS
<1> HIDE DEF x
<1> QED
  BY <1>1, <1>2, <1>4, <1>5, WorkerGoes

\* work_loop takes a request from the queue.
LEMMA PopTypes == ASSUME Types, NEW w \in Workers, Pop(w) PROVE Types'
<1> DEFINE x == [worker[w] EXCEPT !.pc = "accounts", !.req = Head(work_queue)]
<1>1. Head(work_queue) \in Requests /\ Tail(work_queue) \in Seq(Requests)
  BY DEF Pop, Types, QueueTypes
<1>2. worker[w] \in WorkerStates
  BY AtWork
<1>3. x \in WorkerStates /\ x.pc = "accounts" /\ x.req = Head(work_queue)
  BY <1>1, <1>2 DEF WorkerStates, WorkerPcs
<1>4. worker' = [worker EXCEPT ![w] = x]
  BY DEF Pop
<1>5. x.notify = worker[w].notify /\ x.accounts = worker[w].accounts
  BY <1>2 DEF WorkerStates
<1>6. worker[w].notify = FALSE /\ worker[w].accounts = {}
  BY AtWork DEF Pop, Sending
<1> HIDE DEF x
<1>7. WorkerTypes'
  BY <1>1, <1>3, <1>4, <1>5, <1>6, WorkerGoes
<1> QED
  BY <1>1, <1>7 DEF Types, Pop, notWorker, mutexes, TableTypes, MutexTypes, AcceptorTypes,
     ListenerTypes, QueueTypes, ClientTypes, NetTypes, RunTypes

\* process_request locks the accounts of its request.
LEMMA GetAccountsTypes == ASSUME Types, NEW w \in Workers, GetAccounts(w) PROVE Types'
<1> DEFINE req == worker[w].req
           accounts == {req.id} \cup IF HasTarget(req) THEN {req.target} ELSE {}
<1>1. PICK ok \in {FALSE, HasTarget(req)} :
         worker' = [worker EXCEPT ![w].pc = "resp_map", ![w].notify = ok, ![w].accounts = accounts]
  BY DEF GetAccounts
<1>2. worker[w] \in WorkerStates /\ req \in Requests /\ req.id \in Ids
  BY AtWork DEF GetAccounts
<1>3. HasTarget(req) => req.target \in Ids
  BY DEF HasTarget, registered
<1>4. accounts \in SUBSET Ids
  BY <1>2, <1>3
<1>5. ok \in BOOLEAN
  <2>1. HasTarget(req) \in BOOLEAN
    BY DEF HasTarget
  <2> QED
    BY <1>1, <2>1, Zenon
<1>6. ok => req.target \in Ids
  BY <1>1, <1>3
<1> HIDE DEF accounts
<1> DEFINE x == [worker[w] EXCEPT !.pc = "resp_map", !.notify = ok, !.accounts = accounts]
<1>7. x \in WorkerStates /\ x.pc = "resp_map" /\ x.req = req
  BY <1>2, <1>4, <1>5 DEF WorkerStates, WorkerPcs
<1>8. x.notify = ok
  BY <1>2 DEF WorkerStates
<1>9. worker' = [worker EXCEPT ![w] = x]
  BY <1>1
<1>10. x.notify => x.req.target \in Ids
  BY <1>6, <1>7, <1>8
<1> HIDE DEF x
<1>11. WorkerTypes'
  BY <1>2, <1>7, <1>9, <1>10, WorkerGoes DEF Sending
<1> QED
  BY <1>11 DEF Types, GetAccounts, notWorker, mutexes, TableTypes, MutexTypes, AcceptorTypes,
     ListenerTypes, QueueTypes, ClientTypes, NetTypes, RunTypes

\* send_response and send_notification lock the map, then the client.
LEMMA SendLockTypes ==
    ASSUME Types, NEW w \in Workers, SendLockMap(w) \/ SendLockClient(w)
    PROVE  Types'
<1>1. /\ worker[w].pc \in Sending /\ Addressee(w) \in Ids
      /\ worker[w].pc \in {"note_map", "note_client", "note_write"} => worker[w].req.target \in Ids
  BY AtWork DEF SendLockMap, SendLockClient, Sending
<1>2. \E pc \in Sending : /\ worker' = [worker EXCEPT ![w].pc = pc]
                          /\ pc \in {"note_map", "note_client", "note_write"} =>
                               worker[w].pc \in {"note_map", "note_client", "note_write"}
  <2>1. CASE SendLockMap(w)
    BY <2>1 DEF SendLockMap, Sending
  <2>2. CASE SendLockClient(w)
    BY <2>2 DEF SendLockClient, Sending
  <2> QED
    BY <2>1, <2>2
<1>3. WorkerTypes'
  BY <1>1, <1>2, WorkerMoves
<1>4. MutexTypes'
  BY <1>1 DEF Types, MutexTypes, Owners, Threads, SendLockMap, SendLockClient
<1>5. UNCHANGED <<client_conns, fds, work_queue, run, client, peer, notWorker>>
  BY DEF SendLockMap, SendLockClient
<1> QED
  BY <1>3, <1>4, <1>5 DEF Types, notWorker, TableTypes, AcceptorTypes, ListenerTypes, QueueTypes,
     ClientTypes, NetTypes, RunTypes

\* One session's state changes.
LEMMA ClientGoes ==
    ASSUME Types, NEW s \in Sessions, NEW x \in ClientStates, client' = [client EXCEPT ![s] = x],
           x.nreq <= MaxRequests[s]
    PROVE  ClientTypes'
BY DEF Types, ClientTypes

\* write() to a client, in each state of its end.
LEMMA WriteTypes ==
    ASSUME Types, NEW w \in Workers, Addressee(w) \in Ids, NEW f, NEW msg \in Messages, Write(w, f, msg),
           UNCHANGED <<incomplete_conns, backlog>>
    PROVE  (TableTypes /\ ClientTypes /\ NetTypes /\ RunTypes)'
<1> DEFINE sock == SocketAt(f)
<1>1. sock \in Sockets \cup {NoSock}
  BY SocketTypes
<1>2. CASE /\ sock # NoSock
           /\ client' = IF sock[2] = "requests"
                      THEN [client EXCEPT ![sock[1]].inbox = Append(@, msg)]
                      ELSE [client EXCEPT ![sock[1]].notices = Append(@, msg)]
           /\ UNCHANGED <<client_conns, fds, run, peer>>
  <2>1. PICK s \in Sessions : s = sock[1]
    BY <1>1, <1>2 DEF Sockets
  <2>2. client[s] \in ClientStates /\ client[s].nreq <= MaxRequests[s]
    BY DEF Types, ClientTypes
  <2>3. \E x \in ClientStates : client' = [client EXCEPT ![s] = x] /\ x.nreq = client[s].nreq
    <3>1. CASE sock[2] = "requests"
      <4> DEFINE x == [client[s] EXCEPT !.inbox = Append(@, msg)]
      <4>1. Append(client[s].inbox, msg) \in Seq(Messages)
        BY <2>2 DEF ClientStates
      <4>2. x \in ClientStates /\ x.nreq = client[s].nreq
        BY <2>2, <4>1 DEF ClientStates
      <4>3. client' = [client EXCEPT ![s] = x]
        BY <1>2, <2>1, <3>1
      <4> HIDE DEF x
      <4> QED
        BY <4>2, <4>3
    <3>2. CASE sock[2] # "requests"
      <4> DEFINE x == [client[s] EXCEPT !.notices = Append(@, msg)]
      <4>1. Append(client[s].notices, msg) \in Seq(Messages)
        BY <2>2 DEF ClientStates
      <4>2. x \in ClientStates /\ x.nreq = client[s].nreq
        BY <2>2, <4>1 DEF ClientStates
      <4>3. client' = [client EXCEPT ![s] = x]
        BY <1>2, <2>1, <3>2
      <4> HIDE DEF x
      <4> QED
        BY <4>2, <4>3
    <3> QED
      BY <3>1, <3>2
  <2>4. ClientTypes'
    BY <2>2, <2>3, ClientGoes
  <2> QED
    BY <1>2, <2>4 DEF Types, TableTypes, NetTypes, RunTypes
<1>3. CASE /\ sock # NoSock /\ peer' \in {peer, [peer EXCEPT ![sock] = "pipe"]}
           /\ UNCHANGED <<client_conns, fds, run, client>>
  BY <1>1, <1>3 DEF Types, TableTypes, ClientTypes, NetTypes, RunTypes, Peers
<1>4. CASE Disconnect(Addressee(w)) /\ UNCHANGED <<run, client, peer>>
  BY <1>4, DisconnectTypes DEF Types, TableTypes, ClientTypes, NetTypes, RunTypes
<1>5. CASE /\ run' = "killed" /\ fds' = [x \in Fds |-> NoSock]
           /\ UNCHANGED <<client_conns, client, peer>>
  BY <1>5 DEF Types, TableTypes, ClientTypes, NetTypes, RunTypes
<1> QED
  BY <1>2, <1>3, <1>4, <1>5 DEF Write

\* send_response and send_notification write and release the client.
LEMMA SendTypes ==
    ASSUME Types, NEW w \in Workers, send_response(w) \/ send_notification(w)
    PROVE  Types'
<1> DEFINE i == Addressee(w)
           req == worker[w].req
<1>1. /\ worker[w].pc \in Sending /\ i \in Ids /\ worker[w] \in WorkerStates
      /\ req \in Requests /\ req.from \in Sessions
  BY AtWork DEF send_response, send_notification, Sending
<1>2. /\ [type |-> "response", to |-> i, about |-> req.from] \in Messages
      /\ [type |-> "notification", to |-> i, about |-> req.from] \in Messages
  BY <1>1 DEF Messages
<1>3. /\ UNCHANGED <<client_conns_mtx, work_queue, notWorker>> /\ mtx' = [mtx EXCEPT ![i] = Free]
      /\ UNCHANGED <<incomplete_conns, backlog>>
  BY DEF send_response, send_notification, notWorker
<1>4. \/ \E f : \E msg \in Messages : Write(w, f, msg)
      \/ UNCHANGED <<client_conns, fds, run, client, peer>>
  <2>1. CASE send_response(w)
    BY <1>2, <2>1 DEF send_response
  <2>2. CASE send_notification(w)
    BY <1>2, <2>2 DEF send_notification
  <2> QED
    BY <2>1, <2>2
<1>5. (TableTypes /\ ClientTypes /\ NetTypes /\ RunTypes)'
  <2>1. ASSUME NEW f, NEW msg \in Messages, Write(w, f, msg)
        PROVE  (TableTypes /\ ClientTypes /\ NetTypes /\ RunTypes)'
    BY <1>1, <1>3, <2>1, WriteTypes
  <2>2. CASE UNCHANGED <<client_conns, fds, run, client, peer>>
    BY <1>3, <2>2 DEF Types, TableTypes, ClientTypes, NetTypes, RunTypes
  <2> QED
    BY <1>4, <2>1, <2>2
<1>6. MutexTypes'
  BY <1>1, <1>3 DEF Types, MutexTypes, Owners
<1>7. WorkerTypes'
  <2>1. CASE send_response(w) /\ worker[w].notify
    <3>1. worker' = [worker EXCEPT ![w] = [worker[w] EXCEPT !.pc = "note_map"]]
      BY <2>1 DEF send_response
    <3>2. worker' = [worker EXCEPT ![w].pc = "note_map"]
      BY <3>1
    <3> QED
      BY <1>1, <2>1, <3>2, AtWork, WorkerMoves DEF Sending
  <2>2. CASE worker' = [worker EXCEPT ![w] = WorkerHome]
    BY <2>2, HomeTypes, WorkerGoes DEF Sending
  <2> QED
    BY <2>1, <2>2 DEF send_response, send_notification
<1> QED
  BY <1>3, <1>5, <1>6, <1>7 DEF Types, notWorker, AcceptorTypes, ListenerTypes, QueueTypes

\* stop() begins and ends, and the process does.
LEMMA StopTypes == ASSUME Types, StopBegin \/ StopEnd \/ Exit PROVE Types'
<1>1. CASE StopBegin
  BY <1>1 DEF StopBegin, Types, mutexes, threads, network, TableTypes, MutexTypes, AcceptorTypes, ListenerTypes,
     WorkerTypes, QueueTypes, ClientTypes, NetTypes, RunTypes
<1>2. CASE StopEnd
  <2>1. TableTypes' /\ QueueTypes' /\ RunTypes'
    BY <1>2, HomeTypes, SocketTypes DEF StopEnd, Types, TableTypes, QueueTypes, RunTypes
  <2> QED
    BY <1>2, <2>1 DEF StopEnd, Types, mutexes, threads, network, MutexTypes, AcceptorTypes,
       ListenerTypes, WorkerTypes, ClientTypes, NetTypes
<1>3. CASE Exit
  <2>1. TableTypes' /\ RunTypes'
    BY <1>3 DEF Exit, Types, TableTypes, RunTypes
  <2> QED
    BY <1>3, <2>1 DEF Exit, Types, mutexes, threads, network, MutexTypes, AcceptorTypes,
       ListenerTypes, WorkerTypes, QueueTypes, ClientTypes, NetTypes
<1> QED
  BY <1>1, <1>2, <1>3

\* A client's end that is closed is not open.
LEMMA EndTypes ==
    ASSUME Types, NEW k \in Sockets, NEW dirty
    PROVE  CloseEnd(k, dirty) \in {"none", "fin", "rst", "pipe", "silent"}
BY DEF CloseEnd, Types, NetTypes, Peers

\* What a client changes: its own state, its sockets and the queue of connections.
LEMMA ClientStepTypes == ASSUME Types, NEW s \in Sessions, ClientStep(s) PROVE Types'
<1>1. UNCHANGED server
  BY DEF ClientStep, SendHello, BadHello, make_request, ReceiveResponse, receive_notifications,
     disconnect, DisconnectJoin, Crash
<1>2. client[s] \in ClientStates /\ client[s].nreq <= MaxRequests[s] /\ client[s].nreq \in Nat
  BY DEF Types, ClientTypes, ClientStates
<1>3. RequestSock(s) \in Sockets /\ NoticeSock(s) \in Sockets /\ <<s, "bad">> \in Sockets
  BY DEF RequestSock, NoticeSock, Sockets, Hellos
<1>4. MaxRequests[s] \in Nat /\ IdOf[s] \in Ids /\ Targets[s] \subseteq Ids \cup {NoTarget}
  BY ServerAssumption
<1>5. ClientTypes'
  <2>1. \E x \in ClientStates : client' = [client EXCEPT ![s] = x] /\ x.nreq <= MaxRequests[s]
    <3>1. CASE \E pc \in {"half", "idle", "failed", "leaving", "gone"} : client' = [client EXCEPT ![s].pc = pc]
      <4>1. PICK pc \in {"half", "idle", "failed", "leaving", "gone"} : client' = [client EXCEPT ![s].pc = pc]
        BY <3>1
      <4> DEFINE x == [client[s] EXCEPT !.pc = pc]
      <4>2. x \in ClientStates /\ x.nreq = client[s].nreq
        BY <1>2 DEF ClientStates
      <4>3. client' = [client EXCEPT ![s] = x]
        BY <4>1
      <4> HIDE DEF x
      <4> QED
        BY <1>2, <4>2, <4>3
    <3>2. CASE make_request(s)
      <4>1. PICK t \in Targets[s] :
              client' = [client EXCEPT ![s].pc = "waiting", ![s].nreq = @ + 1, ![s].unread =
                      IF ServerEnd(RequestSock(s))
                        THEN [id |-> IdOf[s], target |-> t, from |-> s] ELSE @]
        BY <3>2 DEF make_request
      <4>2. PICK u \in Requests \cup {NoRequest} :
              u = IF ServerEnd(RequestSock(s))
                        THEN [id |-> IdOf[s], target |-> t, from |-> s] ELSE client[s].unread
        BY <1>2, <1>4, <4>1 DEF ClientStates, Requests
      <4> DEFINE x == [client[s] EXCEPT !.pc = "waiting", !.nreq = @ + 1, !.unread = u]
      <4>3. client[s].nreq + 1 \in Nat /\ client[s].nreq + 1 <= MaxRequests[s]
        BY <1>2, <1>4, <3>2 DEF make_request
      <4>4. x \in ClientStates /\ x.nreq = client[s].nreq + 1
        BY <1>2, <4>2, <4>3 DEF ClientStates
      <4>5. client' = [client EXCEPT ![s] = x]
        BY <4>1, <4>2
      <4> HIDE DEF x
      <4> QED
        BY <4>3, <4>4, <4>5
    <3>3. CASE ReceiveResponse(s) /\ client[s].inbox # << >>
      <4> DEFINE x == [client[s] EXCEPT !.pc = "idle", !.inbox = Tail(@)]
      <4>1. Tail(client[s].inbox) \in Seq(Messages)
        BY <1>2, <3>3 DEF ClientStates
      <4>2. x \in ClientStates /\ x.nreq = client[s].nreq
        BY <1>2, <4>1 DEF ClientStates
      <4>3. client' = [client EXCEPT ![s] = x]
        BY <3>3 DEF ReceiveResponse
      <4> HIDE DEF x
      <4> QED
        BY <1>2, <4>2, <4>3
    <3>4. CASE receive_notifications(s)
      <4> DEFINE x == [client[s] EXCEPT !.notices = Tail(@)]
      <4>1. Tail(client[s].notices) \in Seq(Messages)
        BY <1>2, <3>4 DEF ClientStates, receive_notifications
      <4>2. x \in ClientStates /\ x.nreq = client[s].nreq
        BY <1>2, <4>1 DEF ClientStates
      <4>3. client' = [client EXCEPT ![s] = x]
        BY <3>4 DEF receive_notifications
      <4> HIDE DEF x
      <4> QED
        BY <1>2, <4>2, <4>3
    <3>5. CASE DisconnectJoin(s)
      <4> DEFINE x == [client[s] EXCEPT !.pc = "gone", !.notices = << >>]
      <4>1. x \in ClientStates /\ x.nreq = client[s].nreq
        <5>1. << >> \in Seq(Messages)
          OBVIOUS
        <5> QED
          BY <1>2, <5>1 DEF ClientStates
      <4>2. client' = [client EXCEPT ![s] = x]
        BY <3>5 DEF DisconnectJoin
      <4> HIDE DEF x
      <4> QED
        BY <1>2, <4>1, <4>2
    <3>6. CASE SendHello(s)
      <4>1. \/ client' = [client EXCEPT ![s].pc = IF client[s].pc = "start" THEN "half" ELSE "idle"]
            \/ client' = [client EXCEPT ![s].pc = "gone"]
        BY <3>6 DEF SendHello
      <4> QED
        BY <3>1, <4>1
    <3>7. CASE BadHello(s) \/ disconnect(s) \/ Crash(s)
      BY <3>1, <3>7 DEF BadHello, disconnect, Crash
    <3>8. CASE ReceiveResponse(s) /\ client[s].inbox = << >>
      BY <3>1, <3>8 DEF ReceiveResponse
    <3> QED
      BY <3>2, <3>3, <3>4, <3>5, <3>6, <3>7, <3>8 DEF ClientStep
  <2> QED
    BY <2>1, ClientGoes
<1>6. NetTypes'
  <2> DEFINE k == IF client[s].pc = "start" THEN RequestSock(s) ELSE NoticeSock(s)
             Ends == {"none", "open", "fin", "rst", "pipe", "silent"}
  <2>1. k \in Sockets /\ backlog \in Seq(Sockets) /\ peer \in [Sockets -> Ends]
    BY <1>3 DEF Types, NetTypes, Peers
  <2>2. \A j \in Sockets : \A d : CloseEnd(j, d) \in Ends
    BY EndTypes
  <2>3. backlog' \in Seq(Sockets)
    <3>1. \/ backlog' = backlog \/ backlog' = Append(backlog, k)
          \/ backlog' = Append(backlog, <<s, "bad">>)
      BY DEF ClientStep, SendHello, BadHello, make_request, ReceiveResponse, receive_notifications,
         disconnect, DisconnectJoin, Crash
    <3>2. \A j \in Sockets : Append(backlog, j) \in Seq(Sockets)
      BY <2>1
    <3> HIDE DEF k
    <3> QED
      BY <1>3, <2>1, <3>1, <3>2
  <2>4. peer' \in [Sockets -> Ends]
    <3>1. ASSUME NEW j \in Sockets, NEW h \in Sockets, NEW e \in Ends, NEW g \in Ends
          PROVE  /\ [peer EXCEPT ![j] = e] \in [Sockets -> Ends]
                 /\ [peer EXCEPT ![j] = e, ![h] = g] \in [Sockets -> Ends]
      BY <2>1
    <3>2. CASE SendHello(s)
      <4>1. \/ peer' = [peer EXCEPT ![k] = "open"]
            \/ peer' = [peer EXCEPT ![RequestSock(s)] = CloseEnd(RequestSock(s), FALSE), ![k] = "silent"]
            \/ peer' = [peer EXCEPT ![RequestSock(s)] = CloseEnd(RequestSock(s), FALSE)]
        BY <3>2 DEF SendHello
      <4> HIDE DEF k
      <4> QED
        BY <1>3, <2>1, <2>2, <3>1, <4>1, ZenonT(60)
    <3>3. CASE BadHello(s)
      BY <1>3, <2>1, <3>3 DEF BadHello
    <3>4. CASE disconnect(s)
      <4>1. CloseEnd(RequestSock(s), client[s].inbox # << >>) \in Ends
        BY <1>3, <2>1 DEF CloseEnd
      <4> QED
        BY <1>3, <3>1, <3>4, <4>1 DEF disconnect
    <3>5. CASE DisconnectJoin(s)
      <4>1. CloseEnd(NoticeSock(s), Len(client[s].notices) > 1) \in Ends
        BY <1>3, <2>1 DEF CloseEnd
      <4> QED
        BY <1>3, <3>1, <3>5, <4>1 DEF DisconnectJoin
    <3>6. CASE Crash(s)
      <4>1. /\ CloseEnd(RequestSock(s), client[s].inbox # << >>) \in Ends
            /\ CloseEnd(NoticeSock(s), client[s].notices # << >>) \in Ends
        BY <1>3, <2>1 DEF CloseEnd
      <4> QED
        BY <1>3, <3>1, <3>6, <4>1 DEF Crash
    <3>7. CASE UNCHANGED peer
      BY <2>1, <3>7
    <3> QED
      BY <3>2, <3>3, <3>4, <3>5, <3>6, <3>7 DEF ClientStep, make_request, ReceiveResponse,
         receive_notifications
  <2> QED
    BY <2>3, <2>4 DEF NetTypes, Peers
<1> QED
  BY <1>1, <1>5, <1>6 DEF server, mutexes, threads, Types, TableTypes, MutexTypes, AcceptorTypes,
     ListenerTypes, WorkerTypes, QueueTypes, RunTypes

\* The types are inductive.
LEMMA NextTypes == Types /\ [Next]_vars => Types'
<1> SUFFICES ASSUME Types, [Next]_vars PROVE Types'
  OBVIOUS
<1>1. CASE AcceptorStep
  BY <1>1, AcceptTypes, AcceptStoppedTypes, ReadHelloTypes, RegisterTypes DEF AcceptorStep
<1>2. CASE ListenerStep
  BY <1>2, FetchTypes, ReadTypes DEF ListenerStep
<1>3. CASE StopBegin \/ StopEnd \/ Exit
  BY <1>3, StopTypes
<1>4. ASSUME NEW w \in Workers, WorkerStep(w) PROVE Types'
  BY <1>4, PopTypes, GetAccountsTypes, SendLockTypes, SendTypes DEF WorkerStep
<1>5. ASSUME NEW s \in Sessions, ClientStep(s) PROVE Types'
  BY <1>5, ClientStepTypes
<1>6. CASE UNCHANGED vars
  BY <1>6 DEF vars, mutexes, threads, network, Types, TableTypes, MutexTypes, AcceptorTypes,
     ListenerTypes, WorkerTypes, QueueTypes, ClientTypes, NetTypes, RunTypes, Addressee
<1> QED
  BY <1>1, <1>2, <1>3, <1>4, <1>5, <1>6 DEF Next

\* The inductive types hold throughout.
LEMMA TypesHold == Spec => []Types
BY InitTypes, NextTypes, PTL DEF Spec

\* The state of the server's threads, of its tables and of the clients has its types, whatever
\* the clients do and however the threads interleave.
THEOREM TypeCorrect == Spec => []TypeOK
BY TypesHold, TypesTypeOK, PTL

-----------------------------------------------------------------------------
(* Who holds which mutex.                                                  *)

Writing == {"resp_write", "note_write"}
Locking == {"resp_client", "note_client"}

\* The map's mutex is held by fetch_requests while it collects clients, and by a worker
\* that has looked up a client it has not locked yet.
MapHeld ==
    /\ client_conns_mtx # Acceptor
    /\ client_conns_mtx = Listener => listener.pc = "scan"
    /\ \A w \in Workers : client_conns_mtx = w => worker[w].pc \in Locking

\* A client's mutex is held by fetch_requests while it collects clients or reads, and by a
\* worker that writes to that client.
ClientsHeld ==
    \A i \in Ids :
      /\ mtx[i] # Acceptor
      /\ mtx[i] = Listener => \/ listener.pc = "scan" /\ i \in listener.available
                              \/ listener.pc = "reading" /\ listener.client = i
      /\ \A w \in Workers : mtx[i] = w => worker[w].pc \in Writing /\ Addressee(w) = i

Held == MapHeld /\ ClientsHeld

\* The threads are different, and none of them is the holder of a free mutex.
LEMMA ThreadFacts ==
    /\ Acceptor # Listener /\ Acceptor \notin Workers /\ Listener \notin Workers
    /\ Free # Acceptor /\ Free # Listener /\ Free \notin Workers
BY ServerAssumption

\* No mutex is held at the start.
LEMMA InitHeld == Init => Held
BY ThreadFacts DEF Init, Held, MapHeld, ClientsHeld

\* A step of w leaves the other workers where they are.
LEMMA OthersStay ==
    ASSUME Types, NEW w \in Workers, NEW x, worker' = [worker EXCEPT ![w] = x]
    PROVE  /\ worker'[w] = x
           /\ \A v \in Workers \ {w} : worker'[v] = worker[v] /\ Addressee(v)' = Addressee(v)
BY DEF Types, WorkerTypes, Addressee

\* fetch_requests: the map's mutex while it scans, a client's while it is collected or read.
LEMMA ListenerHeld ==
    ASSUME Types, Held, ListenerStep
    PROVE  Held'
<1> USE ThreadFacts
<1>1. /\ listener \in ListenerStates /\ mtx \in [Ids -> Owners]
      /\ ListenerHome.pc = "lock"
  BY HomeTypes DEF Types, ListenerTypes, MutexTypes
<1>2. worker' = worker /\ \A w \in Workers : Addressee(w)' = Addressee(w)
  BY DEF ListenerStep, FetchLock, FetchPrepare, FetchPoll, read_request, FetchReturn, FetchScan,
     FetchTryLock, notListener, Addressee
<1>3. CASE FetchLock
  <2>1. listener'.pc = "scan" /\ listener.pc = "lock"
    BY <1>1, <1>3 DEF FetchLock, ListenerStates
  <2>2. client_conns_mtx' = Listener /\ mtx' = mtx
    BY <1>3 DEF FetchLock
  <2> QED
    BY <1>2, <2>1, <2>2 DEF Held, MapHeld, ClientsHeld
<1>4. CASE FetchPrepare
  <2>1. \A i \in Ids : mtx'[i] = IF i \in listener.available THEN Free ELSE mtx[i]
    BY <1>4 DEF FetchPrepare
  <2>2. client_conns_mtx' = Free /\ listener.pc = "scan"
    BY <1>4 DEF FetchPrepare
  <2> QED
    BY <1>2, <2>1, <2>2 DEF Held, MapHeld, ClientsHeld
<1>5. CASE FetchPoll \/ FetchReturn
  <2>1. client_conns_mtx' = client_conns_mtx /\ mtx' = mtx /\ listener.pc \in {"poll", "read"}
    BY <1>5 DEF FetchPoll, FetchReturn, mutexes
  <2> QED
    BY <1>2, <2>1 DEF Held, MapHeld, ClientsHeld
<1>6. ASSUME NEW i \in Ids, FetchScan(i) PROVE Held'
  <2>1. /\ client_conns_mtx' = client_conns_mtx
        /\ \A j \in Ids \ {i} : mtx'[j] = mtx[j]
        /\ mtx'[i] # mtx[i] => mtx[i] = Free /\ client_conns[i].is_connected /\ mtx'[i] = Listener
    BY <1>1, <1>6 DEF FetchScan, KeepsLock
  <2>2. listener.pc = "scan" /\ listener'.pc = "scan"
    BY <1>1, <1>6 DEF FetchScan, ListenerStates
  <2>3. \A j \in listener.available : j \in listener'.available
    BY <1>1, <1>6 DEF FetchScan, ListenerStates
  <2>4. mtx[i] = Free /\ client_conns[i].is_connected => i \in listener'.available
    BY <1>1, <1>6 DEF FetchScan, ListenerStates
  <2>5. MapHeld'
    BY <1>2, <2>1, <2>2 DEF Held, MapHeld
  <2>6. ClientsHeld'
    BY <1>2, <2>1, <2>2, <2>3, <2>4 DEF Held, ClientsHeld
  <2> QED
    BY <2>5, <2>6 DEF Held
<1>7. ASSUME NEW i \in Ids, FetchTryLock(i) PROVE Held'
  <2>1. client_conns_mtx' = client_conns_mtx /\ listener.pc = "read"
    BY <1>7 DEF FetchTryLock
  <2>2. CASE mtx[i] = Free
    <3>1. listener'.pc = "reading" /\ listener'.client = i
      BY <1>1, <1>7, <2>2 DEF FetchTryLock, ListenerStates
    <3>2. mtx'[i] = Listener /\ \A j \in Ids \ {i} : mtx'[j] = mtx[j]
      BY <1>1, <1>7, <2>2 DEF FetchTryLock
    <3> QED
      BY <1>2, <2>1, <3>1, <3>2 DEF Held, MapHeld, ClientsHeld
  <2>3. CASE mtx[i] # Free
    <3>1. mtx' = mtx
      BY <1>7, <2>3 DEF FetchTryLock
    <3> QED
      BY <1>2, <2>1, <3>1 DEF Held, MapHeld, ClientsHeld
  <2> QED
    BY <2>2, <2>3
<1>8. CASE read_request
  <2>1. /\ listener.pc = "reading" /\ client_conns_mtx' = client_conns_mtx
        /\ mtx' = [mtx EXCEPT ![listener.client] = Free]
    BY <1>8 DEF read_request
  <2>2. \A j \in Ids : mtx'[j] = IF j = listener.client THEN Free ELSE mtx[j]
    BY <1>1, <2>1
  <2> QED
    BY <1>2, <2>1, <2>2 DEF Held, MapHeld, ClientsHeld
<1> QED
  BY <1>3, <1>4, <1>5, <1>6, <1>7, <1>8 DEF ListenerStep

\* A worker: the map's mutex until it has its client's, the client's until it has written.
LEMMA WorkerHeld ==
    ASSUME Types, Held, NEW w \in Workers, WorkerStep(w)
    PROVE  Held'
<1> USE ThreadFacts
<1>1. /\ worker[w] \in WorkerStates /\ mtx \in [Ids -> Owners]
      /\ worker[w].pc \in Sending => Addressee(w) \in Ids
  BY AtWork DEF Types, MutexTypes
<1>2. listener' = listener
  BY DEF WorkerStep, Pop, GetAccounts, SendLockMap, SendLockClient, send_response, send_notification,
     notWorker
<1>3. CASE Pop(w) \/ GetAccounts(w)
  <2>1. client_conns_mtx' = client_conns_mtx /\ mtx' = mtx /\ worker[w].pc \in {"pop", "accounts"}
    BY <1>3 DEF Pop, GetAccounts, mutexes
  <2>2. \E x : worker' = [worker EXCEPT ![w] = x]
    <3>1. CASE Pop(w)
      BY <3>1 DEF Pop
    <3>2. CASE GetAccounts(w)
      BY <3>2 DEF GetAccounts
    <3> QED
      BY <1>3, <3>1, <3>2
  <2>3. \A v \in Workers \ {w} : worker'[v] = worker[v] /\ Addressee(v)' = Addressee(v)
    BY <2>2, OthersStay
  <2>4. client_conns_mtx # w /\ \A i \in Ids : mtx[i] # w
    BY <2>1 DEF Held, MapHeld, ClientsHeld, Locking, Writing
  <2> QED
    BY <1>2, <2>1, <2>3, <2>4 DEF Held, MapHeld, ClientsHeld
<1>4. CASE SendLockMap(w)
  <2> DEFINE x == [worker[w] EXCEPT !.pc = IF @ = "resp_map" THEN "resp_client" ELSE "note_client"]
  <2>1. worker' = [worker EXCEPT ![w] = x] /\ x.pc \in Locking
    BY <1>1, <1>4 DEF SendLockMap, Locking, WorkerStates
  <2>2. client_conns_mtx' = w /\ mtx' = mtx /\ worker[w].pc \in {"resp_map", "note_map"}
    BY <1>4 DEF SendLockMap
  <2> HIDE DEF x
  <2>3. worker'[w] = x /\ \A v \in Workers \ {w} : worker'[v] = worker[v] /\ Addressee(v)' = Addressee(v)
    BY <2>1, OthersStay
  <2>4. \A i \in Ids : mtx[i] # w
    BY <2>2 DEF Held, ClientsHeld, Writing
  <2> QED
    BY <1>2, <2>1, <2>2, <2>3, <2>4 DEF Held, MapHeld, ClientsHeld
<1>5. CASE SendLockClient(w)
  <2> DEFINE pc == IF worker[w].pc = "resp_client" THEN "resp_write" ELSE "note_write"
             x == [worker[w] EXCEPT !.pc = pc]
  <2>1. worker' = [worker EXCEPT ![w] = x] /\ x.pc = pc /\ x.pc \in Writing
    BY <1>1, <1>5 DEF SendLockClient, Writing, WorkerStates
  <2>2. worker'[w] = x
    BY <2>1, OthersStay
  <2>3. Addressee(w)' = Addressee(w)
    <3>1. x.req = worker[w].req
      BY <1>1 DEF WorkerStates
    <3>2. \/ worker[w].pc = "resp_client" /\ x.pc = "resp_write"
          \/ worker[w].pc = "note_client" /\ x.pc = "note_write"
      <4>1. worker[w].pc \in {"resp_client", "note_client"}
        BY <1>5 DEF SendLockClient
      <4> QED
        BY <2>1, <4>1
    <3> QED
      BY <2>2, <3>1, <3>2 DEF Addressee
  <2> HIDE DEF x
  <2>4. client_conns_mtx' = Free /\ mtx[Addressee(w)] = Free /\ Addressee(w) \in Ids
    BY <1>1, <1>5 DEF SendLockClient, Sending
  <2>5. \A j \in Ids : mtx'[j] = IF j = Addressee(w) THEN w ELSE mtx[j]
    BY <1>1, <1>5, <2>4 DEF SendLockClient
  <2>6. worker[w].pc \notin Writing
    BY <1>5 DEF SendLockClient, Writing
  <2>7. \A v \in Workers \ {w} : worker'[v] = worker[v] /\ Addressee(v)' = Addressee(v)
    BY <2>1, OthersStay
  <2>8. MapHeld'
    BY <2>4 DEF MapHeld
  <2>9. ClientsHeld'
    BY <1>2, <2>1, <2>2, <2>3, <2>5, <2>6, <2>7 DEF Held, ClientsHeld
  <2> QED
    BY <2>8, <2>9 DEF Held
<1>6. CASE send_response(w) \/ send_notification(w)
  <2>1. /\ client_conns_mtx' = client_conns_mtx /\ worker[w].pc \in Writing
        /\ mtx' = [mtx EXCEPT ![Addressee(w)] = Free]
    BY <1>6 DEF send_response, send_notification, Writing
  <2>2. \A j \in Ids : mtx'[j] = IF j = Addressee(w) THEN Free ELSE mtx[j]
    BY <1>1, <2>1
  <2>3. \E x : worker' = [worker EXCEPT ![w] = x]
    BY <1>6 DEF send_response, send_notification
  <2>4. \A v \in Workers \ {w} : worker'[v] = worker[v] /\ Addressee(v)' = Addressee(v)
    BY <2>3, OthersStay
  <2> QED
    BY <1>2, <2>1, <2>2, <2>4 DEF Held, MapHeld, ClientsHeld, Locking, Writing
<1> QED
  BY <1>3, <1>4, <1>5, <1>6 DEF WorkerStep

\* Who holds which mutex is inductive; no other step locks or unlocks one.
LEMMA NextHeld == Types /\ Held /\ [Next]_vars => Held'
<1> SUFFICES ASSUME Types, Held, [Next]_vars PROVE Held'
  OBVIOUS
<1>1. CASE UNCHANGED <<mutexes, worker, listener>>
  BY <1>1 DEF mutexes, Held, MapHeld, ClientsHeld, Addressee
<1>2. CASE AcceptorStep
  BY <1>1, <1>2 DEF AcceptorStep, Accept, AcceptStopped, ReadHello, Register, handle_reconnecting_client
<1>3. CASE StopBegin \/ StopEnd \/ Exit
  BY <1>1, <1>3 DEF StopBegin, StopEnd, Exit, threads
<1>4. ASSUME NEW s \in Sessions, ClientStep(s) PROVE Held'
  <2>1. UNCHANGED server
    BY <1>4 DEF ClientStep, SendHello, BadHello, make_request, ReceiveResponse, receive_notifications,
       disconnect, DisconnectJoin, Crash
  <2> QED
    BY <1>1, <2>1 DEF server, threads
<1>5. CASE UNCHANGED vars
  BY <1>1, <1>5 DEF vars, threads
<1> QED
  BY <1>2, <1>3, <1>4, <1>5, ListenerHeld, WorkerHeld DEF Next
-----------------------------------------------------------------------------
(* No circular wait.                                                       *)

\* The order in which the mutexes are taken: accounts, client_conns_mtx, a client's.
Rank(t) ==
    CASE t = Acceptor -> IF acceptor.pc = "register" THEN 2 ELSE IF acceptor.pc = "reconnect" THEN 1 ELSE 0
      [] t = Listener -> IF listener.pc = "lock" THEN 2 ELSE 0
      [] OTHER -> IF worker[t].pc = "accounts" THEN 3
                  ELSE IF worker[t].pc \in {"resp_map", "note_map"} THEN 2
                  ELSE IF worker[t].pc \in Locking THEN 1 ELSE 0

\* The holder of the mutex a thread waits for has a lower rank: it waits only for one
\* that is taken later in the order, or for none.
LEMMA RankFalls ==
    ASSUME Types, Held, NEW t \in Threads, NEW u \in WaitsFor(t)
    PROVE  Rank(u) < Rank(t)
<1> USE ThreadFacts
<1>1. client_conns_mtx \in Owners /\ \A i \in Ids : mtx[i] \in Owners
  BY DEF Types, MutexTypes
<1>2. u # Free
  BY DEF WaitsFor
<1>3. ASSUME u = client_conns_mtx PROVE Rank(u) \in {0, 1}
  BY <1>1, <1>2, <1>3 DEF Held, MapHeld, Owners, Threads, Rank, Locking
<1>4. ASSUME NEW i \in Ids, u = mtx[i] PROVE Rank(u) = 0
  BY <1>1, <1>2, <1>4 DEF Held, ClientsHeld, Owners, Threads, Rank, Locking, Writing
<1>5. CASE t = Acceptor
  <2>1. CASE acceptor.pc = "register"
    <3>1. u = client_conns_mtx /\ Rank(t) = 2
      BY <1>5, <2>1 DEF WaitsFor, Rank
    <3> QED
      BY <1>3, <3>1
  <2>2. CASE acceptor.pc = "reconnect"
    <3>1. u = mtx[acceptor.id] /\ Rank(t) = 1 /\ acceptor.id \in Ids
      BY <1>5, <2>2 DEF WaitsFor, Rank, Types, AcceptorTypes
    <3> QED
      BY <1>4, <3>1
  <2> QED
    BY <1>5, <2>1, <2>2 DEF WaitsFor
<1>6. CASE t = Listener
  <2>1. u = client_conns_mtx /\ Rank(t) = 2
    BY <1>6 DEF WaitsFor, Rank
  <2> QED
    BY <1>3, <2>1
<1>7. CASE t \in Workers
  <2>1. CASE worker[t].pc \in {"resp_map", "note_map"}
    <3>1. u = client_conns_mtx /\ Rank(t) = 2
      BY <1>7, <2>1 DEF WaitsFor, Rank
    <3> QED
      BY <1>3, <3>1
  <2>2. CASE worker[t].pc \in Locking
    <3>1. u = mtx[Addressee(t)] /\ Rank(t) = 1 /\ Addressee(t) \in Ids
      BY <1>7, <2>2, AtWork DEF WaitsFor, Rank, Locking, Sending
    <3> QED
      BY <1>4, <3>1
  <2>3. CASE worker[t].pc = "accounts"
    <3>1. u \in Workers /\ worker[u].accounts # {} /\ Rank(t) = 3
      BY <1>7, <2>3 DEF WaitsFor, Rank
    <3>2. worker[u].pc \in Sending
      BY <3>1, AtWork
    <3>3. Rank(u) \in {0, 1, 2}
      BY <3>1, <3>2 DEF Rank, Sending, Locking
    <3> QED
      BY <3>1, <3>3
  <2> QED
    BY <1>7, <2>1, <2>2, <2>3 DEF WaitsFor, Locking
<1> QED
  BY <1>5, <1>6, <1>7 DEF Threads

\* Of any set of threads one of the lowest rank waits for none of them.
LEMMA RankOrder == Types /\ Held => NoCircularWait
<1> SUFFICES ASSUME Types, Held, NEW S \in SUBSET Threads, S # {}
             PROVE  \E t \in S : WaitsFor(t) \cap S = {}
  BY DEF NoCircularWait
<1>1. \A t \in S : Rank(t) \in {0, 1, 2, 3}
  BY DEF Rank, Threads
<1>2. PICK t \in S : \A u \in S : ~(Rank(u) < Rank(t))
  <2>1. CASE \E t \in S : Rank(t) = 0
    BY <1>1, <2>1
  <2>2. CASE (\A t \in S : Rank(t) # 0) /\ \E t \in S : Rank(t) = 1
    BY <1>1, <2>2
  <2>3. CASE (\A t \in S : Rank(t) # 0 /\ Rank(t) # 1) /\ \E t \in S : Rank(t) = 2
    BY <1>1, <2>3
  <2>4. CASE \A t \in S : Rank(t) = 3
    BY <2>4
  <2> QED
    BY <1>1, <2>1, <2>2, <2>3, <2>4
<1> QED
  BY <1>2, RankFalls

\* The threads of the server never wait for one another in a circle, for any number of workers,
\* clients and ids: accounts, client_conns_mtx and the clients' mutexes are taken in that order, and
\* fetch_requests, which keeps clients' mutexes, takes further ones with try_lock only.
THEOREM NoDeadlock == Spec => []NoCircularWait
<1>1. Spec => [](Types /\ Held)
  BY InitTypes, NextTypes, InitHeld, NextHeld, PTL DEF Spec
<1> QED
  BY <1>1, RankOrder, PTL

-----------------------------------------------------------------------------
(* A connected client keeps its connection.                                *)

\* Only a client the map holds is connected, and what accept_client returns is one for it.
ConnectedExists ==
    /\ \A i \in Ids : client_conns[i].is_connected => client_conns[i].exists
    /\ acceptor.pc \in {"register", "reconnect"} => acceptor.conn.exists

\* What a step may do with one client_conn: leave it, disconnect it, or connect one that
\* was not connected.
ConnStep(i) ==
    \/ client_conns'[i] = client_conns[i]
    \/ ~client_conns'[i].is_connected
    \/ ~client_conns[i].is_connected /\ client_conns'[i].exists

\* The server starts with no client.
LEMMA InitExists == Init => ConnectedExists
BY DEF Init, ConnectedExists, NoConn, AcceptorHome

\* A short read or write ends in a client_conn that is not connected; no other changes.
LEMMA DisconnectConns ==
    ASSUME Types, NEW j \in Ids, Disconnect(j)
    PROVE  \A i \in Ids : ConnStep(i)
<1>1. client_conns' = [client_conns EXCEPT ![j] = [client_conns[j] EXCEPT !.is_connected = FALSE]]
  BY DEF Disconnect
<1>2. client_conns \in [Ids -> Conns] /\ client_conns[j] \in Conns
  BY DEF Types, TableTypes
<1>3. [client_conns[j] EXCEPT !.is_connected = FALSE].is_connected = FALSE
  BY <1>2 DEF Conns
<1>4. client_conns'[j] = [client_conns[j] EXCEPT !.is_connected = FALSE]
  BY <1>1, <1>2
<1>5. \A i \in Ids \ {j} : client_conns'[i] = client_conns[i]
  BY <1>1, <1>2
<1> QED
  BY <1>3, <1>4, <1>5 DEF ConnStep

\* The client listener connects a client that is new, or known and not connected.
LEMMA RegisterConns ==
    ASSUME Types, ConnectedExists, Register \/ handle_reconnecting_client
    PROVE  \A i \in Ids : ConnStep(i)
<1> DEFINE a == acceptor.id
           conn == [acceptor.conn EXCEPT !.is_connected = TRUE]
<1>1. a \in Ids /\ client_conns \in [Ids -> Conns] /\ acceptor.conn \in Conns /\ acceptor.conn.exists
  BY DEF Types, TableTypes, AcceptorTypes, AcceptorStates, ConnectedExists, Register,
     handle_reconnecting_client
<1>2. conn.exists
  BY <1>1 DEF Conns
<1>3. \/ client_conns' = client_conns
      \/ ~client_conns[a].is_connected /\ client_conns' = [client_conns EXCEPT ![a] = conn]
  BY <1>1 DEF Register, handle_reconnecting_client, registered, Rejects, ConnectedExists
<1> HIDE DEF conn
<1> QED
  BY <1>1, <1>2, <1>3 DEF ConnStep

\* Every step does one of the three things to each client_conn.
LEMMA NextConns ==
    ASSUME Types, ConnectedExists, [Next]_vars
    PROVE  \A i \in Ids : ConnStep(i)
<1>1. CASE UNCHANGED client_conns
  BY <1>1 DEF ConnStep
<1>2. CASE AcceptorStep
  BY <1>1, <1>2, RegisterConns DEF AcceptorStep, Accept, AcceptStopped, ReadHello
<1>3. CASE ListenerStep
  <2>1. CASE read_request
    <3>1. listener.client \in Ids
      BY <2>1 DEF read_request, Types, ListenerTypes
    <3>2. UNCHANGED client_conns \/ Disconnect(listener.client)
      BY <2>1 DEF read_request
    <3> QED
      BY <1>1, <3>1, <3>2, DisconnectConns
  <2> QED
    BY <1>1, <1>3, <2>1 DEF ListenerStep, FetchLock, FetchPrepare, FetchPoll, FetchReturn, FetchScan,
       FetchTryLock
<1>4. ASSUME NEW w \in Workers, WorkerStep(w) PROVE \A i \in Ids : ConnStep(i)
  <2>1. CASE send_response(w) \/ send_notification(w)
    <3>1. Addressee(w) \in Ids
      BY <2>1, AtWork DEF send_response, send_notification, Sending
    <3>2. UNCHANGED client_conns \/ Disconnect(Addressee(w))
      BY <2>1 DEF send_response, send_notification, Write
    <3> QED
      BY <1>1, <3>1, <3>2, DisconnectConns
  <2> QED
    BY <1>1, <1>4, <2>1 DEF WorkerStep, Pop, GetAccounts, SendLockMap, SendLockClient
<1>5. ASSUME NEW s \in Sessions, ClientStep(s) PROVE \A i \in Ids : ConnStep(i)
  <2>1. UNCHANGED server
    BY <1>5 DEF ClientStep, SendHello, BadHello, make_request, ReceiveResponse, receive_notifications,
       disconnect, DisconnectJoin, Crash
  <2> QED
    BY <1>1, <2>1 DEF server
<1>6. CASE StopBegin \/ Exit
  BY <1>1, <1>6 DEF StopBegin, Exit
<1>7. CASE StopEnd
  BY <1>7 DEF StopEnd, ConnStep, NoConn
<1>8. CASE UNCHANGED vars
  BY <1>1, <1>8 DEF vars
<1> QED
  BY <1>2, <1>3, <1>4, <1>5, <1>6, <1>7, <1>8 DEF Next

\* A client_conn the client listener is about to enter is a made one.
LEMMA NextExists == Types /\ ConnectedExists /\ [Next]_vars => ConnectedExists'
<1> SUFFICES ASSUME Types, ConnectedExists, [Next]_vars PROVE ConnectedExists'
  OBVIOUS
<1>1. \A i \in Ids : client_conns'[i].is_connected => client_conns'[i].exists
  BY NextConns DEF ConnStep, ConnectedExists
<1>2. acceptor'.pc \in {"register", "reconnect"} => acceptor'.conn.exists
  <2>1. CASE UNCHANGED acceptor
    BY <2>1 DEF ConnectedExists
  <2>2. acceptor \in AcceptorStates /\ AcceptorHome.pc = "accept"
    BY HomeTypes DEF Types, AcceptorTypes
  <2>3. CASE Accept \/ AcceptStopped
    BY <2>2, <2>3 DEF Accept, AcceptStopped, AcceptorStates
  <2>4. CASE ReadHello
    <3> DEFINE sock == SocketAt(acceptor.fd)
               i == IdOf[sock[1]]
               conn == WithHello(incomplete_conns[i], sock[2], acceptor.fd)
    <3>1. acceptor' \in {AcceptorHome,
                         [acceptor EXCEPT !.pc = "register", !.id = i, !.conn = conn]}
      BY <2>4 DEF ReadHello
    <3>2. conn.exists
      BY DEF WithHello
    <3> HIDE DEF conn, i, sock
    <3> QED
      BY <2>2, <3>1, <3>2 DEF AcceptorStates
  <2>5. CASE Register \/ handle_reconnecting_client
    <3>1. acceptor.conn.exists
      BY <2>5 DEF ConnectedExists, Register, handle_reconnecting_client
    <3>2. acceptor' \in {AcceptorHome, [acceptor EXCEPT !.pc = "reconnect"]}
      BY <2>5 DEF Register, handle_reconnecting_client
    <3> QED
      BY <2>2, <3>1, <3>2 DEF AcceptorStates
  <2>6. CASE ListenerStep
    BY <2>1, <2>6 DEF ListenerStep, FetchLock, FetchPrepare, FetchPoll, FetchReturn, FetchScan,
       FetchTryLock, read_request, notListener
  <2>7. ASSUME NEW w \in Workers, WorkerStep(w) PROVE UNCHANGED acceptor
    BY <2>7 DEF WorkerStep, Pop, GetAccounts, SendLockMap, SendLockClient, send_response,
       send_notification, notWorker
  <2>8. ASSUME NEW s \in Sessions, ClientStep(s) PROVE UNCHANGED acceptor
    BY <2>8 DEF ClientStep, SendHello, BadHello, make_request, ReceiveResponse, receive_notifications,
       disconnect, DisconnectJoin, Crash, server, threads
  <2>9. CASE StopBegin \/ StopEnd \/ Exit \/ UNCHANGED vars
    BY <2>1, <2>9 DEF StopBegin, StopEnd, Exit, vars, threads
  <2> QED
    BY <2>1, <2>3, <2>4, <2>5, <2>6, <2>7, <2>8, <2>9 DEF Next, AcceptorStep
<1> QED
  BY <1>1, <1>2 DEF ConnectedExists

\* Between the connection of a client and its end nothing replaces its descriptors:
\* accept_clients_loop enters only new clients, handle_reconnecting_client turns away a second
\* connection of one that is connected, and every other step leaves the client_conn or ends it.
THEOREM ConnectionsStay == Spec => ConnectionKept
<1>1. Spec => [](Types /\ ConnectedExists)
  BY InitTypes, NextTypes, InitExists, NextExists, PTL DEF Spec
<1> DEFINE Kept == \A i \in Ids : client_conns[i].is_connected /\ client_conns'[i].is_connected
                        => client_conns'[i] = client_conns[i]
<1>2. Types /\ ConnectedExists /\ [Next]_vars => [Kept]_vars
  BY NextConns DEF ConnStep
<1>3. (\A i \in Ids : client_conns[i].is_connected /\ client_conns'[i].is_connected
                        => client_conns'[i] = client_conns[i]) <=> Kept
  OBVIOUS
<1> HIDE DEF Kept
<1> QED
  BY <1>1, <1>2, <1>3, PTL DEF Spec, ConnectionKept
=============================================================================
