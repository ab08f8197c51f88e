------------------------ MODULE VunmoAccountsProofs ------------------------
(***************************************************************************)
(* Proofs about VunmoAccounts: what the mutexes of the accounts give the   *)
(* request handlers, that the server implements the ledger, and that money *)
(* is conserved.                                                           *)
(***************************************************************************)
EXTENDS VunmoAccounts, ProofLemmas

Notices == [type : {"PAYMENT_NOTIFICATION", "CHARGE_REQUEST_NOTIFICATION"},
            origin : Clients, amount : Amounts]
WorkerPcs == {"idle", "lock", "lock2", "handle", "store", "credit", "respond", "notify"}
WorkerStates == [pc : WorkerPcs, req : Requests \cup {NoRequest}, held : Amounts,
                 ret : {0, -1}, amount : Amounts]

\* Types of the state the handlers work on.
Types ==
    /\ balance \in [Clients -> Amounts]
    /\ mtx \in [Clients -> Workers \cup {"none"}]
    /\ work_queue \in Seq(Requests)
    /\ worker \in [Workers -> WorkerStates]
    /\ is_stopped \in BOOLEAN
    /\ user \in [Clients -> [pc : {"prompt", "waiting", "paying", "show", "left"},
                             ns : Seq(Notices)]]
    /\ notification_queue \in [Clients -> Seq(Notices)]
    /\ outcome = [c \in Clients |-> outcome[c]]
    /\ net \in Amounts

\* The accounts a worker has locked, by where it is.
Owns(w) ==
    LET r == worker[w].req
    IN  CASE At(w, "lock2") -> {LockOrder(r)[1]}
          [] worker[w].pc \in {"handle", "store", "credit", "respond", "notify"} ->
               IF Two(r) THEN {r.origin, r.target} ELSE {r.origin}
          [] OTHER -> {}

\* The mutexes are held by the workers that own the accounts.
Locks == \A w \in Workers, c \in Clients : mtx[c] = w <=> c \in Owns(w)

\* What a worker has established on its way through a handler.
Stage(w) ==
    LET r == worker[w].req
    IN  /\ ~At(w, "idle") => r \in Requests
        /\ At(w, "lock2") => Two(r)
        /\ At(w, "store") =>
             /\ r.type \in {"DEPOSIT", "WITHDRAWAL", "PAYMENT"} /\ ~Refused(r)
             /\ worker[w].held = balance[r.origin]
             /\ r.type # "DEPOSIT" => r.amount <= worker[w].held
        /\ At(w, "credit") => r.type = "PAYMENT" /\ Two(r)
Stages == \A w \in Workers : Stage(w)

\* What stop() returned is what the accounts hold: nobody works on them any more.
Ended == final # <<>> => /\ is_stopped /\ final = <<balance>>
                         /\ \A w \in Workers : At(w, "idle")

Inv == Types /\ Locks /\ Stages /\ Ended

-----------------------------------------------------------------------------
\* What a request names, and the accounts get_two_accounts locks for it.
LEMMA RequestFacts ==
    ASSUME NEW r \in Requests
    PROVE  /\ r.origin \in Clients /\ r.amount \in Amounts
           /\ r.target \in Clients \cup {Nobody}
           /\ r.type \in {"BALANCE", "DEPOSIT", "WITHDRAWAL", "PAYMENT", "CHARGE"}
           /\ Two(r) => r.target \in Clients /\ r.target # r.origin
           /\ Two(r) => r.type \in {"PAYMENT", "CHARGE"}
           /\ Two(r) => {LockOrder(r)[1], LockOrder(r)[2]} = {r.origin, r.target}
           /\ Two(r) => LockOrder(r)[1] # LockOrder(r)[2]
           /\ ~Two(r) => LockOrder(r)[1] = r.origin
           /\ ~Two(r) /\ ~Refused(r) => r.type \in OneAccount
BY AccountsAssumption DEF Requests, Two, Refused, LockOrder, OneAccount

\* A server that starts satisfies the invariant.
LEMMA InitInv == Init => Inv
<1> SUFFICES ASSUME Init PROVE Inv
  OBVIOUS
<1> USE AccountsAssumption DEF Init, Idle, At
<1>1. Opening \in [Clients -> Amounts] /\ 0 \in Amounts
  BY DEF Amounts
<1>2. SumFunction(balance) % Modulus \in Amounts
  <2>1. SumFunction(balance) \in Int
    <3>1. balance \in [Clients -> Int] /\ IsFiniteSet(Clients)
      BY <1>1 DEF Amounts
    <3> QED BY <3>1, SumType
  <2> QED
    BY <2>1, ModRange DEF Amounts
<1>3. Types
  <2>1. worker \in [Workers -> WorkerStates]
    BY <1>1 DEF WorkerStates, WorkerPcs
  <2>2. outcome = [c \in Clients |-> outcome[c]]
    OBVIOUS
  <2>3. mtx \in [Clients -> Workers \cup {"none"}]
    OBVIOUS
  <2>4. work_queue \in Seq(Requests)
    OBVIOUS
  <2>8. is_stopped \in BOOLEAN
    OBVIOUS
  <2>5. user \in [Clients -> [pc : {"prompt", "waiting", "paying", "show", "left"},
                             ns : Seq(Notices)]]
    OBVIOUS
  <2>6. notification_queue \in [Clients -> Seq(Notices)]
    OBVIOUS
  <2>7. net \in Amounts
    BY <1>2
  <2> QED
    BY <1>1, <2>1, <2>2, <2>3, <2>4, <2>5, <2>6, <2>7, <2>8 DEF Types
<1>4. Locks
  BY DEF Locks, Owns
<1>5. Stages /\ Ended
  BY DEF Stages, Stage, Ended
<1> QED
  BY <1>3, <1>4, <1>5 DEF Inv
-----------------------------------------------------------------------------
(* A step preserves the invariant.                                         *)

\* sscanf reads an amount out of any number typed.
LEMMA Scanned ==
    ASSUME NEW n \in Int
    PROVE  scanned(n) \in Amounts
BY AccountsAssumption, ModRange DEF scanned, Amounts

\* parse_command makes a request or none.
LEMMA Parsed ==
    ASSUME NEW c \in Clients, NEW cmd \in Commands(c)
    PROVE  parse_command(c, cmd) \in Requests \cup {NoRequest}
<1> USE AccountsAssumption
<1>1. \/ cmd.args = <<>> /\ cmd.word \in {"blank", "balance", "deposit", "withdraw", "pay"}
      \/ cmd.word \in {"deposit", "withdraw"} /\ \E n \in Typed : cmd.args = <<n>>
      \/ /\ cmd.word \in {"pay", "charge"}
         /\ \E t \in Clients \cup {Nobody}, n \in Typed : cmd.args = <<t, n>>
  BY DEF Commands
<1>2. 0 \in Amounts
  BY DEF Amounts
<1> USE DEF Request, Requests, OneAccount
<1>3. CASE cmd.args = <<>>
  <2>1. Len(cmd.args) = 0
    BY <1>3
  <2> QED
    BY <1>2, <2>1 DEF parse_command
<1>4. ASSUME NEW n \in Typed, cmd.args = <<n>>, cmd.word \in {"deposit", "withdraw"}
      PROVE  parse_command(c, cmd) \in Requests \cup {NoRequest}
  <2>1. scanned(cmd.args[1]) \in Amounts
    BY <1>4, Scanned
  <2> QED
    BY <1>4, <2>1 DEF parse_command
<1>5. ASSUME NEW t \in Clients \cup {Nobody}, NEW n \in Typed, cmd.args = <<t, n>>,
             cmd.word \in {"pay", "charge"}
      PROVE  parse_command(c, cmd) \in Requests \cup {NoRequest}
  <2>1. scanned(cmd.args[2]) \in Amounts /\ cmd.args[1] \in Clients \cup {Nobody}
    BY <1>5, Scanned
  <2>2. Len(cmd.args) = 2
    BY <1>5
  <2> QED
    BY <1>5, <2>1, <2>2 DEF parse_command
<1> HIDE DEF Requests, Request
<1> QED
  BY <1>1, <1>3, <1>4, <1>5

\* What the users do leaves the accounts and the workers alone.
LEMMA UsersKeep ==
    ASSUME Inv, UNCHANGED <<balance, mtx, worker, final>>, is_stopped' = is_stopped
    PROVE  Locks' /\ Stages' /\ Ended'
BY DEF Inv, Locks, Stages, Stage, Ended, Owns, At

\* make_request queues requests.
LEMMA Sends ==
    ASSUME Inv, NEW r \in Requests, Send(r)
    PROVE  work_queue' \in Seq(Requests)
BY DEF Inv, Types, Send

\* The steps of a client touch nothing the workers rely on.
LEMMA ClientInv ==
    ASSUME Inv, NEW c \in Clients, Client(c)
    PROVE  Inv'
<1> USE DEF Types
<1>0. Types
  BY DEF Inv
<1>1. /\ UNCHANGED <<balance, mtx, worker, final>> /\ is_stopped' = is_stopped
      /\ UNCHANGED <<outcome, net>>
  BY DEF Client, handle_command, leave, make_request_returns, show_notification, server
<1>2. work_queue' \in Seq(Requests)
  <2>1. CASE handle_command(c)
    BY <1>0, <2>1, Parsed, Sends DEF handle_command
  <2>2. CASE leave(c) \/ make_request_returns(c)
    BY <1>0, <2>2 DEF leave, make_request_returns, server
  <2>3. CASE show_notification(c)
    <3>1. CASE work_queue' = work_queue
      BY <1>0, <3>1
    <3>2. ASSUME Send(Request("PAYMENT", c, user[c].ns[1].origin, user[c].ns[1].amount)),
                 user[c].ns # <<>>
          PROVE  work_queue' \in Seq(Requests)
      <4>1. user[c].ns[1] \in Notices
        BY <1>0, <3>2
      <4>2. Request("PAYMENT", c, user[c].ns[1].origin, user[c].ns[1].amount) \in Requests
        BY <4>1 DEF Notices, Request, Requests
      <4> QED
        BY <3>2, <4>2, Sends
    <3> QED
      BY <2>3, <3>1, <3>2 DEF show_notification
  <2> QED
    BY <2>1, <2>2, <2>3 DEF Client
<1> DEFINE Users == [pc : {"prompt", "waiting", "paying", "show", "left"}, ns : Seq(Notices)]
<1>3. user[c] \in Users /\ notification_queue[c] \in Seq(Notices) /\ <<>> \in Seq(Notices)
  BY <1>0
<1>4. user' \in [Clients -> Users] /\ notification_queue' \in [Clients -> Seq(Notices)]
  <2>1. ASSUME NEW pc \in {"prompt", "waiting", "paying", "show", "left"},
               NEW ns \in Seq(Notices), Goes(c, pc, ns)
        PROVE  user' \in [Clients -> Users]
    BY <1>0, <2>1 DEF Goes
  <2>2. ASSUME display_notifications(c)
        PROVE  user' \in [Clients -> Users] /\ notification_queue' \in [Clients -> Seq(Notices)]
    BY <1>0, <1>3, <2>1, <2>2 DEF display_notifications
  <2> HIDE DEF Users
  <2>3. CASE handle_command(c)
    BY <1>0, <1>3, <2>1, <2>2, <2>3 DEF handle_command
  <2>4. CASE leave(c)
    BY <1>0, <1>3, <2>1, <2>4 DEF leave
  <2>5. user[c].ns \in Seq(Notices) /\ (user[c].ns # <<>> => Tail(user[c].ns) \in Seq(Notices))
    BY <1>3 DEF Users
  <2>6. CASE make_request_returns(c)
    BY <1>0, <2>1, <2>2, <2>5, <2>6 DEF make_request_returns
  <2>7. CASE show_notification(c)
    BY <1>0, <1>3, <2>1, <2>5, <2>7 DEF show_notification
  <2> QED
    BY <2>3, <2>4, <2>6, <2>7 DEF Client
<1>5. Types'
  BY <1>0, <1>1, <1>2, <1>4
<1> QED
  BY <1>1, <1>5, UsersKeep DEF Inv
\* A step of one worker leaves the others where they are.
LEMMA OthersStay ==
    ASSUME Inv, NEW w \in Workers, NEW x, Becomes(w, x)
    PROVE  /\ worker'[w] = x
           /\ \A v \in Workers \ {w} : worker'[v] = worker[v] /\ Owns(v)' = Owns(v)
           /\ x \in WorkerStates => worker' \in [Workers -> WorkerStates]
BY DEF Inv, Types, Becomes, Owns, At

\* No account is locked by two workers.
LEMMA OneOwner ==
    ASSUME Inv, NEW v \in Workers, NEW w \in Workers, NEW c \in Clients,
           c \in Owns(v), c \in Owns(w)
    PROVE  v = w
BY DEF Inv, Locks

\* The state of a worker, and what it has when it is at work.
LEMMA AtWork ==
    ASSUME Inv, NEW w \in Workers
    PROVE  /\ worker[w] \in WorkerStates
           /\ ~At(w, "idle") => worker[w].req \in Requests /\ final = <<>>
BY DEF Inv, Types, Stages, Stage, Ended

\* pop, the queue of requests, preserves the invariant.
LEMMA PopInv ==
    ASSUME Inv, NEW w \in Workers, pop(w)
    PROVE  Inv'
<1> DEFINE x == [worker[w] EXCEPT !.pc = "lock", !.req = Head(work_queue)]
<1>1. At(w, "idle") /\ worker[w] \in WorkerStates
  BY AtWork DEF pop
<1>2. Head(work_queue) \in Requests /\ work_queue' \in Seq(Requests)
  BY DEF pop, Inv, Types
<1>3. x \in WorkerStates
  BY <1>1, <1>2 DEF WorkerStates, WorkerPcs
<1>4. Becomes(w, x)
  BY DEF pop
<1>5. x.pc = "lock" /\ x.req \in Requests
  BY <1>1, <1>2 DEF WorkerStates
<1> HIDE DEF x
<1>6. Types'
  BY <1>2, <1>3, <1>4, OthersStay DEF Inv, Types, pop, clients
<1>7. Owns(w) = {} /\ Owns(w)' = {}
  BY <1>1, <1>4, <1>5, OthersStay DEF Owns, At
<1>8. Locks'
  BY <1>4, <1>7, OthersStay DEF Inv, Locks, pop
<1>9. Stages'
  BY <1>4, <1>5, OthersStay DEF Inv, Stages, Stage, At, pop
<1>10. Ended'
  BY DEF Inv, Ended, pop
<1> QED
  BY <1>6, <1>8, <1>9, <1>10 DEF Inv

\* So do get_account and get_two_accounts, one mutex at a time.
LEMMA GetAccountsInv ==
    ASSUME Inv, NEW w \in Workers, get_accounts(w)
    PROVE  Inv'
<1> DEFINE r == worker[w].req
           to == IF At(w, "lock") /\ Two(r) THEN "lock2" ELSE "handle"
           x == [worker[w] EXCEPT !.pc = to]
           c == IF At(w, "lock") THEN LockOrder(r)[1] ELSE LockOrder(r)[2]
<1>1. At(w, "lock") \/ At(w, "lock2")
  BY DEF get_accounts
<1>2. worker[w] \in WorkerStates /\ r \in Requests /\ final = <<>>
  BY <1>1, AtWork DEF At
<1>3. At(w, "lock2") => Two(r)
  BY DEF Inv, Stages, Stage
<1>4. c \in Clients /\ mtx[c] = "none" /\ mtx' = [mtx EXCEPT ![c] = w]
  BY <1>1, <1>2, <1>3, RequestFacts DEF get_accounts, Take, At
<1>5. Becomes(w, x) /\ x \in WorkerStates
  BY <1>1, <1>2 DEF get_accounts, To, At, WorkerStates, WorkerPcs
<1>6. x.pc = to /\ x.req = r
  BY <1>2 DEF WorkerStates
<1>7. Owns(w)' = Owns(w) \cup {c}
  <2>1. worker'[w] = x
    BY <1>5, OthersStay
  <2>2. CASE At(w, "lock") /\ Two(r)
    BY <1>6, <2>1, <2>2 DEF Owns, At
  <2>3. CASE At(w, "lock") /\ ~Two(r)
    BY <1>2, <1>6, <2>1, <2>3, RequestFacts DEF Owns, At
  <2>4. CASE At(w, "lock2")
    <3>1. Owns(w)' = {r.origin, r.target} /\ Owns(w) = {LockOrder(r)[1]}
      BY <1>3, <1>6, <2>1, <2>4 DEF Owns, At
    <3>2. {LockOrder(r)[1], LockOrder(r)[2]} = {r.origin, r.target}
      BY <1>2, <1>3, <2>4, RequestFacts
    <3>3. c = LockOrder(r)[2]
      BY <2>4 DEF At
    <3> QED
      BY <3>1, <3>2, <3>3
  <2> QED
    BY <1>1, <2>2, <2>3, <2>4
<1> HIDE DEF x
<1>8. Types'
  BY <1>4, <1>5, OthersStay DEF Inv, Types, get_accounts, clients
<1>9. Locks'
  <2> SUFFICES ASSUME NEW v \in Workers, NEW d \in Clients
               PROVE  mtx'[d] = v <=> d \in Owns(v)'
    BY DEF Locks
  <2>1. mtx \in [Clients -> Workers \cup {"none"}] /\ (mtx[d] = v <=> d \in Owns(v))
    BY DEF Inv, Types, Locks
  <2>2. v # "none"
    BY AccountsAssumption
  <2> HIDE DEF c
  <2>3. CASE v = w
    BY <1>4, <1>7, <2>1, <2>2, <2>3
  <2>4. CASE v # w
    BY <1>4, <1>5, <2>1, <2>2, <2>4, OthersStay
  <2> QED
    BY <2>3, <2>4
<1>10. Stages'
  <2> SUFFICES ASSUME NEW v \in Workers PROVE Stage(v)'
    BY DEF Stages
  <2> QED
    BY <1>2, <1>5, <1>6, OthersStay DEF Inv, Stages, Stage, At, get_accounts
<1>11. Ended'
  BY <1>2 DEF Ended, get_accounts
<1> QED
  BY <1>8, <1>9, <1>10, <1>11 DEF Inv
\* What a step of a handler does, whichever it is: the worker goes on with the same request,
\* and only balances it has locked change.
Handles(w) ==
    /\ \E x \in WorkerStates : /\ Becomes(w, x) /\ x.req = worker[w].req
                               /\ x.pc \in {"store", "credit", "respond"}
    /\ balance' \in [Clients -> Amounts]
    /\ \A c \in Clients \ Owns(w) : balance'[c] = balance[c]
    /\ outcome' = [c \in Clients |-> outcome'[c]] /\ net' \in Amounts
    /\ Stage(w)'

\* The accounts of a request that is being handled.
LEMMA OwnsBoth ==
    ASSUME Inv, NEW w \in Workers, worker[w].pc \in {"handle", "store", "credit", "respond", "notify"}
    PROVE  /\ worker[w].req \in Requests /\ worker[w].req.origin \in Clients
           /\ worker[w].req.origin \in Owns(w)
           /\ Two(worker[w].req) => worker[w].req.target \in Owns(w)
BY AtWork, RequestFacts DEF Owns, At

\* A handler that answers under its locks.
LEMMA Answers ==
    ASSUME Inv, NEW w \in Workers, worker[w].pc \in {"handle", "store", "credit"},
           NEW ret \in {0, -1}, NEW amount \in Amounts, Answer(w, ret, amount),
           balance' \in [Clients -> Amounts], net' \in Amounts,
           \A c \in Clients \ Owns(w) : balance'[c] = balance[c]
    PROVE  Handles(w)
<1> DEFINE x == [worker[w] EXCEPT !.pc = "respond", !.ret = ret, !.amount = amount]
<1>1. worker[w] \in WorkerStates /\ worker[w].req \in Requests
  BY AtWork DEF At
<1>2. x \in WorkerStates /\ x.req = worker[w].req /\ x.pc = "respond"
  BY <1>1 DEF WorkerStates, WorkerPcs
<1>3. Becomes(w, x)
  BY DEF Answer
<1>4. worker'[w] = x
  BY <1>3, OthersStay
<1>5. Stage(w)'
  BY <1>1, <1>2, <1>4 DEF Stage, At
<1>6. outcome' = [c \in Clients |-> outcome'[c]]
  BY DEF Answer, Inv, Types
<1> QED
  BY <1>2, <1>3, <1>5, <1>6 DEF Handles

\* A handler that reads the balance it will write back.
LEMMA Loads ==
    ASSUME Inv, NEW w \in Workers, At(w, "handle"), ~Refused(worker[w].req),
           worker[w].req.type \in {"DEPOSIT", "WITHDRAWAL", "PAYMENT"},
           worker[w].req.type # "DEPOSIT" => worker[w].req.amount <= balance[worker[w].req.origin],
           Load(w, "store"), UNCHANGED <<balance, outcome, net>>
    PROVE  Handles(w)
<1> DEFINE r == worker[w].req
           x == [worker[w] EXCEPT !.pc = "store", !.held = balance[r.origin]]
<1>1. worker[w] \in WorkerStates /\ r \in Requests /\ r.origin \in Clients
  BY AtWork, RequestFacts DEF At
<1>2. balance[r.origin] \in Amounts
  BY <1>1 DEF Inv, Types
<1>3. x \in WorkerStates /\ x.req = r /\ x.pc = "store" /\ x.held = balance[r.origin]
  BY <1>1, <1>2 DEF WorkerStates, WorkerPcs
<1>4. Becomes(w, x)
  BY DEF Load
<1>5. worker'[w] = x
  BY <1>4, OthersStay
<1>6. Stage(w)'
  BY <1>1, <1>3, <1>5 DEF Stage, At
<1> QED
  BY <1>3, <1>4, <1>6 DEF Handles, Inv, Types

\* The sums and differences the handlers store.
LEMMA Stores ==
    ASSUME Inv, NEW w \in Workers, worker[w].pc \in {"handle", "store", "credit"},
           NEW c \in Owns(w), c \in Clients, NEW n \in Int, Store(c, n % Modulus)
    PROVE  /\ balance' \in [Clients -> Amounts]
           /\ \A d \in Clients \ Owns(w) : balance'[d] = balance[d]
           /\ n % Modulus \in Amounts
<1>1. n % Modulus \in Amounts
  BY AccountsAssumption, ModRange DEF Amounts
<1> QED
  BY <1>1 DEF Store, Inv, Types

\* Every branch of every handler writes only to accounts it has locked.
LEMMA EachHandles ==
    ASSUME Inv, NEW w \in Workers, handle(w)
    PROVE  Handles(w) /\ worker[w].pc \in {"handle", "store", "credit"}
<1> DEFINE r == worker[w].req
           bal == balance[r.origin]
<1>1. worker[w].pc \in {"handle", "store", "credit"}
  BY DEF handle, handle_missing_clients, handle_balance, handle_deposit, handle_withdraw,
         handle_pay, handle_charge, At
<1>2. /\ worker[w] \in WorkerStates /\ r \in Requests
      /\ r.origin \in Clients /\ r.amount \in Amounts /\ r.origin \in Owns(w)
      /\ Two(r) => r.target \in Clients /\ r.target \in Owns(w)
  BY <1>1, AtWork, OwnsBoth, RequestFacts DEF At
<1>3. /\ balance \in [Clients -> Amounts] /\ net \in Amounts /\ Amounts \subseteq Int
      /\ bal \in Amounts /\ worker[w].held \in Int /\ r.amount \in Int /\ net \in Int
      /\ bal \in Int /\ outcome = [c \in Clients |-> outcome[c]]
  BY <1>2, AccountsAssumption DEF Inv, Types, WorkerStates, Amounts
<1>4. \A n \in Int : n % Modulus \in Amounts
  BY AccountsAssumption, ModRange DEF Amounts
<1>5. CASE Refused(r)
  <2>1. PICK garbage \in Amounts :
           Becomes(w, [worker[w] EXCEPT !.pc = "respond", !.ret = -1, !.amount = garbage])
    BY <1>5 DEF handle, handle_missing_clients
  <2> DEFINE x == [worker[w] EXCEPT !.pc = "respond", !.ret = -1, !.amount = garbage]
  <2>2. x \in WorkerStates /\ x.req = r /\ x.pc = "respond" /\ Becomes(w, x)
    BY <1>2, <2>1 DEF WorkerStates, WorkerPcs
  <2>3. worker'[w] = x
    BY <2>1, OthersStay
  <2>4. Stage(w)'
    BY <1>2, <2>2, <2>3 DEF Stage, At
  <2>5. UNCHANGED <<balance, outcome, net>>
    BY <1>5 DEF handle, handle_missing_clients
  <2> HIDE DEF x
  <2> QED
    <3>1. outcome' = [c \in Clients |-> outcome'[c]] /\ net' \in Amounts
          /\ balance' \in [Clients -> Amounts] /\ balance' = balance
      BY <1>3, <2>5
    <3> QED
      BY <1>1, <2>2, <2>4, <3>1 DEF Handles
<1>6. CASE ~Refused(r)
  <2>1. CASE handle_balance(w, r) \/ handle_charge(w, r)
    BY <1>1, <1>3, <2>1, Answers DEF handle_balance, handle_charge
  <2>2. CASE handle_deposit(w, r)
    <3>1. CASE At(w, "handle")
      BY <1>6, <2>2, <3>1, Loads DEF handle_deposit, At
    <3>2. CASE At(w, "store")
      <4> DEFINE n == worker[w].held + r.amount
      <4>1. n \in Int /\ Store(r.origin, n % Modulus) /\ Answer(w, 0, n % Modulus)
            /\ net' = (net + r.amount) % Modulus
        BY <1>3, <2>2, <3>2 DEF handle_deposit, At
      <4> HIDE DEF n
      <4>2. net' \in Amounts
        BY <1>3, <1>4, <4>1
      <4>3. /\ balance' \in [Clients -> Amounts] /\ n % Modulus \in Amounts
            /\ \A d \in Clients \ Owns(w) : balance'[d] = balance[d]
        BY <1>1, <1>2, <4>1, Stores
      <4> QED
        BY <1>1, <4>1, <4>2, <4>3, Answers
    <3> QED
      BY <2>2, <3>1, <3>2 DEF handle_deposit
  <2>3. CASE handle_withdraw(w, r)
    <3>1. CASE At(w, "handle") /\ r.amount > bal
      <4>1. ~(r.amount <= bal) /\ ~At(w, "store")
        BY <1>3, <3>1 DEF At
      <4>2. Answer(w, -1, bal) /\ UNCHANGED <<balance, net>>
        BY <2>3, <4>1 DEF handle_withdraw
      <4> QED
        BY <1>1, <1>3, <4>2, Answers
    <3>2. CASE At(w, "handle") /\ r.amount <= bal
      <4>1. ~(r.amount > bal) /\ ~At(w, "store")
        BY <1>3, <3>2 DEF At
      <4>2. r.type = "WITHDRAWAL" /\ Load(w, "store") /\ UNCHANGED <<balance, outcome, net>>
        BY <2>3, <4>1 DEF handle_withdraw
      <4>3. r.type \in {"DEPOSIT", "WITHDRAWAL", "PAYMENT"} /\ At(w, "handle")
        BY <3>2, <4>2
      <4> QED
        BY <1>1, <1>6, <3>2, <4>2, <4>3, Loads
    <3>3. CASE At(w, "store")
      <4> DEFINE n == worker[w].held - r.amount
      <4>1. n \in Int /\ Store(r.origin, n % Modulus) /\ Answer(w, 0, n % Modulus)
            /\ net' = (net - r.amount) % Modulus
        BY <1>3, <2>3, <3>3 DEF handle_withdraw, At
      <4> HIDE DEF n
      <4>2. net' \in Amounts
        BY <1>3, <1>4, <4>1
      <4>3. /\ balance' \in [Clients -> Amounts] /\ n % Modulus \in Amounts
            /\ \A d \in Clients \ Owns(w) : balance'[d] = balance[d]
        BY <1>1, <1>2, <4>1, Stores
      <4> QED
        BY <1>1, <4>1, <4>2, <4>3, Answers
    <3> QED
      BY <2>3, <3>1, <3>2, <3>3 DEF handle_withdraw
  <2>4. CASE handle_pay(w, r)
    <3>1. CASE At(w, "handle") /\ insufficient(r)
      BY <1>1, <1>3, <2>4, <3>1, Answers DEF handle_pay, At
    <3>2. CASE At(w, "handle") /\ ~insufficient(r)
      <4>1. r.amount <= bal
        BY <1>3, <3>2 DEF insufficient
      <4> QED
        BY <1>6, <2>4, <3>2, <4>1, Loads DEF handle_pay, At
    <3>3. CASE At(w, "store")
      <4> DEFINE n == worker[w].held - r.amount
                 x == [worker[w] EXCEPT !.pc = "credit"]
      <4>1. n \in Int /\ Store(r.origin, n % Modulus) /\ Becomes(w, x)
            /\ UNCHANGED <<outcome, net>>
        BY <1>3, <2>4, <3>3 DEF handle_pay, At, To
      <4> HIDE DEF n
      <4>2. x \in WorkerStates /\ x.req = r /\ x.pc = "credit"
        BY <1>2 DEF WorkerStates, WorkerPcs
      <4> HIDE DEF x
      <4>3. worker'[w] = x
        BY <4>1, OthersStay
      <4>4. r.type = "PAYMENT" /\ Two(r)
        BY <1>6, <2>4 DEF handle_pay, Two, OneAccount
      <4>5. Stage(w)'
        BY <1>2, <4>2, <4>3, <4>4 DEF Stage, At
      <4>6. /\ balance' \in [Clients -> Amounts]
            /\ \A d \in Clients \ Owns(w) : balance'[d] = balance[d]
        BY <1>1, <1>2, <4>1, Stores
      <4> QED
        <5>1. outcome' = [c \in Clients |-> outcome'[c]] /\ net' \in Amounts
          BY <1>3, <4>1
        <5> QED
          BY <1>1, <4>1, <4>2, <4>5, <4>6, <5>1 DEF Handles
    <3>4. CASE At(w, "credit")
      <4> DEFINE n == balance[r.target] + r.amount
      <4>1. Two(r)
        BY <3>4 DEF Inv, Stages, Stage
      <4>2. n \in Int
        <5>1. balance[r.target] \in Amounts
          BY <1>2, <1>3, <4>1
        <5> QED
          BY <1>3, <5>1
      <4>3. Store(r.target, n % Modulus) /\ Answer(w, 0, bal) /\ UNCHANGED net
        BY <2>4, <3>4 DEF handle_pay, At
      <4> HIDE DEF n
      <4>4. /\ balance' \in [Clients -> Amounts]
            /\ \A d \in Clients \ Owns(w) : balance'[d] = balance[d]
        BY <1>1, <1>2, <4>1, <4>2, <4>3, Stores
      <4> QED
        BY <1>1, <1>3, <4>3, <4>4, Answers
    <3> QED
      BY <2>4, <3>1, <3>2, <3>3, <3>4 DEF handle_pay
  <2> QED
    BY <1>6, <2>1, <2>2, <2>3, <2>4 DEF handle
<1> QED
  BY <1>1, <1>5, <1>6

\* The handlers preserve the invariant.
LEMMA HandleInv ==
    ASSUME Inv, NEW w \in Workers, handle(w)
    PROVE  Inv'
<1>1. Handles(w) /\ worker[w].pc \in {"handle", "store", "credit"}
  BY EachHandles
<1>2. UNCHANGED <<mtx, work_queue, final, clients>> /\ is_stopped' = is_stopped
  BY DEF handle
<1>3. PICK x \in WorkerStates : /\ Becomes(w, x) /\ x.req = worker[w].req
                                /\ x.pc \in {"store", "credit", "respond"}
  BY <1>1 DEF Handles
<1>4. /\ worker'[w] = x /\ worker' \in [Workers -> WorkerStates]
      /\ \A v \in Workers \ {w} : worker'[v] = worker[v] /\ Owns(v)' = Owns(v)
  BY <1>3, OthersStay
<1>5. Owns(w)' = Owns(w)
  BY <1>1, <1>3, <1>4 DEF Owns, At
<1>6. Types'
  BY <1>1, <1>2, <1>4 DEF Inv, Types, Handles, clients
<1>7. Locks'
  BY <1>2, <1>4, <1>5 DEF Inv, Locks
<1>8. Stages'
  <2> SUFFICES ASSUME NEW v \in Workers, v # w PROVE Stage(v)'
    BY <1>1 DEF Stages, Handles
  <2>1. Stage(v) /\ worker'[v] = worker[v]
    BY <1>4 DEF Inv, Stages
  <2>2. CASE At(v, "store")
    <3>1. worker[v].req.origin \in Clients /\ worker[v].req.origin \in Owns(v)
      BY <2>2, OwnsBoth DEF At
    <3>2. worker[v].req.origin \notin Owns(w)
      BY <3>1, OneOwner
    <3>3. balance'[worker[v].req.origin] = balance[worker[v].req.origin]
      BY <1>1, <3>1, <3>2 DEF Handles
    <3> QED
      BY <2>1, <3>3 DEF Stage, At
  <2>3. CASE ~At(v, "store")
    BY <2>1, <2>3 DEF Stage, At
  <2> QED
    BY <2>2, <2>3
<1>9. Ended'
  BY <1>1, <1>2, AtWork DEF Ended, At
<1> QED
  BY <1>6, <1>7, <1>8, <1>9 DEF Inv

\* So does send_response, which keeps the locks.
LEMMA SendResponseInv ==
    ASSUME Inv, NEW w \in Workers, send_response(w)
    PROVE  Inv'
<1> DEFINE x == [worker[w] EXCEPT !.pc = "notify"]
<1>1. At(w, "respond") /\ worker[w] \in WorkerStates /\ worker[w].req \in Requests
      /\ final = <<>>
  BY AtWork DEF send_response, At
<1>2. x \in WorkerStates /\ x.req = worker[w].req /\ x.pc = "notify" /\ Becomes(w, x)
  BY <1>1 DEF WorkerStates, WorkerPcs, send_response, To
<1> HIDE DEF x
<1>3. /\ worker'[w] = x /\ worker' \in [Workers -> WorkerStates]
      /\ \A v \in Workers \ {w} : worker'[v] = worker[v] /\ Owns(v)' = Owns(v)
  BY <1>2, OthersStay
<1>4. Owns(w)' = Owns(w)
  BY <1>1, <1>2, <1>3 DEF Owns, At
<1>5. Types'
  BY <1>3 DEF Inv, Types, send_response
<1>6. Locks'
  BY <1>3, <1>4 DEF Inv, Locks, send_response
<1>7. Stages'
  BY <1>1, <1>2, <1>3 DEF Inv, Stages, Stage, At, send_response
<1>8. Ended'
  BY <1>1 DEF Ended, send_response
<1> QED
  BY <1>5, <1>6, <1>7, <1>8 DEF Inv

\* So does send_notification, after which the locks are given up.
LEMMA SendNotificationInv ==
    ASSUME Inv, NEW w \in Workers, send_notification(w)
    PROVE  Inv'
<1> DEFINE r == worker[w].req
<1>1. /\ At(w, "notify") /\ worker[w] \in WorkerStates /\ final = <<>>
      /\ r \in Requests /\ r.origin \in Clients /\ r.amount \in Amounts
      /\ Two(r) => r.target \in Clients
  BY AtWork, RequestFacts DEF send_notification, At
<1>2. Idle \in WorkerStates /\ Becomes(w, Idle) /\ Idle.pc = "idle"
  BY AccountsAssumption DEF Idle, WorkerStates, WorkerPcs, send_notification, Amounts
<1>3. /\ worker'[w] = Idle /\ worker' \in [Workers -> WorkerStates]
      /\ \A v \in Workers \ {w} : worker'[v] = worker[v] /\ Owns(v)' = Owns(v)
  BY <1>2, OthersStay
<1>4. Owns(w)' = {}
  BY <1>2, <1>3 DEF Owns, At
<1>5. notification_queue' \in [Clients -> Seq(Notices)]
  <2> DEFINE n == [type |-> IF r.type = "PAYMENT" THEN "PAYMENT_NOTIFICATION"
                            ELSE "CHARGE_REQUEST_NOTIFICATION",
                   origin |-> r.origin, amount |-> r.amount]
  <2>1. n \in Notices
    BY <1>1 DEF Notices
  <2>2. \/ notification_queue' = notification_queue
        \/ /\ Two(r)
           /\ notification_queue' = [notification_queue EXCEPT ![r.target] = Append(@, n)]
    BY DEF send_notification
  <2> HIDE DEF n
  <2>3. notification_queue \in [Clients -> Seq(Notices)]
    BY DEF Inv, Types
  <2>4. Two(r) => Append(notification_queue[r.target], n) \in Seq(Notices)
    BY <1>1, <2>1, <2>3
  <2> QED
    BY <1>1, <2>2, <2>3, <2>4
<1>6. mtx' = [c \in Clients |-> IF mtx[c] = w THEN "none" ELSE mtx[c]]
  BY DEF send_notification
<1>7. Types'
  <2>1. mtx' \in [Clients -> Workers \cup {"none"}]
    BY <1>6 DEF Inv, Types
  <2> QED
    BY <1>3, <1>5, <2>1 DEF Inv, Types, send_notification
<1>8. Locks'
  BY <1>3, <1>4, <1>6, AccountsAssumption DEF Inv, Types, Locks
<1>9. Stages'
  BY <1>2, <1>3 DEF Inv, Stages, Stage, At, send_notification
<1>10. Ended'
  BY <1>1 DEF Ended, send_notification
<1> QED
  BY <1>7, <1>8, <1>9, <1>10 DEF Inv

\* So do the two halves of stop().
LEMMA StopInv ==
    ASSUME Inv, stop_begin \/ stop_end
    PROVE  Inv'
<1>1. CASE stop_begin
  <2>1. Types'
    BY <1>1 DEF Inv, Types, stop_begin, clients
  <2>2. Locks' /\ Stages' /\ Ended'
    BY <1>1 DEF Inv, Locks, Stages, Stage, Ended, Owns, At, stop_begin
  <2> QED
    BY <2>1, <2>2 DEF Inv
<1>2. CASE stop_end
  <2>1. Types'
    BY <1>2 DEF Inv, Types, stop_end, clients
  <2>2. Locks' /\ Stages'
    BY <1>2 DEF Inv, Locks, Stages, Stage, Owns, At, stop_end
  <2>3. Ended'
    BY <1>2 DEF Ended, At, stop_end
  <2> QED
    BY <2>1, <2>2, <2>3 DEF Inv
<1> QED
  BY <1>1, <1>2

\* Every step preserves the invariant.
LEMMA NextInv == Inv /\ [Next]_vars => Inv'
<1> SUFFICES ASSUME Inv, [Next]_vars PROVE Inv'
  OBVIOUS
<1>1. ASSUME NEW w \in Workers, Work(w) PROVE Inv'
  BY <1>1, PopInv, GetAccountsInv, HandleInv, SendResponseInv, SendNotificationInv DEF Work
<1>2. ASSUME NEW c \in Clients, Client(c) PROVE Inv'
  BY <1>2, ClientInv
<1>3. CASE stop_begin \/ stop_end
  BY <1>3, StopInv
<1>4. CASE UNCHANGED vars
  BY <1>4 DEF vars, server, clients, Inv, Types, Locks, Stages, Stage, Ended, Owns, At
<1> QED
  BY <1>1, <1>2, <1>3, <1>4 DEF Next

\* The inductive invariant of the request handlers: a worker between the lock and the unlock
\* of its accounts is their only owner, a balance it has read is still the balance, and stop()
\* returns the balances of accounts nobody works on.
THEOREM AccountsInvariant == Spec => []Inv
BY InitInv, NextInv, PTL DEF Spec
-----------------------------------------------------------------------------
(* Money under way.                                                        *)

\* Worker w has taken money from client c and not delivered it yet.
Pays(w, c) == At(w, "credit") /\ worker[w].req.origin = c

\* The money under way from an account is that of the one payment from it.
LEMMA FlightIs ==
    Inv => \A c \in Clients :
             /\ \A w \in Workers : Pays(w, c) => InFlight(c) = worker[w].req.amount
             /\ (\A w \in Workers : ~Pays(w, c)) => InFlight(c) = 0
             /\ InFlight(c) \in Int
<1> SUFFICES ASSUME Inv, NEW c \in Clients
             PROVE  /\ \A w \in Workers : Pays(w, c) => InFlight(c) = worker[w].req.amount
                    /\ (\A w \in Workers : ~Pays(w, c)) => InFlight(c) = 0
                    /\ InFlight(c) \in Int
  OBVIOUS
<1>1. ASSUME NEW v \in Workers, NEW w \in Workers, Pays(v, c), Pays(w, c)
      PROVE  v = w
  BY <1>1, OwnsBoth, OneOwner DEF Pays, At
<1>2. ASSUME NEW w \in Workers, Pays(w, c)
      PROVE  InFlight(c) = worker[w].req.amount /\ InFlight(c) \in Int
  <2>1. {v \in Workers : At(v, "credit") /\ worker[v].req.origin = c} = {w}
    BY <1>1, <1>2 DEF Pays
  <2>2. (CHOOSE v \in {w} : TRUE) = w
    OBVIOUS
  <2>3. worker[w].req.amount \in Int
    BY <1>2, AtWork, RequestFacts, AccountsAssumption DEF Pays, At, Amounts
  <2> QED
    BY <2>1, <2>2, <2>3 DEF InFlight
<1>3. ASSUME \A w \in Workers : ~Pays(w, c)
      PROVE  InFlight(c) = 0
  <2>1. {v \in Workers : At(v, "credit") /\ worker[v].req.origin = c} = {}
    BY <1>3 DEF Pays
  <2> QED
    BY <2>1 DEF InFlight
<1> QED
  BY <1>2, <1>3

\* The same after a step.
LEMMA FlightIsNext ==
    ASSUME Inv'
    PROVE  \A c \in Clients :
             /\ \A w \in Workers : Pays(w, c)' => InFlight(c)' = worker'[w].req.amount
             /\ (\A w \in Workers : ~Pays(w, c)') => InFlight(c)' = 0
             /\ InFlight(c)' \in Int
<1>1. (Inv => \A c \in Clients :
             /\ \A w \in Workers : Pays(w, c) => InFlight(c) = worker[w].req.amount
             /\ (\A w \in Workers : ~Pays(w, c)) => InFlight(c) = 0
             /\ InFlight(c) \in Int)'
  BY FlightIs, PTL
<1> QED
  BY <1>1
\* The accounts with the money under way put back.
Funds == [c \in Clients |-> balance[c] + InFlight(c)]

\* A worker that owns an account and is not between the two halves of a payment from it.
LEMMA OwnerSettled ==
    ASSUME Inv, NEW w \in Workers, NEW c \in Clients, c \in Owns(w), ~Pays(w, c)
    PROVE  InFlight(c) = 0
<1>1. ASSUME NEW v \in Workers, Pays(v, c) PROVE FALSE
  BY <1>1, OwnsBoth, OneOwner DEF Pays, At
<1> QED
  BY <1>1, FlightIs

\* Money is under way before and after a step that is no part of a payment.
LEMMA SameFlight ==
    ASSUME Inv, Inv', NEW c \in Clients,
           \A v \in Workers : Pays(v, c)' <=> Pays(v, c),
           \A v \in Workers : Pays(v, c) => worker'[v].req = worker[v].req
    PROVE  InFlight(c)' = InFlight(c)
<1>1. CASE \E v \in Workers : Pays(v, c)
  BY <1>1, FlightIs, FlightIsNext
<1>2. CASE \A v \in Workers : ~Pays(v, c)
  BY <1>2, FlightIs, FlightIsNext
<1> QED
  BY <1>1, <1>2

\* Funds are integers.
LEMMA FundsType == Inv => Funds \in [Clients -> Int]
<1> SUFFICES ASSUME Inv PROVE Funds \in [Clients -> Int]
  OBVIOUS
<1>1. \A c \in Clients : balance[c] \in Int /\ InFlight(c) \in Int
  BY FlightIs, AccountsAssumption DEF Inv, Types, Amounts
<1> QED
  BY <1>1 DEF Funds

\* Request r is done: the client is told ok and the funds it is left with.
Done(r, ok) ==
    /\ r \in Requests
    /\ outcome' = [outcome EXCEPT ![r.origin] =
                     [req |-> r, success |-> ok, amount |-> Funds'[r.origin]]]

\* What a step of a handler comes to.
Effect(r) ==
    \/ UNCHANGED <<Funds, outcome, net>>
    \/ /\ r.type \in {"BALANCE", "CHARGE"} /\ Done(r, TRUE) /\ UNCHANGED <<Funds, net>>
    \/ /\ r.type \in {"WITHDRAWAL", "PAYMENT"} /\ ~(r.amount <= Funds[r.origin])
       /\ Done(r, FALSE) /\ UNCHANGED <<Funds, net>>
    \/ /\ r.type = "DEPOSIT" /\ Done(r, TRUE)
       /\ Funds' = [Funds EXCEPT ![r.origin] = (@ + r.amount) % Modulus]
       /\ net' = (net + r.amount) % Modulus
    \/ /\ r.type = "WITHDRAWAL" /\ Done(r, TRUE) /\ r.amount <= Funds[r.origin]
       /\ Funds' = [Funds EXCEPT ![r.origin] = @ - r.amount]
       /\ net' = (net - r.amount) % Modulus
    \/ /\ r.type = "PAYMENT" /\ Done(r, TRUE) /\ r.amount <= Funds[r.origin]
       /\ r.target \in Clients \ {r.origin}
       /\ Funds' = [[Funds EXCEPT ![r.origin] = @ - r.amount]
                       EXCEPT ![r.target] = (@ + r.amount) % Modulus]
       /\ UNCHANGED net

\* A step that moves no money between an account and the way to another.
LEMMA Apart ==
    ASSUME Inv, Inv', NEW w \in Workers, NEW x, Becomes(w, x), ~At(w, "credit"), x.pc # "credit"
    PROVE  \A c \in Clients : InFlight(c)' = InFlight(c)
<1>1. worker'[w] = x /\ \A v \in Workers \ {w} : worker'[v] = worker[v]
  BY OthersStay
<1>2. \A v \in Workers, c \in Clients : Pays(v, c)' <=> Pays(v, c)
  BY <1>1 DEF Pays, At
<1>3. \A v \in Workers, c \in Clients : Pays(v, c) => worker'[v].req = worker[v].req
  BY <1>1 DEF Pays, At
<1> QED
  BY <1>2, <1>3, SameFlight

\* A function that differs from f at a alone.
LEMMA ChangedAt ==
    ASSUME NEW S, NEW T, NEW f \in [S -> T], NEW g \in [S -> T], NEW a \in S, NEW n,
           g[a] = n, \A c \in S \ {a} : g[c] = f[c]
    PROVE  g = [f EXCEPT ![a] = n]
OBVIOUS

\* Funds stay when balances and the money under way do.
LEMMA FundsSame ==
    ASSUME balance' = balance, \A c \in Clients : InFlight(c)' = InFlight(c)
    PROVE  Funds' = Funds
BY DEF Funds

\* The money under way from the other accounts, in a step of a payment.
LEMMA OtherFlights ==
    ASSUME Inv, Inv', NEW w \in Workers, NEW x, Becomes(w, x),
           x.req = worker[w].req, NEW c \in Clients, c # worker[w].req.origin
    PROVE  InFlight(c)' = InFlight(c)
<1>1. worker'[w] = x /\ \A v \in Workers \ {w} : worker'[v] = worker[v]
  BY OthersStay
<1>2. \A v \in Workers : Pays(v, c)' <=> Pays(v, c)
  BY <1>1 DEF Pays, At
<1>3. \A v \in Workers : Pays(v, c) => worker'[v].req = worker[v].req
  BY <1>1 DEF Pays, At
<1> QED
  BY <1>2, <1>3, SameFlight

\* Each read or write of a balance in a handler is one of the effects: the write that takes a
\* payment from the payer and puts it on the way is none, the write that delivers it is the
\* payment.
LEMMA HandleEffect ==
    ASSUME Inv, Inv', NEW w \in Workers, handle(w)
    PROVE  Effect(worker[w].req)
<1> DEFINE r == worker[w].req
           bal == balance[r.origin]
<1>1. worker[w].pc \in {"handle", "store", "credit"}
  BY EachHandles
<1>2. /\ worker[w] \in WorkerStates /\ r \in Requests
      /\ r.origin \in Clients /\ r.amount \in Amounts /\ r.origin \in Owns(w)
      /\ Two(r) => r.target \in Clients /\ r.target # r.origin /\ r.target \in Owns(w)
  BY <1>1, AtWork, OwnsBoth, RequestFacts DEF At
<1>14. PICK o \in Clients : o = r.origin
  BY <1>2
<1>3. /\ balance \in [Clients -> Amounts] /\ bal \in Int /\ r.amount \in Int
      /\ balance' \in [Clients -> Amounts] /\ bal \in Amounts
  <2>1. balance \in [Clients -> Amounts] /\ balance' \in [Clients -> Amounts]
    BY DEF Inv, Types
  <2>2. \A a \in Amounts : a \in Int
    BY AccountsAssumption DEF Amounts
  <2> QED
    BY <1>2, <2>1, <2>2
<1>4. ~At(w, "credit") => InFlight(r.origin) = 0 /\ Funds[r.origin] = bal
  BY <1>2, <1>3, OwnerSettled DEF Pays, Funds
<1>5. Funds \in [Clients -> Int] /\ Funds' \in [Clients -> Int]
  <2>1. (Inv => Funds \in [Clients -> Int])'
    BY FundsType, PTL
  <2> QED
    BY <2>1, FundsType
<1>6. ASSUME At(w, "handle"), NEW ret \in {0, -1}, Answer(w, ret, bal), UNCHANGED <<balance, net>>
      PROVE  UNCHANGED <<Funds, net>> /\ Done(r, ret = 0)
  <2> DEFINE x == [worker[w] EXCEPT !.pc = "respond", !.ret = ret, !.amount = bal]
  <2>1. Becomes(w, x) /\ x.pc = "respond"
    BY <1>2, <1>6 DEF Answer, WorkerStates
  <2> HIDE DEF x
  <2>2. \A c \in Clients : InFlight(c)' = InFlight(c)
    BY <1>6, <2>1, Apart DEF At
  <2>3. Funds' = Funds
    BY <1>6, <2>2, FundsSame
  <2>4. Funds'[r.origin] = bal
    BY <1>4, <1>6, <2>3 DEF At
  <2> QED
    BY <1>2, <1>6, <2>3, <2>4 DEF Done, Answer
<1>7. ASSUME At(w, "handle"), Load(w, "store"), UNCHANGED <<balance, outcome, net>>
      PROVE  Effect(r)
  <2> DEFINE x == [worker[w] EXCEPT !.pc = "store", !.held = bal]
  <2>1. Becomes(w, x) /\ x.pc = "store"
    BY <1>2, <1>7 DEF Load, WorkerStates
  <2> HIDE DEF x
  <2>2. \A c \in Clients : InFlight(c)' = InFlight(c)
    BY <1>7, <2>1, Apart DEF At
  <2>3. Funds' = Funds
    BY <1>7, <2>2, FundsSame
  <2> QED
    BY <1>7, <2>3 DEF Effect
<1>8. ASSUME At(w, "store"), NEW n \in Amounts, Store(r.origin, n), Answer(w, 0, n)
      PROVE  Funds' = [Funds EXCEPT ![r.origin] = n] /\ Done(r, TRUE)
  <2> DEFINE x == [worker[w] EXCEPT !.pc = "respond", !.ret = 0, !.amount = n]
  <2>1. Becomes(w, x) /\ x.pc = "respond"
    BY <1>2, <1>8 DEF Answer, WorkerStates
  <2> HIDE DEF x
  <2>2. \A c \in Clients : InFlight(c)' = InFlight(c)
    BY <1>8, <2>1, Apart DEF At
  <2>3. n \in Int /\ InFlight(o)' = 0
    <3>1. n \in Int
      BY <1>8, AccountsAssumption DEF Amounts
    <3>2. InFlight(r.origin) = 0
      BY <1>4, <1>8 DEF At
    <3>3. InFlight(o)' = InFlight(r.origin)
      BY <1>14, <2>2
    <3> QED
      BY <1>14, <3>1, <3>2, <3>3
  <2>4. Funds' = [Funds EXCEPT ![r.origin] = n]
    <3>1. balance' = [balance EXCEPT ![r.origin] = n]
      BY <1>8 DEF Store
    <3>2. \A c \in Clients \ {r.origin} : balance'[c] + InFlight(c)' = balance[c] + InFlight(c)
      BY <1>3, <2>2, <3>1
    <3>3. balance'[r.origin] + InFlight(o)' = n
      BY <1>14, <1>3, <2>3, <3>1
    <3>4. Funds'[r.origin] = n /\ \A c \in Clients \ {r.origin} : Funds'[c] = Funds[c]
      BY <1>14, <3>2, <3>3 DEF Funds
    <3> QED
      BY <1>2, <1>5, <3>4, ChangedAt
  <2>5. Funds'[r.origin] = n
    BY <1>2, <1>5, <2>4
  <2> QED
    BY <1>2, <1>8, <2>4, <2>5 DEF Done, Answer
<1>9. CASE Refused(r)
  <2>1. PICK garbage \in Amounts :
           Becomes(w, [worker[w] EXCEPT !.pc = "respond", !.ret = -1, !.amount = garbage])
    BY <1>9 DEF handle, handle_missing_clients
  <2> DEFINE x == [worker[w] EXCEPT !.pc = "respond", !.ret = -1, !.amount = garbage]
  <2>2. x.pc = "respond" /\ At(w, "handle") /\ UNCHANGED <<balance, outcome, net>>
    BY <1>2, <1>9 DEF handle, handle_missing_clients, WorkerStates
  <2>3. Becomes(w, x)
    BY <2>1
  <2> HIDE DEF x
  <2>4. \A c \in Clients : InFlight(c)' = InFlight(c)
    BY <2>2, <2>3, Apart DEF At
  <2> QED
    BY <2>2, <2>4, FundsSame DEF Effect
<1>10. CASE handle_balance(w, r) \/ handle_charge(w, r)
  BY <1>6, <1>10 DEF handle_balance, handle_charge, Effect
<1>11. CASE handle_deposit(w, r)
  <2>1. CASE At(w, "handle")
    BY <1>7, <1>11, <2>1 DEF handle_deposit, At
  <2>2. CASE At(w, "store")
    <3>1. worker[w].held = bal
      BY <2>2 DEF Inv, Stages, Stage
    <3> DEFINE n == (bal + r.amount) % Modulus
    <3>2. n \in Amounts
      <4>1. bal + r.amount \in Int
        BY <1>3
      <4> QED
        BY <4>1, AccountsAssumption, ModRange DEF Amounts
    <3>3. /\ r.type = "DEPOSIT" /\ Store(r.origin, n) /\ Answer(w, 0, n)
          /\ net' = (net + r.amount) % Modulus
      BY <1>11, <2>2, <3>1 DEF handle_deposit, At
    <3>4. n = (Funds[r.origin] + r.amount) % Modulus
      BY <1>4, <2>2 DEF At
    <3> HIDE DEF n
    <3> QED
      BY <1>8, <2>2, <3>2, <3>3, <3>4 DEF Effect
  <2> QED
    BY <1>11, <2>1, <2>2 DEF handle_deposit
<1>12. CASE handle_withdraw(w, r)
  <2>1. CASE At(w, "handle") /\ r.amount > bal
    <3>1. ~(r.amount <= bal) /\ ~At(w, "store")
      BY <1>3, <2>1 DEF At
    <3>2. r.type = "WITHDRAWAL" /\ Answer(w, -1, bal) /\ UNCHANGED <<balance, net>>
      BY <1>12, <3>1 DEF handle_withdraw
    <3>3. UNCHANGED <<Funds, net>> /\ Done(r, FALSE)
      <4>1. UNCHANGED <<Funds, net>> /\ Done(r, -1 = 0)
        BY <1>6, <2>1, <3>2
      <4>2. (-1 = 0) = FALSE
        OBVIOUS
      <4> QED
        BY <4>1, <4>2
    <3> QED
      BY <1>4, <2>1, <3>1, <3>2, <3>3 DEF Effect, At
  <2>2. CASE At(w, "handle") /\ r.amount <= bal
    <3>1. ~(r.amount > bal) /\ ~At(w, "store")
      BY <1>3, <2>2 DEF At
    <3> QED
      BY <1>7, <1>12, <2>2, <3>1 DEF handle_withdraw
  <2>3. CASE At(w, "store")
    <3>1. r.type = "WITHDRAWAL" /\ worker[w].held = bal /\ r.amount <= bal
      BY <1>12, <2>3 DEF Inv, Stages, Stage, handle_withdraw
    <3> DEFINE n == (bal - r.amount) % Modulus
    <3>2. n = bal - r.amount /\ n \in Amounts
      BY <1>2, <1>3, <3>1, AccountsAssumption, ModSmall DEF Amounts
    <3>3. /\ Store(r.origin, n) /\ Answer(w, 0, n) /\ net' = (net - r.amount) % Modulus
      BY <1>12, <2>3, <3>1 DEF handle_withdraw, At
    <3> HIDE DEF n
    <3>4. n = Funds[r.origin] - r.amount /\ r.amount <= Funds[r.origin]
      BY <1>4, <2>3, <3>1, <3>2 DEF At
    <3> QED
      BY <1>8, <2>3, <3>1, <3>2, <3>3, <3>4 DEF Effect
  <2> QED
    BY <1>12, <2>1, <2>2, <2>3 DEF handle_withdraw
<1>13. CASE handle_pay(w, r) /\ ~Refused(r)
  <2> USE DEF insufficient
  <2>1. r.type = "PAYMENT" /\ net' = net
    BY <1>13 DEF handle_pay
  <2>2. CASE At(w, "handle") /\ bal < r.amount
    <3>1. ~(r.amount <= bal) /\ ~At(w, "store") /\ ~At(w, "credit")
      BY <1>3, <2>2 DEF At
    <3>2. Answer(w, -1, bal) /\ UNCHANGED balance
      BY <1>13, <2>2, <3>1 DEF handle_pay
    <3>3. UNCHANGED <<Funds, net>> /\ Done(r, FALSE)
      <4>1. UNCHANGED <<Funds, net>> /\ Done(r, -1 = 0)
        BY <1>6, <2>1, <2>2, <3>2
      <4>2. (-1 = 0) = FALSE
        OBVIOUS
      <4> QED
        BY <4>1, <4>2
    <3> QED
      BY <1>4, <2>1, <3>1, <3>3 DEF Effect
  <2>3. CASE At(w, "handle") /\ ~(bal < r.amount)
    <3>1. ~At(w, "store") /\ ~At(w, "credit")
      BY <2>3 DEF At
    <3> QED
      BY <1>7, <1>13, <2>1, <2>3, <3>1 DEF handle_pay
  <2>4. CASE At(w, "store")
    <3>1. worker[w].held = bal /\ r.amount <= bal
      BY <2>1, <2>4 DEF Inv, Stages, Stage
    <3>2. (bal - r.amount) % Modulus = bal - r.amount
      <4>1. bal - r.amount \in 0..(Modulus - 1)
        BY <1>2, <1>3, <3>1, AccountsAssumption DEF Amounts
      <4> QED
        BY <4>1, AccountsAssumption, ModSmall
    <3>3. Store(r.origin, bal - r.amount) /\ To(w, "credit") /\ UNCHANGED outcome
      BY <1>13, <2>4, <3>1, <3>2 DEF handle_pay, At
    <3> DEFINE x == [worker[w] EXCEPT !.pc = "credit"]
    <3>4. Becomes(w, x) /\ x.pc = "credit" /\ x.req = r
      BY <1>2, <3>3 DEF To, WorkerStates
    <3> HIDE DEF x
    <3>5. worker'[w] = x
      BY <3>4, OthersStay
    <3>6. InFlight(o)' = r.amount
      BY <1>14, <3>4, <3>5, FlightIsNext DEF Pays, At
    <3>7. \A c \in Clients \ {r.origin} : InFlight(c)' = InFlight(c) /\ balance'[c] = balance[c]
      BY <1>3, <3>3, <3>4, OtherFlights DEF Store
    <3>8. balance'[r.origin] = bal - r.amount
      BY <1>2, <1>3, <3>3 DEF Store
    <3>9. balance'[r.origin] + InFlight(o)' = bal + 0
      BY <1>3, <3>6, <3>8
    <3>10. \A c \in Clients : balance'[c] + InFlight(c)' = balance[c] + InFlight(c)
      BY <1>4, <1>14, <2>4, <3>7, <3>9 DEF At
    <3>11. Funds' = Funds
      BY <3>10 DEF Funds
    <3> QED
      BY <2>1, <3>3, <3>11 DEF Effect
  <2>5. CASE At(w, "credit")
    <3>21. PICK t : t = r.target
      OBVIOUS
    <3> DEFINE n == (balance[t] + r.amount) % Modulus
    <3>1. Two(r)
      BY <2>1, <1>13 DEF Two, OneAccount
    <3>2. t \in Clients /\ t # r.origin /\ t \in Owns(w) /\ balance[t] \in Amounts /\ balance[t] \in Int
      <4>1. t \in Clients /\ t # r.origin /\ t \in Owns(w)
        BY <1>2, <3>1, <3>21
      <4>2. balance[t] \in Amounts
        BY <1>3, <4>1
      <4> QED
        BY <4>1, <4>2, AccountsAssumption DEF Amounts
    <3>3. n \in Amounts /\ n \in Int
      <4>1. balance[t] + r.amount \in Int
        BY <1>3, <3>2
      <4>2. n \in 0..(Modulus - 1)
        BY <4>1, AccountsAssumption, ModRange
      <4> HIDE DEF n
      <4> QED
        BY <4>2, AccountsAssumption DEF Amounts
    <3>4. Store(t, n) /\ Answer(w, 0, bal)
      BY <1>13, <2>5, <3>21 DEF handle_pay, At
    <3> HIDE DEF n
    <3>5. InFlight(r.origin) = r.amount /\ InFlight(t) = 0
      BY <1>2, <2>5, <3>2, FlightIs, OwnerSettled DEF Pays
    <3> DEFINE x == [worker[w] EXCEPT !.pc = "respond", !.ret = 0, !.amount = bal]
    <3>6. Becomes(w, x) /\ x.pc = "respond" /\ x.req = r
      BY <1>2, <3>4 DEF Answer, WorkerStates
    <3> HIDE DEF x
    <3>7. worker'[w] = x /\ \A v \in Workers \ {w} : worker'[v] = worker[v]
      BY <3>6, OthersStay
    <3>8. \A v \in Workers : ~Pays(v, o)'
      <4>1. ASSUME NEW v \in Workers \ {w}, Pays(v, o) PROVE FALSE
        BY <1>14, <1>2, <4>1, OwnsBoth, OneOwner DEF Pays, At
      <4> QED
        BY <3>6, <3>7, <4>1 DEF Pays, At
    <3>9. InFlight(o)' = 0
      BY <1>14, <3>8, FlightIsNext
    <3>10. \A c \in Clients \ {r.origin} : InFlight(c)' = InFlight(c)
      BY <3>6, OtherFlights
    <3>11. /\ balance'[t] = n /\ balance'[r.origin] = bal
           /\ \A c \in Clients \ {t} : balance'[c] = balance[c]
      BY <1>2, <1>3, <3>2, <3>4 DEF Store
    <3>12. Funds'[r.origin] = bal /\ Funds[r.origin] = bal + r.amount
      <4>1. Funds'[r.origin] = bal + 0
        BY <1>14, <3>9, <3>11 DEF Funds
      <4>2. Funds[r.origin] = bal + r.amount
        BY <1>2, <3>5 DEF Funds
      <4> QED
        BY <1>3, <4>1, <4>2
    <3>13. Funds'[t] = n /\ Funds[t] = balance[t]
      <4>1. InFlight(t)' = 0
        BY <3>2, <3>5, <3>10
      <4>2. Funds'[t] = n + 0
        BY <3>2, <3>11, <4>1 DEF Funds
      <4>3. Funds[t] = balance[t] + 0
        BY <3>2, <3>5 DEF Funds
      <4> QED
        BY <3>2, <3>3, <4>2, <4>3
    <3>14. \A c \in Clients \ {r.origin, t} : Funds'[c] = Funds[c]
      BY <3>10, <3>11 DEF Funds
    <3> DEFINE f == [Funds EXCEPT ![r.origin] = @ - r.amount]
    <3>15. f \in [Clients -> Int] /\ f[r.origin] = bal /\ \A c \in Clients \ {r.origin} : f[c] = Funds[c]
      <4>1. Funds[r.origin] - r.amount = bal
        BY <1>3, <3>12
      <4> QED
        BY <1>2, <1>3, <1>5, <4>1
    <3>16. Funds' = [f EXCEPT ![t] = n]
      <4>1. \A c \in Clients \ {t} : Funds'[c] = f[c]
        BY <3>12, <3>14, <3>15
      <4> HIDE DEF f
      <4> QED
        BY <1>5, <3>2, <3>13, <3>15, <4>1, ChangedAt
    <3>17. n = (f[t] + r.amount) % Modulus
      BY <3>2, <3>13, <3>15 DEF n
    <3>18. Funds' = [f EXCEPT ![t] = (@ + r.amount) % Modulus]
      <4> HIDE DEF f
      <4> QED
        BY <3>2, <3>15, <3>16, <3>17
    <3>19. r.amount <= Funds[r.origin]
      <4>1. 0 <= bal
        BY <1>3, AccountsAssumption DEF Amounts
      <4> QED
        BY <1>3, <3>12, <4>1
    <3>20. Done(r, TRUE)
      <4>1. outcome' = [outcome EXCEPT ![r.origin] = [req |-> r, success |-> TRUE, amount |-> bal]]
        BY <3>4 DEF Answer
      <4> QED
        BY <1>2, <3>12, <4>1 DEF Done
    <3> QED
      BY <2>1, <3>2, <3>18, <3>19, <3>20, <3>21 DEF Effect
  <2> QED
    BY <1>1, <2>2, <2>3, <2>4, <2>5 DEF At
<1> QED
  BY <1>9, <1>10, <1>11, <1>12, <1>13 DEF handle
-----------------------------------------------------------------------------
(* The server implements the ledger.                                       *)

\* A step of a worker outside the handlers moves no money.
LEMMA WorkEffect ==
    ASSUME Inv, Inv', NEW w \in Workers, Work(w)
    PROVE  UNCHANGED <<Funds, outcome, net>> \/ \E r \in Requests : Effect(r)
<1>1. worker[w] \in WorkerStates
  BY AtWork
<1>2. ASSUME NEW x, Becomes(w, x), ~At(w, "credit"), x.pc # "credit", UNCHANGED <<balance, outcome, net>>
      PROVE  UNCHANGED <<Funds, outcome, net>>
  BY <1>2, Apart, FundsSame
<1>3. CASE pop(w)
  <2> DEFINE x == [worker[w] EXCEPT !.pc = "lock", !.req = Head(work_queue)]
  <2>1. Becomes(w, x) /\ x.pc = "lock" /\ ~At(w, "credit") /\ UNCHANGED <<balance, outcome, net>>
    BY <1>1, <1>3 DEF pop, At, WorkerStates
  <2> HIDE DEF x
  <2> QED
    BY <1>2, <2>1
<1>4. CASE get_accounts(w)
  <2>1. PICK pc \in {"lock2", "handle"} : To(w, pc)
    BY <1>4 DEF get_accounts
  <2> DEFINE x == [worker[w] EXCEPT !.pc = pc]
  <2>2. Becomes(w, x) /\ x.pc # "credit" /\ ~At(w, "credit") /\ UNCHANGED <<balance, outcome, net>>
    BY <1>1, <1>4, <2>1 DEF get_accounts, To, At, WorkerStates
  <2> HIDE DEF x
  <2> QED
    BY <1>2, <2>2
<1>5. CASE handle(w)
  <2>1. worker[w].req \in Requests
    BY <1>5, EachHandles, AtWork DEF At
  <2> QED
    BY <1>5, <2>1, HandleEffect
<1>6. CASE send_response(w)
  <2> DEFINE x == [worker[w] EXCEPT !.pc = "notify"]
  <2>1. Becomes(w, x) /\ x.pc = "notify" /\ ~At(w, "credit") /\ UNCHANGED <<balance, outcome, net>>
    BY <1>1, <1>6 DEF send_response, To, At, WorkerStates
  <2> HIDE DEF x
  <2> QED
    BY <1>2, <2>1
<1>7. CASE send_notification(w)
  <2>1. Becomes(w, Idle) /\ Idle.pc = "idle" /\ ~At(w, "credit") /\ UNCHANGED <<balance, outcome, net>>
    BY <1>7 DEF send_notification, At, Idle
  <2> QED
    BY <1>2, <2>1
<1> QED
  BY <1>3, <1>4, <1>5, <1>6, <1>7 DEF Work

\* What any step comes to.
LEMMA StepEffect ==
    ASSUME Inv, Inv', [Next]_vars
    PROVE  UNCHANGED <<Funds, outcome, net>> \/ \E r \in Requests : Effect(r)
<1>1. ASSUME UNCHANGED <<balance, worker, outcome, net>>
      PROVE  UNCHANGED <<Funds, outcome, net>>
  <2>1. \A c \in Clients : InFlight(c)' = InFlight(c)
    BY <1>1 DEF InFlight, At
  <2> QED
    BY <1>1, <2>1, FundsSame
<1>2. ASSUME NEW w \in Workers, Work(w)
      PROVE  UNCHANGED <<Funds, outcome, net>> \/ \E r \in Requests : Effect(r)
  BY <1>2, WorkEffect
<1>3. ASSUME NEW c \in Clients, Client(c)
      PROVE  UNCHANGED <<balance, worker, outcome, net>>
  BY <1>3 DEF Client, handle_command, leave, make_request_returns, show_notification, server
<1>4. CASE stop_begin \/ stop_end
  BY <1>1, <1>4 DEF stop_begin, stop_end
<1>5. CASE UNCHANGED vars
  BY <1>1, <1>5 DEF vars, server
<1> QED
  BY <1>1, <1>2, <1>3, <1>4, <1>5 DEF Next

\* The funds a client is left with by a payment.
LEMMA PayerFunds ==
    ASSUME NEW f \in [Clients -> Int], NEW o \in Clients, NEW t \in Clients, t # o, NEW a, NEW n
    PROVE  [[f EXCEPT ![o] = a] EXCEPT ![t] = n][o] = a
OBVIOUS

\* Request r has been executed.
LEMMA EffectExecutes ==
    ASSUME Inv, NEW r \in Requests, Effect(r)
    PROVE  TheLedger!Execute(r) \/ UNCHANGED <<Funds, outcome>>
<1> USE DEF TheLedger!Execute, TheLedger!After, TheLedger!With, TheLedger!Without,
            TheLedger!Covered, TheLedger!Granted
<1>1. Funds = [c \in Clients |-> balance[c] + InFlight(c)]
  BY DEF Funds
<1>2. Funds' = [c \in Clients |-> balance[c] + InFlight(c)]'
  BY DEF Funds
<1>3. Funds \in [Clients -> Int] /\ r.origin \in Clients
  BY FundsType, RequestFacts
<1>4. CASE r.type \in {"BALANCE", "CHARGE"} /\ Done(r, TRUE) /\ UNCHANGED <<Funds, net>>
  BY <1>1, <1>2, <1>4 DEF Done
<1>5. CASE /\ r.type \in {"WITHDRAWAL", "PAYMENT"} /\ ~(r.amount <= Funds[r.origin])
           /\ Done(r, FALSE) /\ UNCHANGED <<Funds, net>>
  BY <1>1, <1>2, <1>5 DEF Done
<1>6. CASE /\ r.type = "DEPOSIT" /\ Done(r, TRUE)
           /\ Funds' = [Funds EXCEPT ![r.origin] = (@ + r.amount) % Modulus]
           /\ net' = (net + r.amount) % Modulus
  BY <1>1, <1>2, <1>6 DEF Done
<1>7. CASE /\ r.type = "WITHDRAWAL" /\ Done(r, TRUE) /\ r.amount <= Funds[r.origin]
           /\ Funds' = [Funds EXCEPT ![r.origin] = @ - r.amount]
           /\ net' = (net - r.amount) % Modulus
  BY <1>1, <1>2, <1>7 DEF Done
<1>8. CASE /\ r.type = "PAYMENT" /\ Done(r, TRUE) /\ r.amount <= Funds[r.origin]
           /\ r.target \in Clients \ {r.origin}
           /\ Funds' = [[Funds EXCEPT ![r.origin] = @ - r.amount]
                           EXCEPT ![r.target] = (@ + r.amount) % Modulus]
           /\ UNCHANGED net
  BY <1>1, <1>2, <1>8 DEF Done
<1> QED
  BY <1>4, <1>5, <1>6, <1>7, <1>8 DEF Effect

\* Every step is a step of the ledger or leaves it alone.
LEMMA StepRefines ==
    ASSUME Inv, Inv', [Next]_vars
    PROVE  TheLedger!Next \/ UNCHANGED <<Funds, outcome>>
<1>1. ASSUME NEW r \in Requests, TheLedger!Execute(r)
      PROVE  TheLedger!Next
  <2>1. r.origin \in Clients
    BY RequestFacts
  <2>2. outcome'[r.origin].req = r
    BY <1>1, <2>1 DEF TheLedger!Execute, Inv, Types
  <2> QED
    BY <1>1, <2>1, <2>2 DEF TheLedger!Next, TheLedger!Execute, TheLedger!After, TheLedger!Granted,
       TheLedger!Covered
<1> QED
  BY <1>1, StepEffect, EffectExecutes

\* The accounts a server starts with are a ledger.
LEMMA InitRefines == Init => TheLedger!Init
<1> SUFFICES ASSUME Init PROVE TheLedger!Init
  OBVIOUS
<1>1. \A c \in Clients : InFlight(c) = 0
  BY DEF Init, InFlight, At, Idle
<1>2. \A c \in Clients : balance[c] + InFlight(c) \in 0..(Modulus - 1)
  BY <1>1, AccountsAssumption DEF Init
<1> QED
  BY <1>2 DEF TheLedger!Init, Init

\* Workers that read and write balances under the accounts' mutexes execute the requests one
\* at a time.
THEOREM Refinement == Spec => RefinesLedger
<1>1. Inv /\ Inv' /\ [Next]_vars => [TheLedger!Next]_<<[c \in Clients |-> balance[c] + InFlight(c)], outcome>>
  BY StepRefines DEF Funds
<1> QED
  BY <1>1, InitRefines, AccountsInvariant, PTL DEF Spec, RefinesLedger, TheLedger!Spec

-----------------------------------------------------------------------------
(* Money is conserved.                                                     *)

\* The parts of the assumption on constants that sums and remainders need.
LEMMA Finite == IsFiniteSet(Clients) /\ Modulus \in Nat \ {0}
BY AccountsAssumption

\* The money there is, put back where it came from, and what the accounts of deposits and
\* withdrawals say.
Conserved == SumFunction(Funds) \in Int /\ Congruent(SumFunction(Funds), net, Modulus)

\* A server starts with what was deposited.
LEMMA InitConserved == Init => Conserved
<1> SUFFICES ASSUME Init PROVE Conserved
  OBVIOUS
<1>1. \A c \in Clients : InFlight(c) = 0
  BY DEF Init, InFlight, At, Idle
<1>2. balance \in [Clients -> Int]
  BY AccountsAssumption DEF Init
<1>3. Funds = balance
  BY <1>1, <1>2 DEF Funds
<1>4. SumFunction(balance) \in Int
  BY <1>2, Finite, SumType
<1>5. net \in Int /\ net = SumFunction(balance) % Modulus
  BY <1>4, AccountsAssumption, ModRange DEF Init
<1> QED
  BY <1>3, <1>4, <1>5, Finite, ModCongruent DEF Conserved

\* No request makes or loses money.
LEMMA EffectConserves ==
    ASSUME Inv, Inv', Conserved, NEW r \in Requests, Effect(r)
    PROVE  Conserved'
<1>1. PICK o \in Clients, a \in Int : o = r.origin /\ a = r.amount
  <2>1. r.origin \in Clients /\ r.amount \in Amounts
    BY RequestFacts
  <2>2. r.amount \in Int
    BY <2>1, AccountsAssumption DEF Amounts
  <2> QED
    BY <2>1, <2>2
<1>2. PICK S \in Int : S = SumFunction(Funds)
  BY FundsType, Finite, SumType
<1>3. PICK M \in Nat \ {0} : M = Modulus
  BY Finite
<1>4. PICK f \in [Clients -> Int], g \in [Clients -> Int] : f = Funds /\ g = Funds'
  <2>1. (Inv => Funds \in [Clients -> Int])'
    BY FundsType, PTL
  <2> QED
    BY <2>1, FundsType
<1>5. PICK y \in Int, z \in Int : y = net /\ z = net'
  BY AccountsAssumption DEF Inv, Types, Amounts
<1>6. Congruent(S, y, M)
  BY <1>2, <1>3, <1>5 DEF Conserved
<1>7. SUFFICES SumFunction(g) \in Int /\ Congruent(SumFunction(g), z, M)
  BY <1>3, <1>4, <1>5 DEF Conserved
<1>8. CASE UNCHANGED <<Funds, net>>
  BY <1>2, <1>4, <1>5, <1>6, <1>8
<1>9. ASSUME NEW d \in Int, NEW b \in Int, b = f[o] + d, Congruent(g[o], b, M),
             \A x \in Clients \ {o} : g[x] = f[x],
             NEW e \in Int, e = y + d, Congruent(z, e, M)
      PROVE  SumFunction(g) \in Int /\ Congruent(SumFunction(g), z, M)
  <2>1. PICK X \in Int : X = S + d
    OBVIOUS
  <2>2. SumFunction(g) \in Int /\ Congruent(SumFunction(g), X, M)
    BY <1>2, <1>4, <1>9, <2>1, Finite, SumCongruent
  <2>3. X - S = e - y
    BY <1>9, <2>1
  <2> QED
    BY <1>6, <1>9, <2>2, <2>3, CongruentChange
<1>10. CASE /\ Funds' = [Funds EXCEPT ![r.origin] = (@ + r.amount) % Modulus]
            /\ net' = (net + r.amount) % Modulus
  <2>1. PICK b \in Int, e \in Int : b = f[o] + a /\ e = y + a
    OBVIOUS
  <2>2. g[o] = b % M /\ (\A x \in Clients \ {o} : g[x] = f[x]) /\ z = e % M
    BY <1>1, <1>3, <1>4, <1>5, <1>10, <2>1
  <2>3. Congruent(g[o], b, M) /\ Congruent(z, e, M)
    BY <2>2, ModCongruent
  <2> QED
    BY <1>9, <2>1, <2>2, <2>3
<1>11. CASE /\ r.type = "WITHDRAWAL"
            /\ Funds' = [Funds EXCEPT ![r.origin] = @ - r.amount]
            /\ net' = (net - r.amount) % Modulus
  <2>1. PICK d \in Int : d = -a
    OBVIOUS
  <2>2. PICK b \in Int, e \in Int : b = f[o] + d /\ e = y + d
    OBVIOUS
  <2>3. g[o] = b /\ \A x \in Clients \ {o} : g[x] = f[x]
    <3>1. g[o] = f[o] - a /\ (\A x \in Clients \ {o} : g[x] = f[x])
      BY <1>1, <1>4, <1>11
    <3> QED
      BY <2>1, <2>2, <3>1
  <2>4. z = e % M
    <3>1. net - r.amount = e
      BY <1>1, <1>5, <2>1, <2>2
    <3> QED
      BY <1>3, <1>5, <1>11, <3>1
  <2>5. Congruent(g[o], b, M) /\ Congruent(z, e, M)
    BY <2>3, <2>4, ModCongruent, SelfCongruent
  <2> QED
    BY <1>9, <2>2, <2>3, <2>5
<1>12. CASE /\ r.target \in Clients \ {r.origin}
            /\ Funds' = [[Funds EXCEPT ![r.origin] = @ - r.amount]
                            EXCEPT ![r.target] = (@ + r.amount) % Modulus]
            /\ UNCHANGED net
  <2>1. PICK h \in [Clients -> Int] : h = [f EXCEPT ![o] = f[o] - a]
    <3>1. f[o] - a \in Int
      OBVIOUS
    <3>2. [f EXCEPT ![o] = f[o] - a] \in [Clients -> Int]
      BY <3>1
    <3> QED
      BY <3>2
  <2>2. PICK t \in Clients : t = r.target /\ t # o
    BY <1>1, <1>12
  <2>3. PICK b \in Int : b = h[t] + a
    OBVIOUS
  <2>4. g[t] = b % M /\ \A x \in Clients \ {t} : g[x] = h[x]
    BY <1>1, <1>3, <1>4, <1>12, <2>1, <2>2, <2>3
  <2>5. Congruent(g[t], b, M)
    BY <2>4, ModCongruent
  <2>6. SumFunction(h) = S - a
    <3>1. h[o] = f[o] - a /\ \A x \in Clients \ {o} : h[x] = f[x]
      BY <2>1
    <3>2. SumFunction(h) = S + h[o] - f[o]
      BY <1>2, <1>4, <3>1, Finite, SumChange
    <3> QED
      BY <3>1, <3>2
  <2>7. SumFunction(g) \in Int /\ Congruent(SumFunction(g), SumFunction(h) + a, M)
    BY <2>3, <2>4, <2>5, Finite, SumCongruent
  <2>8. SumFunction(h) + a = S
    BY <2>6
  <2>9. Congruent(SumFunction(g), S, M) /\ Congruent(y, y, M) /\ z = y
    BY <1>5, <1>12, <2>7, <2>8, SelfCongruent
  <2>10. S - S = y - y
    OBVIOUS
  <2> QED
    BY <1>6, <2>7, <2>9, <2>10, CongruentChange
<1> QED
  BY <1>8, <1>10, <1>11, <1>12 DEF Effect

\* No step does.
LEMMA StepConserves == Inv /\ Inv' /\ [Next]_vars /\ Conserved => Conserved'
<1> SUFFICES ASSUME Inv, Inv', [Next]_vars, Conserved PROVE Conserved'
  OBVIOUS
<1>1. CASE UNCHANGED <<Funds, outcome, net>>
  BY <1>1 DEF Conserved
<1> QED
  BY <1>1, StepEffect, EffectConserves

\* What stop() returns: nothing is under way when all workers are idle.
LEMMA FinalFunds == Inv /\ Conserved => MoneyConserved
<1> SUFFICES ASSUME Inv, Conserved PROVE MoneyConserved
  OBVIOUS
<1>2. SumFunction(Funds) % Modulus = net
  <2>1. net \in 0 .. Modulus - 1
    BY DEF Inv, Types, Amounts
  <2> QED
    BY <2>1, Finite, ModIs DEF Conserved
<1>1. ASSUME final # <<>> PROVE SumFunction(final[1]) % Modulus = net
  <2>1. final[1] = balance /\ \A w \in Workers : ~At(w, "credit")
    BY <1>1 DEF Inv, Ended, At
  <2>2. \A c \in Clients : InFlight(c) = 0
    BY <2>1, FlightIs DEF Pays
  <2>3. balance \in [Clients -> Int]
    BY AccountsAssumption DEF Inv, Types, Amounts
  <2>4. Funds = balance
    BY <2>2, <2>3 DEF Funds
  <2> QED
    BY <1>2, <2>1, <2>4
<1> QED
  BY <1>1, <1>2 DEF MoneyConserved, Funds

\* No step of any worker, user or of stop() makes or loses money.
THEOREM Conservation == Spec => []MoneyConserved
<1>1. Spec => []Conserved
  BY InitConserved, StepConserves, AccountsInvariant, PTL DEF Spec
<1> QED
  BY <1>1, FinalFunds, AccountsInvariant, PTL
=============================================================================
