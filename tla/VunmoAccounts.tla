--------------------------- MODULE VunmoAccounts ---------------------------
(***************************************************************************)
(* Money in Vunmo: users at the prompt of vunmo/client.cc, the workers of  *)
(* the server with the request handlers of vunmo-server.cc, and accounts   *)
(* with a mutex each.  Balances and amounts are taken modulo Modulus.  The *)
(* network delivers; what happens when it does not is the subject of       *)
(* VunmoServer.                                                            *)
(*                                                                         *)
(* process_request, get_account and get_two_accounts are empty in the      *)
(* repository; they are modelled as their comments describe them, locking  *)
(* two accounts in the order of their ids.                                 *)
(***************************************************************************)
EXTENDS Integers, Sequences, FiniteSets, Functions

CONSTANTS
    Clients,       \* client ids, naturals
    Nobody,        \* an id nobody has
    Workers,
    Modulus,       \* of a balance and an amount, 2^64 for a uint64_t
    Typed,         \* numbers a user may type
    Opening,       \* balances earlier deposits may have left
    MaxCommands    \* commands each user types

ASSUME AccountsAssumption ==
    /\ Clients \subseteq Nat /\ IsFiniteSet(Clients) /\ Nobody \in Nat \ Clients
    /\ Modulus \in Nat \ {0} /\ Opening \in [Clients -> 0..(Modulus - 1)] /\ Typed \subseteq Int /\ MaxCommands \in Nat
    /\ "none" \notin Workers

Amounts == 0..(Modulus - 1)

VARIABLES
    balance, mtx,            \* accounts: balance, and who holds the mutex
    work_queue,
    worker,                  \* workers: where they are, with which request
    is_stopped, final,       \* stop() was called; final_balances
    user,                    \* where each user's client is, the notifications it shows
    response,                \* responses sent and not yet read
    notification_queue,
    commands,                \* commands typed so far
    outcome, net             \* history: last outcome per client; deposited less withdrawn

server == <<balance, mtx, work_queue, worker, is_stopped, final, outcome, net>>
clients == <<user, response, notification_queue, commands>>
vars == <<server, clients>>

Request(type, c, target, amount) ==
    [type |-> type, origin |-> c, target |-> target, amount |-> amount]
OneAccount == {"BALANCE", "DEPOSIT", "WITHDRAWAL"}
Requests == [type : OneAccount, origin : Clients, target : {Nobody}, amount : Amounts]
            \cup [type : {"PAYMENT", "CHARGE"}, origin : Clients,
                  target : Clients \cup {Nobody}, amount : Amounts]
NoRequest == Request("none", Nobody, Nobody, 0)
Idle == [pc |-> "idle", req |-> NoRequest, held |-> 0, ret |-> 0, amount |-> 0]

-----------------------------------------------------------------------------
(* client.cc *)

\* sscanf's %lu: a minus sign negates the unsigned number, and a number too large is
\* the largest.
scanned(n) == IF n < 0 THEN n % Modulus ELSE IF n < Modulus THEN n ELSE Modulus - 1

\* A command line: a word and the numbers after it.  A target that is typed is an id.
Commands(c) ==
    [word : {"blank", "balance", "deposit", "withdraw", "pay"}, args : {<<>>}]
    \cup [word : {"deposit", "withdraw"}, args : {<<n>> : n \in Typed}]
    \cup [word : {"pay", "charge"},
          args : {<<t, n>> : t \in Clients \cup {Nobody}, n \in Typed}]

parse_command(c, cmd) ==
    LET amount(k) == scanned(cmd.args[k])
    IN  CASE cmd.word = "balance" -> Request("BALANCE", c, Nobody, 0)
          [] cmd.word = "deposit" /\ Len(cmd.args) >= 1 -> Request("DEPOSIT", c, Nobody, amount(1))
          [] cmd.word = "withdraw" /\ Len(cmd.args) >= 1 ->
                Request("WITHDRAWAL", c, Nobody, amount(1))
          [] cmd.word = "pay" /\ Len(cmd.args) >= 2 ->
                Request("PAYMENT", c, cmd.args[1], amount(2))
          [] cmd.word = "charge" /\ Len(cmd.args) >= 2 ->
                Request("CHARGE", c, cmd.args[1], amount(2))
          [] OTHER -> NoRequest

Goes(c, pc, ns) == user' = [user EXCEPT ![c] = [pc |-> pc, ns |-> ns]]

\* make_request up to its read.  The server gives up its sockets when it has stopped, and
\* nobody fetches requests once it is stopping.
Send(req) == work_queue' = IF is_stopped THEN work_queue ELSE Append(work_queue, req)

\* Notifications are shown after each command.
display_notifications(c) ==
    /\ Goes(c, "show", notification_queue[c])
    /\ notification_queue' = [notification_queue EXCEPT ![c] = <<>>]

\* A blank line and an invalid command make no request.
handle_command(c) ==
    /\ user[c].pc = "prompt" /\ commands[c] < MaxCommands
    /\ commands' = [commands EXCEPT ![c] = @ + 1]
    /\ \E cmd \in Commands(c) :
          LET req == parse_command(c, cmd)
          IN  IF req = NoRequest
              THEN display_notifications(c) /\ UNCHANGED work_queue
              ELSE Goes(c, "waiting", <<>>) /\ Send(req) /\ UNCHANGED notification_queue
    /\ UNCHANGED <<balance, mtx, worker, is_stopped, final, outcome, net, response>>

\* End of input, or a command that failed: main disconnects.
leave(c) == user[c].pc = "prompt" /\ commands[c] < MaxCommands /\ Goes(c, "left", <<>>)
            /\ UNCHANGED <<server, response, notification_queue, commands>>

\* make_request's read.  A response to the payment for an accepted charge is thrown away.
\* When the server has closed the connection a command ends the loop, a payment does not.
make_request_returns(c) ==
    /\ user[c].pc \in {"waiting", "paying"}
    /\ \/ /\ response[c] # <<>>
          /\ response' = [response EXCEPT ![c] = Tail(@)]
          /\ IF user[c].pc = "waiting" THEN display_notifications(c)
             ELSE Goes(c, "show", user[c].ns) /\ UNCHANGED notification_queue
       \/ /\ response[c] = <<>> /\ final # <<>>
          /\ Goes(c, IF user[c].pc = "waiting" THEN "left" ELSE "show", user[c].ns)
          /\ UNCHANGED <<response, notification_queue>>
    /\ UNCHANGED <<server, commands>>

\* What print_charge_request makes of a line the user types: it is read two characters at
\* a time, and a piece counts if it is one letter and the end of the line.
Lines == {<<"y">>, <<"n">>, <<"n", "o">>, <<"y", "e", "s">>}
answer_of(line) ==
    CASE Len(line) % 2 = 1 /\ line[Len(line)] = "y" -> "accept"
      [] Len(line) % 2 = 1 /\ line[Len(line)] = "n" -> "decline"
      [] OTHER -> "again"

\* One round of display_notifications' loop; at the end of input a charge is passed over.
show_notification(c) ==
    /\ user[c].pc = "show"
    /\ LET ns == user[c].ns
       IN  \/ ns = <<>> /\ Goes(c, "prompt", <<>>) /\ UNCHANGED work_queue
           \/ /\ ns # <<>> /\ ns[1].type = "PAYMENT_NOTIFICATION"
              /\ Goes(c, "show", Tail(ns)) /\ UNCHANGED work_queue
           \/ /\ ns # <<>> /\ ns[1].type = "CHARGE_REQUEST_NOTIFICATION"
              /\ \E line \in Lines :
                 \/ /\ answer_of(line) = "accept"
                    /\ Goes(c, "paying", Tail(ns))
                    /\ Send(Request("PAYMENT", c, ns[1].origin, ns[1].amount))
                 \/ /\ answer_of(line) = "decline"
                    /\ Goes(c, "show", Tail(ns)) /\ UNCHANGED work_queue
    /\ UNCHANGED <<balance, mtx, worker, is_stopped, final, outcome, net,
                   response, notification_queue, commands>>

-----------------------------------------------------------------------------
(* The workers.                                                            *)

At(w, pc) == worker[w].pc = pc
Becomes(w, r) == worker' = [worker EXCEPT ![w] = r]
To(w, pc) == Becomes(w, [worker[w] EXCEPT !.pc = pc])
Take(w, c) == mtx[c] = "none" /\ mtx' = [mtx EXCEPT ![c] = w]

\* get_two_accounts refuses a request to oneself or to nobody.
Refused(r) == r.type \notin OneAccount /\ (r.target = r.origin \/ r.target \notin Clients)
Two(r) == r.type \notin OneAccount /\ ~Refused(r)
LockOrder_as_named(r) == <<r.origin, r.target>>
LockOrder(r) ==
    IF Two(r) /\ r.target < r.origin THEN <<r.target, r.origin>> ELSE <<r.origin, r.target>>

pop(w) ==
    /\ At(w, "idle") /\ work_queue # <<>> /\ ~is_stopped
    /\ Becomes(w, [worker[w] EXCEPT !.pc = "lock", !.req = Head(work_queue)])
    /\ work_queue' = Tail(work_queue)
    /\ UNCHANGED <<balance, mtx, is_stopped, final, outcome, net, clients>>

get_accounts(w) ==
    LET r == worker[w].req
    IN  /\ \/ At(w, "lock") /\ Take(w, LockOrder(r)[1]) /\ To(w, IF Two(r) THEN "lock2" ELSE "handle")
           \/ At(w, "lock2") /\ Take(w, LockOrder(r)[2]) /\ To(w, "handle")
        /\ UNCHANGED <<balance, work_queue, is_stopped, final, outcome, net, clients>>

\* The handler of r ends with this balance of the origin's account in the response.
Answer(w, ret, amount) ==
    /\ Becomes(w, [worker[w] EXCEPT !.pc = "respond", !.ret = ret, !.amount = amount])
    /\ outcome' = [outcome EXCEPT ![worker[w].req.origin] =
                     [req |-> worker[w].req, success |-> ret = 0, amount |-> amount]]

\* The handlers read the balance and write it back, two steps under the mutex.
Load(w, pc) == Becomes(w, [worker[w] EXCEPT !.pc = pc, !.held = balance[worker[w].req.origin]])
Store(c, n) == balance' = [balance EXCEPT ![c] = n]

handle_balance(w, r) ==
    /\ r.type = "BALANCE" /\ At(w, "handle")
    /\ Answer(w, 0, balance[r.origin])
    /\ UNCHANGED <<balance, net>>

handle_deposit(w, r) ==
    /\ r.type = "DEPOSIT"
    /\ \/ At(w, "handle") /\ Load(w, "store") /\ UNCHANGED <<balance, outcome, net>>
       \/ /\ At(w, "store")
          /\ Store(r.origin, (worker[w].held + r.amount) % Modulus)
          /\ Answer(w, 0, (worker[w].held + r.amount) % Modulus)
          /\ net' = (net + r.amount) % Modulus

handle_withdraw(w, r) ==
    /\ r.type = "WITHDRAWAL"
    /\ \/ /\ At(w, "handle") /\ r.amount > balance[r.origin]
          /\ Answer(w, -1, balance[r.origin]) /\ UNCHANGED <<balance, net>>
       \/ /\ At(w, "handle") /\ r.amount <= balance[r.origin]
          /\ Load(w, "store") /\ UNCHANGED <<balance, outcome, net>>
       \/ /\ At(w, "store")
          /\ Store(r.origin, (worker[w].held - r.amount) % Modulus)
          /\ Answer(w, 0, (worker[w].held - r.amount) % Modulus)
          /\ net' = (net - r.amount) % Modulus

insufficient_or_equal(r) == balance[r.origin] <= r.amount
insufficient(r) == balance[r.origin] < r.amount

handle_pay(w, r) ==
    /\ r.type = "PAYMENT"
    /\ \/ /\ At(w, "handle") /\ insufficient(r)
          /\ Answer(w, -1, balance[r.origin]) /\ UNCHANGED balance
       \/ /\ At(w, "handle") /\ ~insufficient(r)
          /\ Load(w, "store") /\ UNCHANGED <<balance, outcome>>
       \/ /\ At(w, "store")
          /\ Store(r.origin, (worker[w].held - r.amount) % Modulus)
          /\ To(w, "credit") /\ UNCHANGED outcome
       \/ /\ At(w, "credit")
          /\ Store(r.target, (balance[r.target] + r.amount) % Modulus)
          /\ Answer(w, 0, balance[r.origin])
    /\ UNCHANGED net

handle_charge(w, r) ==
    /\ r.type = "CHARGE" /\ At(w, "handle")
    /\ Answer(w, 0, balance[r.origin])
    /\ UNCHANGED <<balance, net>>

\* The response says that the request failed; its amount is never set.
handle_missing_clients(w) ==
    /\ At(w, "handle")
    /\ \E garbage \in Amounts :
          Becomes(w, [worker[w] EXCEPT !.pc = "respond", !.ret = -1, !.amount = garbage])
    /\ UNCHANGED <<balance, outcome, net>>

handle(w) ==
    LET r == worker[w].req
    IN  /\ IF Refused(r) THEN handle_missing_clients(w)
           ELSE \/ handle_balance(w, r) \/ handle_deposit(w, r) \/ handle_withdraw(w, r)
                \/ handle_pay(w, r) \/ handle_charge(w, r)
        /\ UNCHANGED <<mtx, work_queue, is_stopped, final, clients>>

send_response(w) ==
    LET x == worker[w]
    IN  /\ At(w, "respond")
        /\ response' = [response EXCEPT ![x.req.origin] =
                          Append(@, [success |-> x.ret = 0, amount |-> x.amount])]
        /\ To(w, "notify")
        /\ UNCHANGED <<balance, mtx, work_queue, is_stopped, final, outcome, net,
                       user, notification_queue, commands>>

\* A payment made and a charge are told to the target; then the accounts are unlocked.
send_notification(w) ==
    LET r == worker[w].req
        told == Two(r) /\ worker[w].ret = 0
        n == [type |-> IF r.type = "PAYMENT" THEN "PAYMENT_NOTIFICATION"
                       ELSE "CHARGE_REQUEST_NOTIFICATION",
              origin |-> r.origin, amount |-> r.amount]
    IN  /\ At(w, "notify")
        /\ notification_queue' = IF told
              THEN [notification_queue EXCEPT ![r.target] = Append(@, n)]
              ELSE notification_queue
        /\ mtx' = [c \in Clients |-> IF mtx[c] = w THEN "none" ELSE mtx[c]]
        /\ Becomes(w, Idle)
        /\ UNCHANGED <<balance, work_queue, is_stopped, final, outcome, net,
                       user, response, commands>>

\* stop(): the queue is flushed and the workers finish what they have in hand; then the
\* connections are closed and the accounts emptied into final_balances.
stop_begin ==
    /\ ~is_stopped /\ is_stopped' = TRUE /\ work_queue' = <<>>
    /\ UNCHANGED <<balance, mtx, worker, final, outcome, net, clients>>
stop_end_early ==
    /\ is_stopped /\ final = <<>>
    /\ final' = <<balance>>
    /\ UNCHANGED <<balance, mtx, work_queue, worker, is_stopped, outcome, net, clients>>
stop_end ==
    /\ is_stopped /\ final = <<>> /\ \A w \in Workers : At(w, "idle")
    /\ final' = <<balance>>
    /\ UNCHANGED <<balance, mtx, work_queue, worker, is_stopped, outcome, net, clients>>

-----------------------------------------------------------------------------

Init ==
    /\ balance = Opening /\ mtx = [c \in Clients |-> "none"]
    /\ work_queue = <<>> /\ worker = [w \in Workers |-> Idle]
    /\ is_stopped = FALSE /\ final = <<>>
    /\ user = [c \in Clients |-> [pc |-> "prompt", ns |-> <<>>]]
    /\ response = [c \in Clients |-> <<>>] /\ notification_queue = [c \in Clients |-> <<>>]
    /\ commands = [c \in Clients |-> 0]
    /\ outcome = [c \in Clients |-> [req |-> [type |-> "none"]]]
    /\ net = SumFunction(balance) % Modulus

Work(w) == pop(w) \/ get_accounts(w) \/ handle(w) \/ send_response(w) \/ send_notification(w)
Client(c) == handle_command(c) \/ leave(c) \/ make_request_returns(c) \/ show_notification(c)

Next == (\E w \in Workers : Work(w)) \/ (\E c \in Clients : Client(c)) \/ stop_begin \/ stop_end

\* Threads run, mutexes are granted sooner or later; users need not type anything.
Fairness ==
    /\ \A w \in Workers : SF_vars(Work(w))
    /\ \A c \in Clients : WF_vars(make_request_returns(c))
    /\ WF_vars(stop_end)
Spec == Init /\ [][Next]_vars /\ Fairness

-----------------------------------------------------------------------------
(* Properties.                                                             *)

\* Money between the two accounts of a payment under way.
InFlight(c) == LET ws == {w \in Workers : At(w, "credit") /\ worker[w].req.origin = c}
               IN  IF ws = {} THEN 0 ELSE worker[CHOOSE w \in ws : TRUE].req.amount

TheLedger == INSTANCE Ledger WITH
    funds <- [c \in Clients |-> balance[c] + InFlight(c)]

\* The handlers of several workers, each a sequence of reads and writes of balances under
\* the accounts' mutexes, are requests executed one at a time: no update is lost, no balance
\* passes below zero, and the balance in a response is the one its request led to.
RefinesLedger == TheLedger!Spec

\* Balances and the money under way are what was deposited less what was withdrawn, modulo
\* Modulus, and so are the balances stop() returns: it interrupts no payment.
MoneyConserved ==
    /\ SumFunction([c \in Clients |-> balance[c] + InFlight(c)]) % Modulus = net
    /\ final # <<>> => SumFunction(final[1]) % Modulus = net

\* A command that was sent is answered, or the server stops: two workers that lock the same
\* two accounts do not wait for each other.
CommandsAnswered == \A c \in Clients : user[c].pc \in {"waiting", "paying"}
                                         ~> user[c].pc \notin {"waiting", "paying"}
=============================================================================
