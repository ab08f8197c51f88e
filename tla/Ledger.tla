------------------------------- MODULE Ledger -------------------------------
(***************************************************************************)
(* What the Vunmo server promises about money: requests take effect one at *)
(* a time.  A balance is a number below Modulus; no balance goes below     *)
(* zero, and one that grows past the end starts again from zero.           *)
(***************************************************************************)
EXTENDS Integers

CONSTANTS Clients, Modulus, Requests
VARIABLES
    funds,     \* each client's money
    outcome    \* what the last request of each client came to

\* Amount a goes from the funds of one client, and to those of another.
Without(f, c, a) == [f EXCEPT ![c] = @ - a]
With(f, c, a) == [f EXCEPT ![c] = (@ + a) % Modulus]

Covered(r) == r.amount <= funds[r.origin]

\* The funds after request r.
After(r) ==
    CASE r.type = "DEPOSIT" -> With(funds, r.origin, r.amount)
      [] r.type = "WITHDRAWAL" /\ Covered(r) -> Without(funds, r.origin, r.amount)
      [] r.type = "PAYMENT" /\ Covered(r) ->
            With(Without(funds, r.origin, r.amount), r.target, r.amount)
      [] OTHER -> funds

Granted(r) == r.type \in {"WITHDRAWAL", "PAYMENT"} => Covered(r)

Init == funds \in [Clients -> 0..(Modulus - 1)] /\ outcome = [c \in Clients |-> [req |-> [type |-> "none"]]]

\* r takes effect, and its client is told the balance after it.
Execute(r) ==
    /\ funds' = After(r)
    /\ outcome' = [outcome EXCEPT ![r.origin] =
                     [req |-> r, success |-> Granted(r), amount |-> After(r)[r.origin]]]

Next == \E c \in Clients : outcome'[c].req \in Requests /\ Execute(outcome'[c].req)
Spec == Init /\ [][Next]_<<funds, outcome>>
=============================================================================
