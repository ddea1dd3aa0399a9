-------------------------------- MODULE Ledger --------------------------------
(***************************************************************************)
(* What the settlement promises about money, and about shares: what a      *)
(* trader has, on hold or not, changes by transfers between two traders    *)
(* alone.  Nobody is ever overdrawn, and no transfer creates or destroys   *)
(* anything.                                                               *)
(***************************************************************************)
EXTENDS Integers

CONSTANT Traders

VARIABLE account

Init == account \in [Traders -> Nat]

Transfer(from, to, amount) ==
    /\ from # to
    /\ amount <= account[from]
    /\ account' = [account EXCEPT ![from] = @ - amount, ![to] = @ + amount]

Next ==
    \E from, to \in Traders :
        \E amount \in 0..account[from] : Transfer(from, to, amount)

Spec == Init /\ [][Next]_account
=============================================================================
