--------------------------- MODULE PriceTimeExchange ---------------------------
(***************************************************************************)
(* What the matching engine promises for one stock: continuous trading     *)
(* with price-time priority.  There are no levels, heaps, queues or locks  *)
(* here, only the orders that were accepted, the order in which they were  *)
(* accepted, and how much of each is open.  An order is matched when it is *)
(* accepted, against the best opposite orders; nobody else trades          *)
(* meanwhile.  Market orders never rest, and a market buy stops where the  *)
(* buyer's balance does not pay for one more share.                        *)
(***************************************************************************)
EXTENDS Integers, Sequences

CONSTANTS Orders, Requests, NoRequest, NoOrder

VARIABLES
    request,    \* what was ordered, NoRequest until it is accepted
    arrivals,   \* the accepted orders, first come first
    open,       \* the quantity an order offers in the book
    taker,      \* the order being matched, or NoOrder
    left,       \* the quantity the taker still wants
    cash,       \* what the taker still has to pay with
    tape        \* the trades, in order

vars == <<request, arrivals, open, taker, left, cash, tape>>

Init ==
    /\ request = [o \in Orders |-> NoRequest]
    /\ arrivals = <<>>
    /\ open = [o \in Orders |-> 0]
    /\ taker = NoOrder
    /\ left = 0
    /\ cash = 0
    /\ tape = <<>>

Accepted(o) == request[o] # NoRequest

Earlier(a, b) ==
    \E i, j \in DOMAIN arrivals : i < j /\ arrivals[i] = a /\ arrivals[j] = b

Offers(side) == {o \in Orders : open[o] > 0 /\ request[o].side = side}

\* a goes before b when both offer on the same side.
Before(a, b) ==
    LET pa == request[a].limit
        pb == request[b].limit
    IN  \/ pa = pb /\ Earlier(a, b)
        \/ IF request[a].side = "Buy" THEN pa > pb ELSE pa < pb

BuysAtMarket == request[taker].type = "Market" /\ request[taker].side = "Buy"

\* The taker and the maker agree on the maker's price.
Agree(maker) ==
    LET price == request[maker].limit
    IN  CASE BuysAtMarket -> cash >= price
          [] request[taker].type = "Market" /\ ~BuysAtMarket -> TRUE
          [] request[taker].type = "Limit" ->
                IF request[taker].side = "Buy"
                THEN price <= request[taker].limit
                ELSE price >= request[taker].limit

Against == IF request[taker].side = "Buy" THEN "Sell" ELSE "Buy"

Counterparties ==
    {m \in Offers(Against) :
        Agree(m) /\ \A other \in Offers(Against) \ {m} : Before(m, other)}

\* An order is accepted when no other is being matched.
Place(o, r) ==
    /\ taker = NoOrder
    /\ ~Accepted(o)
    /\ r.quantity > 0
    /\ request' = [request EXCEPT ![o] = r]
    /\ arrivals' = Append(arrivals, o)
    /\ taker' = o
    /\ left' = r.quantity
    /\ cash' = r.balance
    /\ UNCHANGED <<open, tape>>

\* A trade with the first counterparty, at its price, as large as both sides
\* and a market buyer's cash allow, and never empty.
Trade ==
    /\ taker # NoOrder
    /\ left > 0
    /\ \E maker \in Counterparties :
        LET price == request[maker].limit
            wanted == IF left < open[maker] THEN left ELSE open[maker]
            paid == IF BuysAtMarket /\ cash \div price < wanted
                    THEN cash \div price ELSE wanted
        IN  /\ paid > 0
            /\ open' = [open EXCEPT ![maker] = @ - paid]
            /\ left' = left - paid
            /\ cash' = IF BuysAtMarket THEN cash - price * paid ELSE cash
            /\ tape' = Append(tape,
                  [buyer |-> IF request[taker].side = "Buy" THEN taker ELSE maker,
                   seller |-> IF request[taker].side = "Buy" THEN maker ELSE taker,
                   price |-> price, quantity |-> paid])
    /\ UNCHANGED <<request, arrivals, taker>>

\* Matching ends only when nothing is left or nobody agrees any more.
Settle ==
    /\ taker # NoOrder
    /\ left = 0 \/ Counterparties = {}
    /\ open' = [open EXCEPT ![taker] =
                    IF request[taker].type = "Limit" THEN left ELSE 0]
    /\ taker' = NoOrder
    /\ left' = 0
    /\ cash' = 0
    /\ UNCHANGED <<request, arrivals, tape>>

Withdraw(o) ==
    /\ taker = NoOrder
    /\ open[o] > 0
    /\ open' = [open EXCEPT ![o] = 0]
    /\ UNCHANGED <<request, arrivals, taker, left, cash, tape>>

Next ==
    \/ \E o \in Orders : (\E r \in Requests : Place(o, r)) \/ Withdraw(o)
    \/ Trade
    \/ Settle

Spec == Init /\ [][Next]_vars
=============================================================================
