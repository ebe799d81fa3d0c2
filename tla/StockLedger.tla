---------------------------- MODULE StockLedger ----------------------------
(***************************************************************************)
(* What the stock of a ticket type promises, with no counter to keep:      *)
(* an attempt claims tickets of one bucket while enough of them are free,  *)
(* and a claim either ends in a sale or goes back, once and for good.      *)
(***************************************************************************)
EXTENDS Orders

VARIABLES
    claim,   \* claim[o]: what became of the tickets attempt o asked for
    place    \* place[o]: the bucket they were taken from

ledgerVars == <<claim, place>>

ClaimStatus == {"none", "claimed", "sold", "returned"}

(* The tickets of bucket b that nobody claims: the rest of the capacity.   *)
Taken(b) == {o \in Order : claim[o] \in {"claimed", "sold"} /\ place[o] = b}
Free(b) == Capacity[b] - Tickets(Taken(b))

LedgerInit ==
    /\ claim = [o \in Order |-> "none"]
    /\ place = [o \in Order |-> NoBucket]

Claim(o, b) ==
    /\ claim[o] = "none"
    /\ Free(b) >= Qty[o]
    /\ claim' = [claim EXCEPT ![o] = "claimed"]
    /\ place' = [place EXCEPT ![o] = b]

Return(o) ==
    /\ claim[o] = "claimed"
    /\ claim' = [claim EXCEPT ![o] = "returned"]
    /\ UNCHANGED place

Sell(o) ==
    /\ claim[o] = "claimed"
    /\ claim' = [claim EXCEPT ![o] = "sold"]
    /\ UNCHANGED place

LedgerNext ==
    \E o \in Order :
        \/ \E b \in Bucket : Claim(o, b)
        \/ Return(o)
        \/ Sell(o)

LedgerSpec == LedgerInit /\ [][LedgerNext]_ledgerVars
=============================================================================
