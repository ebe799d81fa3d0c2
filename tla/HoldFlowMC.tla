----------------------------- MODULE HoldFlowMC -----------------------------
(***************************************************************************)
(* Small sales for TLC.  Two or three requests, of one customer or of two, *)
(* compete for one bucket; the first of them asks for two tickets, and     *)
(* where a run has a payment it pays for that one.                         *)
(***************************************************************************)
EXTENDS HoldFlow, TLC

CONSTANTS o1, o2, alice, bob

OneCustomer == [o \in Order |-> alice]
TwoCustomers == [o \in Order |-> IF o = o2 THEN bob ELSE alice]
MCQty == [o \in Order |-> IF o = o1 THEN 2 ELSE 1]
Singles == [o \in Order |-> 1]
MCPayFor == [p \in Payment |-> o1]

(* One bucket, with the tickets of some requests or of all of them.        *)
Scarce == [b \in Bucket |-> 2]
Plenty == [b \in Bucket |-> 4]

(* Requests of one customer for one ticket each cannot be told apart.      *)
Requests == Permutations(Order)
=============================================================================
