----------------------------- MODULE CatalogueMC -----------------------------
(* An instance of Catalogue with one event.                                *)
EXTENDS Catalogue

CONSTANTS e1, r1, r2, w1

(* r1 is the organizer, r2 a second tab of his, a moderator or ops.        *)
TwoCallers == [r \in Request |->
    IF r = r1 THEN {"update", "add", "quota", "submit", "cancel"}
              ELSE {"quota", "submit", "approve", "reject", "publish"}]

(* The tiers and the moderation share the event's row and nothing else:    *)
(* quotas change and tickets are sold where no job is under way and what   *)
(* was judged was approved.  Two requests meet before a job is published,  *)
(* later one meets the AI worker; after a failure nobody asks for more.    *)
Busy == {r \in Request : request[r] # Idle}
Judging == \E w \in Worker : worker[w] # Free
Resizing ==
    \/ \E r \in Request : request[r].op \in {"quota", "add"}
    \/ \E e \in Event : tier[e].quota = 2 \/ sold[e] > 0
Apart ==
    /\ published # {} => Cardinality(Busy) <= 1
    /\ faults > 0 => Busy = {} /\ Len(outbox) <= 1
    /\ Resizing =>
           /\ BagToSet(queue) = {} /\ ~Judging /\ dlq = {} /\ faults = 0
           /\ \A i \in DOMAIN review : /\ review[i].verdict = "AUTO_APPROVED"
                                       /\ review[i].human = "none"
    /\ Len(review) <= 2
    /\ \A e \in Event : sold[e] <= 1
=============================================================================
