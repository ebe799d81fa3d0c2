----------------------------- MODULE IdemStore -----------------------------
(***************************************************************************)
(* libs/go/idem: the middleware around every handler that writes, for the  *)
(* requests that carry one Idempotency-Key to one endpoint (a row of       *)
(* idempotency_keys each; rows do not meet).  A request claims the key in  *)
(* one statement and learns in another why it could not; the handler runs  *)
(* with no lock and no transaction, for as long as it likes; what it       *)
(* answered is stored, or the key is given up, in a third statement, which *)
(* only the token, the row's created_at, ties to the first.  Every call    *)
(* may fail or lose its reply, and the process may die anywhere.           *)
(***************************************************************************)
EXTENDS Integers

CONSTANTS
    Request,           \* HTTP requests with this key to this endpoint
    Valid,             \* those whose header and body serve accepts
    Hash,              \* Hash[r]: content and caller of r, as hashRequest
    TTL,               \* config.ttl
    Lease,             \* config.lease
    MaxBeginAttempts,  \* maxBeginAttempts
    EndOfTime          \* bound of the model, see the README

ASSUME IdemAssumption ==
    /\ Valid \subseteq Request
    /\ TTL \in Nat \ {0} /\ Lease \in Nat \ {0}
    /\ MaxBeginAttempts \in Nat \ {0} /\ EndOfTime \in Nat

VARIABLES
    clock,   \* now() of Postgres
    table,   \* idempotency_keys: the row of this key, if there is one
    stage,   \* stage[r]: where serve is with r, or what it answered
    tries,   \* tries[r]: rounds of Begin that found no row to read
    token,   \* token[r]: the created_at that Begin returned
    fate,    \* history, fate[r]: what came of the key in r's hand
    source   \* history, source[r]: whose response was replayed to r

requestVars == <<stage, tries, token, fate, source>>
idemVars == <<clock, table, requestVars>>

-----------------------------------------------------------------------------
(* Begin.  The key can be had when there is no row, when the row expired,  *)
(* and when its owner has not finished within the lease.                   *)
LeaseOver(k) == k.response = {} /\ k.created + Lease <= clock
Claimable == \A k \in table : k.expires <= clock \/ LeaseOver(k)

Claimed(r) == [hash |-> Hash[r], response |-> {},
               created |-> clock, expires |-> clock + TTL]

(* The reply may be lost, because the client has gone: the row stays.      *)
Claim(r) ==
    /\ stage[r] = "begin"
    /\ Claimable
    /\ table' = {Claimed(r)}
    /\ \/ /\ stage' = [stage EXCEPT ![r] = "running"]
          /\ token' = [token EXCEPT ![r] = clock]
          /\ fate' = [fate EXCEPT ![r] = "held"]
       \/ /\ stage' = [stage EXCEPT ![r] = "unavailable"]
          /\ UNCHANGED <<token, fate>>
    /\ UNCHANGED <<clock, tries, source>>

NotClaimed(r) ==
    /\ stage[r] = "begin"
    /\ ~Claimable
    /\ stage' = [stage EXCEPT ![r] = "refused"]
    /\ UNCHANGED <<clock, table, tries, token, fate, source>>

(* By now the row may be another one, or gone.                             *)
Whoever(k, r) == TRUE   \* mutant: the hash is not compared
SameRequest(k, r) == k.hash = Hash[r]

Peek(r) ==
    /\ stage[r] = "refused"
    /\ \E k \in table :
          \/ /\ ~SameRequest(k, r)
             /\ stage' = [stage EXCEPT ![r] = "reused"]
             /\ UNCHANGED source
          \/ /\ SameRequest(k, r) /\ k.response = {}
             /\ stage' = [stage EXCEPT ![r] = "in_progress"]
             /\ UNCHANGED source
          \/ /\ SameRequest(k, r) /\ k.response # {}
             /\ stage' = [stage EXCEPT ![r] = "replayed"]
             /\ source' = [source EXCEPT ![r] = k.response]
    /\ UNCHANGED <<clock, table, tries, token, fate>>

PeekFindsNothing(r) ==
    /\ stage[r] = "refused"
    /\ table = {}
    /\ tries' = [tries EXCEPT ![r] = @ + 1]
    /\ stage' = [stage EXCEPT ![r] =
           IF tries[r] + 1 < MaxBeginAttempts THEN "begin" ELSE "unavailable"]
    /\ UNCHANGED <<clock, table, token, fate, source>>

BeginFails(r) ==
    /\ stage[r] \in {"begin", "refused"}
    /\ stage' = [stage EXCEPT ![r] = "unavailable"]
    /\ UNCHANGED <<clock, table, tries, token, fate, source>>

-----------------------------------------------------------------------------
(* run.  A response below 500 is a result, everything else is not.         *)
HandlerEnds(r) ==
    /\ stage[r] = "running"
    /\ \E outcome \in {"result", "no_result"} :
          stage' = [stage EXCEPT ![r] = outcome]
    /\ UNCHANGED <<clock, table, tries, token, fate, source>>

Owned(r) == {k \in table : k.created = token[r]}
Unfinished(r) == {k \in table : k.response = {}}   \* mutant: without token
OwnUnfinished(r) == {k \in Owned(r) : k.response = {}}

(* ErrLeaseLost: no row is affected.  The client gets its response anyway. *)
Complete(r) ==
    LET affected == OwnUnfinished(r) IN
    /\ stage[r] = "result"
    /\ table' = (table \ affected)
                   \cup {[k EXCEPT !.response = {r}] : k \in affected}
    /\ fate' = [fate EXCEPT ![r] = IF affected = {} THEN @ ELSE "stored"]
    /\ stage' = [stage EXCEPT ![r] = "answered"]
    /\ UNCHANGED <<clock, tries, token, source>>

(* The DELETE does not look at status_code.                                *)
Abandon(r) ==
    /\ stage[r] = "no_result"
    /\ table' = table \ Owned(r)
    /\ fate' = [fate EXCEPT ![r] = IF Owned(r) = {} THEN @ ELSE "given_up"]
    /\ stage' = [stage EXCEPT ![r] = "answered"]
    /\ UNCHANGED <<clock, tries, token, source>>

FinishFails(r) ==
    /\ stage[r] \in {"result", "no_result"}
    /\ stage' = [stage EXCEPT ![r] = "answered"]
    /\ UNCHANGED <<clock, table, tries, token, fate, source>>

ProcessDies(r) ==
    /\ stage[r] \in {"begin", "refused", "running", "result", "no_result"}
    /\ stage' = [stage EXCEPT ![r] = "dead"]
    /\ UNCHANGED <<clock, table, tries, token, fate, source>>

TimePasses ==
    /\ clock < EndOfTime
    /\ clock' = clock + 1
    /\ UNCHANGED <<table, requestVars>>

-----------------------------------------------------------------------------
IdemInit ==
    /\ clock = 0
    /\ table = {}
    /\ stage = [r \in Request |-> IF r \in Valid THEN "begin" ELSE "bad"]
    /\ tries = [r \in Request |-> 0]
    /\ token = [r \in Request |-> 0]
    /\ fate = [r \in Request |-> "none"]
    /\ source = [r \in Request |-> {}]

Serve(r) ==
    \/ Claim(r) \/ NotClaimed(r)
    \/ Peek(r) \/ PeekFindsNothing(r) \/ BeginFails(r)
    \/ HandlerEnds(r)
    \/ Complete(r) \/ Abandon(r) \/ FinishFails(r)
    \/ ProcessDies(r)

IdemNext == (\E r \in Request : Serve(r)) \/ TimePasses

IdemSpec == IdemInit /\ [][IdemNext]_idemVars

-----------------------------------------------------------------------------
Place == {"bad", "begin", "refused", "running", "result", "no_result",
          "unavailable", "reused", "in_progress", "replayed", "answered",
          "dead"}
Fate == {"none", "held", "stored", "given_up"}
KeyRow == [hash : {Hash[r] : r \in Request}, response : SUBSET Request,
           created : Nat, expires : Nat]

IdemTypeOK ==
    /\ clock \in Nat
    /\ table \subseteq KeyRow
    /\ \A j, k \in table : j = k   \* PRIMARY KEY (key, endpoint)
    /\ stage \in [Request -> Place]
    /\ tries \in [Request -> 0..MaxBeginAttempts]
    /\ token \in [Request -> Nat]
    /\ fate \in [Request -> Fate]
    /\ source \in [Request -> SUBSET Request]

(* The handlers of two requests ran: one of the two had given the key up,  *)
(* or its time was over when the other one claimed it: the life time of a  *)
(* response that was stored, the lease of one that was not.                *)
Ran == {r \in Request : fate[r] # "none"}
Term(r) == IF fate[r] = "stored" \/ TTL < Lease THEN TTL ELSE Lease
Yields(q, r) == fate[q] = "given_up" \/ token[q] + Term(q) <= token[r]

(* BR-O5 (idem.go:1-2): a request that comes again with the same key does  *)
(* not run the handler again, whoever dies, is late or hears nothing.      *)
RunsApart == \A q, r \in Ran : q # r => Yields(q, r) \/ Yields(r, q)

(* idem.go:12-15: a response that was stored is there to be replayed for   *)
(* as long as it lives, although Abandon's DELETE would remove it, and is  *)
(* replayed to nobody but the same caller with the same content.           *)
ResponsesStand ==
    /\ \A q \in Request : fate[q] = "stored" /\ clock < token[q] + TTL
          => \E k \in table : k.response = {q} /\ k.hash = Hash[q]
    /\ \A r \in Request : \A q \in source[r] :
          fate[q] = "stored" /\ Hash[q] = Hash[r]
=============================================================================
