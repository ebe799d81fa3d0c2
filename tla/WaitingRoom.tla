---------------------------- MODULE WaitingRoom ----------------------------
(***************************************************************************)
(* The waiting room of one event: the keys wr:{ev}:* with the scripts that *)
(* change them, customers who join, and the controllers of several         *)
(* instances, of which the leader runs the lottery and lets people in.     *)
(*                                                                         *)
(* A customer has one token for as long as the keys live, so the model     *)
(* puts customers where Redis puts tokens.  Servers read their own clocks, *)
(* which are off by Skew at most.  How many people one tick lets in is the *)
(* matter of AdmitController.                                              *)
(***************************************************************************)
EXTENDS LeaderLease, Sequences, SequencesExt

CONSTANTS
    Customer,
    T0,          \* sale_start_at as it was first planned
    MaxClock,    \* bound of the model, see the README
    Skew,
    MaxBatch,    \* the largest batch of one tick
    Schedule     \* what may happen to T0: "unpublished", "reschedule"

ASSUME RoomAssumption ==
    /\ IsFiniteSet(Customer)
    /\ MaxClock \in Nat /\ T0 \in 1..MaxClock
    /\ Skew \in Nat
    /\ MaxBatch \in Nat \ {0}
    /\ Schedule \subseteq {"unpublished", "reschedule"}

VARIABLES
    clock,
    saleStart,  \* meta.sale_start_ms, Absent before it is published
    shuffled,   \* meta.shuffled
    stock,      \* meta.stock_zero and meta.sold_out
    joined,     \* tok: customers who have a token
    lobby,      \* lobby
    queue,      \* queue, in the order of its scores
    fifo,       \* tokens whose score has the offset 1e12
    admitted,   \* admitted, expire_at still ahead
    lapsed,     \* admitted once, expire_at passed
    work,       \* work[i]: what the controller of the leader i does
    known       \* known[i]: the sale start it read

keys == <<saleStart, shuffled, stock, joined, lobby, queue, fifo, admitted,
          lapsed>>
roomVars == <<clock, keys, work, known>>
vars == <<leaseVars, roomVars>>

Absent == 0
StockFlags == {"on_sale", "stock_zero", "sold_out"}
Work == {"begin", "wait", "tick"}

(* What some server's clock may show.                                      *)
Shown == (clock - Skew)..(clock + Skew)

Ahead(x, y) ==
    \E m, n \in DOMAIN queue : m < n /\ queue[m] = x /\ queue[n] = y

RoomInit ==
    /\ LeaseInit
    /\ clock = 0
    /\ saleStart = IF "unpublished" \in Schedule THEN Absent ELSE T0
    /\ shuffled = FALSE
    /\ stock = "on_sale"
    /\ joined = {} /\ lobby = {} /\ queue = <<>> /\ fifo = {}
    /\ admitted = {} /\ lapsed = {}
    /\ work = [i \in Instance |-> "begin"]
    /\ known = [i \in Instance |-> Absent]

-----------------------------------------------------------------------------
(* join.lua.  Whoever has a token is told where it is, and nothing changes *)
(* A sale start that is not there counts as 0.                             *)
ClockOnly(t) == t < saleStart   \* mutant: the lottery is not looked at
Early(t) == t < saleStart /\ ~shuffled

Unregistered(c) == TRUE   \* mutant: the token is not looked up
New(c) == c \notin joined

Join(c) ==
    /\ New(c)
    /\ stock # "sold_out"
    /\ joined' = joined \cup {c}
    /\ \E t \in Shown :
          \/ /\ Early(t)
             /\ lobby' = lobby \cup {c}
             /\ UNCHANGED <<queue, fifo>>
          \/ /\ ~Early(t)
             /\ queue' = Append(queue, c)
             /\ fifo' = fifo \cup {c}
             /\ UNCHANGED lobby
    /\ UNCHANGED <<leaseVars, clock, saleStart, shuffled, stock, admitted,
                   lapsed, work, known>>

(* shuffle.lua gives the scores 1..n, below every score of join.lua.       *)
WithoutOffset(ranks) == queue \o ranks   \* mutant: 1e12 left out
LotteryFirst(ranks) == ranks \o queue

Shuffle ==
    \/ /\ ~shuffled
       /\ \E ranks \in SetToSeqs(lobby) : queue' = LotteryFirst(ranks)
       /\ lobby' = {}
       /\ shuffled' = TRUE
    \/ shuffled /\ UNCHANGED <<queue, lobby, shuffled>>

(* admit.lua: ZPOPMIN, unless ticketing says that there is nothing to sell *)
PopOnly(n) ==   \* mutant: the popped are not kept in admitted
    /\ queue' = SubSeq(queue, n + 1, Len(queue))
    /\ UNCHANGED admitted
PopMax(n) ==   \* mutant: ZPOPMAX
    /\ queue' = SubSeq(queue, 1, Len(queue) - n)
    /\ admitted' = admitted \cup ToSet(SubSeq(queue, Len(queue) - n + 1,
                                              Len(queue)))
Pop(n) ==
    /\ queue' = SubSeq(queue, n + 1, Len(queue))
    /\ admitted' = admitted \cup ToSet(SubSeq(queue, 1, n))

AdmitBatch(batch) ==
    IF stock = "on_sale"
    THEN Pop(IF batch < Len(queue) THEN batch ELSE Len(queue))
    ELSE UNCHANGED <<queue, admitted>>

(* The fifteen minutes of an admitted customer are over.                   *)
SlotLapses(c) ==
    /\ c \in admitted
    /\ admitted' = admitted \ {c}
    /\ lapsed' = lapsed \cup {c}
    /\ UNCHANGED <<leaseVars, clock, saleStart, shuffled, stock, joined, lobby,
                   queue, fifo, work, known>>

-----------------------------------------------------------------------------
(* A term of the controller.                                               *)
GoOn(i, step) == work' = [work EXCEPT ![i] = step]

Elected(i) ==
    /\ Acquire(i)
    /\ GoOn(i, "begin")
    /\ UNCHANGED <<clock, keys, known>>

(* The sale start is polled until it is there, and read once.              *)
ReadSaleStart(i) ==
    /\ leading[i] # NoTerm /\ work[i] = "begin"
    /\ saleStart # Absent
    /\ known' = [known EXCEPT ![i] = saleStart]
    /\ GoOn(i, "wait")
    /\ UNCHANGED <<leaseVars, clock, keys>>

Impatient(i) ==   \* mutant: the wait is rounded down
    \E t \in Shown : t + 1 >= known[i]
Waited(i) == \E t \in Shown : t >= known[i]

Lottery(i) ==
    /\ work[i] = "wait"
    /\ Waited(i)
    /\ Write(i)
    /\ Shuffle
    /\ GoOn(i, "tick")
    /\ UNCHANGED <<clock, saleStart, stock, joined, fifo, admitted, lapsed,
                   known>>

Tick(i) ==
    /\ work[i] = "tick"
    /\ Write(i)
    /\ \E batch \in 1..MaxBatch : AdmitBatch(batch)
    /\ UNCHANGED <<clock, saleStart, shuffled, stock, joined, lobby, fifo,
                   lapsed, work, known>>

(* FENCED ends the term, and so does any error of the lottery; other       *)
(* errors of a tick are logged.                                            *)
Refused(i) ==
    /\ \/ work[i] = "wait" /\ Waited(i)
       \/ work[i] = "tick"
    /\ leading[i] # NoTerm /\ ~EpochHolds(i)
    /\ EndTerm(i)
    /\ UNCHANGED <<faults, roomVars>>

LotteryFails(i) ==
    /\ work[i] = "wait" /\ Waited(i)
    /\ Fault
    /\ EndTerm(i)
    /\ UNCHANGED roomVars

-----------------------------------------------------------------------------
(* Ticketing publishes the sale start, and follows the organizer as long   *)
(* as the published one has not passed, by a clock read before the write.  *)
PublishSaleStart(t) ==
    /\ \/ saleStart = Absent
       \/ /\ "reschedule" \in Schedule
          /\ saleStart # t
          /\ \E shown \in Shown : shown < saleStart
    /\ saleStart' = t
    /\ UNCHANGED <<leaseVars, clock, shuffled, stock, joined, lobby, queue,
                   fifo, admitted, lapsed, work, known>>

SetSaleState(s) ==
    /\ stock # s
    /\ stock' = s
    /\ UNCHANGED <<leaseVars, clock, saleStart, shuffled, joined, lobby, queue,
                   fifo, admitted, lapsed, work, known>>

ClockTick ==
    /\ clock < MaxClock
    /\ clock' = clock + 1
    /\ UNCHANGED <<leaseVars, keys, work, known>>

Lease(i) ==
    /\ AcquireReplyLost(i) \/ StepDown(i) \/ LeaderCrash(i)
    /\ UNCHANGED roomVars

Controller(i) ==
    \/ Elected(i)
    \/ ReadSaleStart(i)
    \/ Lottery(i)
    \/ Tick(i)
    \/ Refused(i)
    \/ LotteryFails(i)

RoomNext ==
    \/ \E c \in Customer : Join(c) \/ SlotLapses(c)
    \/ \E i \in Instance : Controller(i) \/ Lease(i)
    \/ (LeaseExpires \/ EpochLost) /\ UNCHANGED roomVars
    \/ \E t \in 1..MaxClock : PublishSaleStart(t)
    \/ \E s \in StockFlags : SetSaleState(s)
    \/ ClockTick

RoomSpec == RoomInit /\ [][RoomNext]_vars

(* The clock moves on, leases end, and an instance that may act does: its  *)
(* loop runs on a ticker whatever happened before.                         *)
RoomFairness ==
    /\ WF_vars(ClockTick)
    /\ WF_vars(LeaseExpires /\ UNCHANGED <<faults, roomVars>>)
    /\ \A i \in Instance :
          /\ WF_vars(Elected(i))
          /\ WF_vars(ReadSaleStart(i))
          /\ WF_vars(Lottery(i))
          /\ WF_vars(Tick(i))
          /\ WF_vars(Refused(i))
          /\ WF_vars(StepDown(i) /\ UNCHANGED <<faults, roomVars>>)

FairRoomSpec == RoomSpec /\ RoomFairness

(* Customers who keep asking for a place until they are given one.         *)
KeenRoomSpec == FairRoomSpec /\ \A c \in Customer : WF_vars(Join(c))

-----------------------------------------------------------------------------
RoomTypeOK ==
    /\ LeaseTypeOK
    /\ clock \in 0..MaxClock
    /\ saleStart \in 0..MaxClock
    /\ shuffled \in BOOLEAN
    /\ stock \in StockFlags
    /\ joined \subseteq Customer
    /\ lobby \subseteq Customer
    /\ queue \in Seq(Customer)
    /\ fifo \subseteq Customer
    /\ admitted \subseteq Customer
    /\ lapsed \subseteq Customer
    /\ work \in [Instance -> Work]
    /\ known \in [Instance -> 0..MaxClock]

(* BR-Q3: one person, one place, whoever leads and however often the       *)
(* lottery and the ticks are run again.                                    *)
OnePlace ==
    /\ IsInjective(queue)
    /\ lobby \cap ToSet(queue) = {}
    /\ (lobby \cup ToSet(queue)) \cap (admitted \cup lapsed) = {}

(* BR-Q1: nobody is left behind in a lobby that will not be drawn again,   *)
(* although a server whose clock is late still sees the time before T0.    *)
NobodyStranded == shuffled => lobby = {}

(* BR-Q2: nobody who came after the sale began is let in while somebody of *)
(* the lottery still waits.                                                *)
LotteryFirstIn ==
    fifo \cap (admitted \cup lapsed) # {} =>
        (lobby \cup ToSet(queue)) \subseteq fifo

(* BR-Q5.7: a rank once given is kept, and nobody is let in before         *)
(* somebody who is ahead, with any number of controllers in turn.          *)
RanksKept ==
    [][\A x, y \in Customer :
          Ahead(x, y) => \/ Ahead(x, y)'
                         \/ x \notin ToSet(queue')]_vars

(* BR-Q1: before the sale starts nobody has a rank or is let in.           *)
NothingBeforeSale ==
    queue # <<>> \/ admitted # {} => clock + Skew >= saleStart

(* BR-Q5.6: nobody is forgotten: whoever waits is let in, as long as there *)
(* is something to sell, over crashes, pauses and changes of the leader.   *)
NobodyForgotten ==
    <>[](stock = "on_sale") =>
        \A c \in Customer :
            c \in lobby \cup ToSet(queue) ~> c \in admitted \cup lapsed

(* docs/01-nghiep-vu.md, life cycle of 2.2: who let the time of the        *)
(* admission pass has to queue again (if the customer asks to).            *)
LapsedMayQueueAgain ==
    \A c \in Customer :
        c \in lapsed ~> c \in lobby \cup ToSet(queue) \/ stock = "sold_out"
=============================================================================
