------------------------- MODULE WaitingRoomProofs -------------------------
(***************************************************************************)
(* Proofs about the waiting room, for every number of customers, instances *)
(* and faults and for every course of the clocks: its controllers are      *)
(* leaders of LeaderLease, and every customer has one place.               *)
(***************************************************************************)
EXTENDS WaitingRoom, LeaderLeaseProofs, SequenceTheorems, FiniteSetTheorems

-----------------------------------------------------------------------------
(* The room and its controllers only ever use the lease as it may be used. *)
LEMMA RoomStepIsLeaseStep ==
  ASSUME [RoomNext]_vars
  PROVE  [LeaseNext]_leaseVars
<1>1. CASE \E c \in Customer : Join(c) \/ SlotLapses(c)
  BY <1>1 DEF Join, SlotLapses
<1>2. ASSUME NEW i \in Instance, Controller(i)
      PROVE  [LeaseNext]_leaseVars
  <2>1. CASE Elected(i)
    BY <2>1 DEF Elected, LeaseNext, Term
  <2>2. CASE ReadSaleStart(i)
    BY <2>2 DEF ReadSaleStart
  <2>3. CASE Lottery(i) \/ Tick(i)
    BY <2>3 DEF Lottery, Tick, LeaseNext
  <2>4. CASE Refused(i)
    BY <2>4 DEF Refused, LeaseNext
  <2>5. CASE LotteryFails(i)
    BY <2>5 DEF LotteryFails, LeaseNext
  <2> QED
    BY <1>2, <2>1, <2>2, <2>3, <2>4, <2>5 DEF Controller
<1>3. ASSUME NEW i \in Instance, Lease(i)
      PROVE  [LeaseNext]_leaseVars
  BY <1>3 DEF Lease, LeaseNext, Term
<1>4. CASE (LeaseExpires \/ EpochLost) /\ UNCHANGED roomVars
  BY <1>4 DEF LeaseNext
<1>5. CASE \/ \E t \in 1..MaxClock : PublishSaleStart(t)
           \/ \E s \in StockFlags : SetSaleState(s)
           \/ ClockTick
  BY <1>5 DEF PublishSaleStart, SetSaleState, ClockTick
<1>6. CASE UNCHANGED vars
  BY <1>6 DEF vars
<1> QED
  BY <1>1, <1>2, <1>3, <1>4, <1>5, <1>6 DEF RoomNext

(* Every behaviour of the waiting room is one of the lease.                *)
THEOREM RoomImplementsLease == RoomSpec => LeaseSpec
<1>1. RoomInit => LeaseInit
  BY DEF RoomInit
<1>2. [RoomNext]_vars => [LeaseNext]_leaseVars
  BY RoomStepIsLeaseStep
<1> QED
  BY <1>1, <1>2, PTL DEF RoomSpec, LeaseSpec

(* Hence lotteries and ticks are accepted in the order of the terms.       *)
THEOREM RoomWritesInOrder == RoomSpec => WritesInOrderOfTerms
BY RoomImplementsLease, LeadersWriteInOrder, PTL

-----------------------------------------------------------------------------
(* Queues without repetitions: a newcomer at the end, the lottery in front *)
(* of the queue, and a batch taken off its head.                           *)
LEMMA NewcomerAtEnd ==
  ASSUME NEW s \in Seq(Customer), IsInjective(s),
         NEW c \in Customer, c \notin ToSet(s)
  PROVE  /\ Append(s, c) \in Seq(Customer)
         /\ IsInjective(Append(s, c))
         /\ ToSet(Append(s, c)) = ToSet(s) \cup {c}
         /\ DOMAIN Append(s, c) = 1..(Len(s) + 1)
         /\ \A m \in 1..Len(s) : Append(s, c)[m] = s[m]
         /\ Append(s, c)[Len(s) + 1] = c
<1> DEFINE t == Append(s, c)
<1>1. /\ t \in Seq(Customer)
      /\ Len(t) = Len(s) + 1
      /\ \A m \in 1..Len(s) : t[m] = s[m]
      /\ t[Len(s) + 1] = c
  BY AppendProperties
<1>2. Len(s) \in Nat /\ DOMAIN s = 1..Len(s) /\ DOMAIN t = 1..(Len(s) + 1)
  BY <1>1, LenProperties
<1> HIDE DEF t
<1>3. \A m \in DOMAIN s : s[m] # c
  BY DEF ToSet
<1>4. IsInjective(t)
  BY <1>1, <1>2, <1>3 DEF IsInjective
<1>5. ToSet(t) = ToSet(s) \cup {c}
  BY <1>1, <1>2 DEF ToSet
<1> QED
  BY <1>1, <1>2, <1>4, <1>5 DEF t

(* Two lines without repetitions and without a common member make one.     *)
LEMMA LotteryInFront ==
  ASSUME NEW r \in Seq(Customer), IsInjective(r),
         NEW s \in Seq(Customer), IsInjective(s),
         ToSet(r) \cap ToSet(s) = {}
  PROVE  /\ r \o s \in Seq(Customer)
         /\ IsInjective(r \o s)
         /\ ToSet(r \o s) \subseteq ToSet(r) \cup ToSet(s)
         /\ DOMAIN (r \o s) = 1..(Len(r) + Len(s))
         /\ \A m \in 1..(Len(r) + Len(s)) :
               (r \o s)[m] = IF m <= Len(r) THEN r[m] ELSE s[m - Len(r)]
<1> DEFINE t == r \o s
<1>1. /\ t \in Seq(Customer)
      /\ Len(t) = Len(r) + Len(s)
      /\ \A m \in 1..(Len(r) + Len(s)) :
            t[m] = IF m <= Len(r) THEN r[m] ELSE s[m - Len(r)]
  BY ConcatProperties
<1>2. /\ Len(r) \in Nat /\ Len(s) \in Nat
      /\ DOMAIN r = 1..Len(r) /\ DOMAIN s = 1..Len(s)
      /\ DOMAIN t = 1..(Len(r) + Len(s))
  BY <1>1, LenProperties
<1> HIDE DEF t
<1>3. \A m \in DOMAIN r, n \in DOMAIN s : r[m] # s[n]
  BY DEF ToSet
<1>4. \A m \in DOMAIN t : IF m <= Len(r)
                          THEN m \in DOMAIN r /\ t[m] = r[m]
                          ELSE m - Len(r) \in DOMAIN s /\ t[m] = s[m - Len(r)]
  BY <1>1, <1>2
<1>5. IsInjective(t)
  BY <1>2, <1>3, <1>4 DEF IsInjective
<1>6. ToSet(t) \subseteq ToSet(r) \cup ToSet(s)
  BY <1>4 DEF ToSet
<1> QED
  BY <1>1, <1>2, <1>5, <1>6 DEF t

(* ZPOPMIN splits a line in two that share nobody.                         *)
LEMMA BatchOffHead ==
  ASSUME NEW s \in Seq(Customer), IsInjective(s), NEW n \in 0..Len(s)
  PROVE  LET head == SubSeq(s, 1, n)
             tail == SubSeq(s, n + 1, Len(s))
         IN  /\ tail \in Seq(Customer)
             /\ IsInjective(tail)
             /\ ToSet(head) \cap ToSet(tail) = {}
             /\ ToSet(head) \cup ToSet(tail) \subseteq ToSet(s)
             /\ ToSet(head) = {s[m] : m \in 1..n}
             /\ DOMAIN tail = 1..(Len(s) - n)
             /\ \A m \in 1..(Len(s) - n) : tail[m] = s[m + n]
<1> DEFINE head == SubSeq(s, 1, n)
           tail == SubSeq(s, n + 1, Len(s))
<1>1. /\ Len(s) \in Nat /\ DOMAIN s = 1..Len(s)
      /\ n \in Nat /\ n <= Len(s)
  BY LenProperties
<1>2. \A m \in 1..Len(s) : s[m] \in Customer
  BY <1>1, ElementOfSeq
<1>3. /\ head \in Seq(Customer)
      /\ Len(head) = n
      /\ \A m \in 1..n : head[m] = s[m]
  <2>1. \A m \in 1..n : s[m] \in Customer
    BY <1>1, <1>2
  <2>2. /\ head \in Seq(Customer)
        /\ Len(head) = IF 1 <= n THEN n - 1 + 1 ELSE 0
        /\ \A m \in 1..(n - 1 + 1) : head[m] = s[1 + m - 1]
    BY <1>1, <2>1, SubSeqProperties
  <2> QED
    BY <1>1, <2>2
<1>4. /\ tail \in Seq(Customer)
      /\ Len(tail) = Len(s) - n
      /\ \A m \in 1..(Len(s) - n) : tail[m] = s[m + n]
  <2>1. \A m \in (n + 1)..Len(s) : s[m] \in Customer
    BY <1>1, <1>2
  <2>2. /\ tail \in Seq(Customer)
        /\ Len(tail) = IF n + 1 <= Len(s) THEN Len(s) - (n + 1) + 1 ELSE 0
        /\ \A m \in 1..(Len(s) - (n + 1) + 1) : tail[m] = s[n + 1 + m - 1]
    BY <1>1, <2>1, SubSeqProperties
  <2> HIDE DEF tail
  <2>3. Len(tail) = Len(s) - n
    <3>1. CASE n < Len(s)
      <4>1. n + 1 <= Len(s)
        BY <1>1, <3>1
      <4>2. Len(tail) = Len(s) - (n + 1) + 1
        BY <2>2, <4>1, Zenon
      <4> QED
        BY <1>1, <4>2
    <3>2. CASE n = Len(s)
      <4>1. ~(n + 1 <= Len(s)) /\ Len(s) - n = 0
        BY <1>1, <3>2
      <4>2. Len(tail) = 0
        BY <2>2, <4>1, Zenon
      <4> QED
        BY <4>1, <4>2
    <3>3. \A a, b \in Nat : a <= b => a < b \/ a = b
      OBVIOUS
    <3> QED
      BY <1>1, <3>1, <3>2, <3>3, Zenon
  <2>4. ASSUME NEW m \in 1..(Len(s) - n)
        PROVE  tail[m] = s[m + n]
    <3>1. m \in 1..(Len(s) - (n + 1) + 1) /\ n + 1 + m - 1 = m + n
      BY <1>1
    <3> QED
      BY <2>2, <3>1
  <2> QED
    BY <2>2, <2>3, <2>4
<1>5. DOMAIN head = 1..n /\ DOMAIN tail = 1..(Len(s) - n)
  BY <1>3, <1>4, LenProperties
<1> HIDE DEF head, tail
<1>6. \A k, m \in 1..Len(s) : s[k] = s[m] => k = m
  BY <1>1 DEF IsInjective
<1>7. IsInjective(tail)
  <2> SUFFICES ASSUME NEW k \in DOMAIN tail, NEW m \in DOMAIN tail,
                      tail[k] = tail[m]
               PROVE  k = m
    BY DEF IsInjective
  <2>1. s[k + n] = s[m + n] /\ k + n \in 1..Len(s) /\ m + n \in 1..Len(s)
    BY <1>1, <1>4, <1>5
  <2>2. k + n = m + n
    BY <1>6, <2>1
  <2> QED
    BY <1>1, <1>5, <2>2
<1>8. ToSet(head) \cap ToSet(tail) = {}
  <2> SUFFICES ASSUME NEW k \in DOMAIN head, NEW m \in DOMAIN tail,
                      head[k] = tail[m]
               PROVE  FALSE
    BY DEF ToSet
  <2>1. s[k] = s[m + n] /\ k \in 1..Len(s) /\ m + n \in 1..Len(s)
    BY <1>1, <1>3, <1>4, <1>5
  <2>2. k = m + n
    BY <1>6, <2>1
  <2> QED
    BY <1>1, <1>5, <2>2
<1>9. ToSet(head) \subseteq ToSet(s)
  BY <1>1, <1>3, <1>5 DEF ToSet
<1>10. ToSet(tail) \subseteq ToSet(s)
  <2> SUFFICES ASSUME NEW m \in DOMAIN tail
               PROVE  tail[m] \in ToSet(s)
    BY DEF ToSet
  <2>1. tail[m] = s[m + n] /\ m + n \in DOMAIN s
    BY <1>1, <1>4, <1>5
  <2> QED
    BY <2>1 DEF ToSet
<1>11. ToSet(head) = {s[m] : m \in 1..n}
  BY <1>3, <1>5 DEF ToSet
<1> QED
  BY <1>4, <1>5, <1>7, <1>8, <1>9, <1>10, <1>11 DEF head, tail

-----------------------------------------------------------------------------
(* Who has a place, or had one, is registered: that is why whoever is not  *)
(* registered may be given one.                                            *)
Placed == lobby \cup ToSet(queue) \cup admitted \cup lapsed

PlacesInv ==
    /\ queue \in Seq(Customer)
    /\ joined \subseteq Customer
    /\ Placed \subseteq joined
    /\ OnePlace
    /\ NobodyStranded

places == <<shuffled, joined, lobby, queue, admitted, lapsed>>

(* Before anybody joined.                                                  *)
LEMMA PlacesInitially == RoomInit => PlacesInv
<1> SUFFICES ASSUME RoomInit
             PROVE  PlacesInv
  OBVIOUS
<1>1. queue = <<>> /\ joined = {} /\ lobby = {} /\ admitted = {} /\ lapsed = {}
  BY DEF RoomInit
<1>2. queue \in Seq(Customer) /\ DOMAIN queue = {}
  BY <1>1, EmptySeq
<1>3. ToSet(queue) = {} /\ IsInjective(queue)
  BY <1>2 DEF ToSet, IsInjective
<1> QED
  BY <1>1, <1>2, <1>3 DEF PlacesInv, Placed, OnePlace, NobodyStranded

(* join.lua gives a place only to who has none.                            *)
LEMMA JoinKeepsPlaces ==
  ASSUME PlacesInv, NEW c \in Customer, Join(c)
  PROVE  PlacesInv'
<1>1. /\ c \notin Placed
      /\ joined' = joined \cup {c}
      /\ UNCHANGED <<shuffled, admitted, lapsed>>
  BY DEF Join, New, PlacesInv
<1>2. CASE /\ ~shuffled
           /\ lobby' = lobby \cup {c}
           /\ UNCHANGED queue
  BY <1>1, <1>2 DEF PlacesInv, Placed, OnePlace, NobodyStranded
<1>3. CASE queue' = Append(queue, c) /\ UNCHANGED lobby
  <2>1. c \notin ToSet(queue) /\ queue \in Seq(Customer) /\ IsInjective(queue)
    BY <1>1 DEF Placed, PlacesInv, OnePlace
  <2>2. /\ queue' \in Seq(Customer)
        /\ IsInjective(queue')
        /\ ToSet(queue') = ToSet(queue) \cup {c}
    BY <1>3, <2>1, NewcomerAtEnd
  <2> QED
    BY <1>1, <1>3, <2>2 DEF PlacesInv, Placed, OnePlace, NobodyStranded
<1> QED
  BY <1>2, <1>3 DEF Join, Early

(* The ranks drawn are a line of the lobby, put in front of the queue.     *)
LEMMA RanksInFront ==
  ASSUME PlacesInv, Shuffle, ~shuffled
  PROVE  \E ranks \in Seq(Customer) :
            /\ queue' = ranks \o queue
            /\ IsInjective(ranks)
            /\ ToSet(ranks) \subseteq lobby
            /\ ToSet(ranks) \cap ToSet(queue) = {}
<1>1. PICK ranks \in SetToSeqs(lobby) : queue' = ranks \o queue
  BY DEF Shuffle, LotteryFirst
<1>2. lobby \subseteq Customer
  BY DEF PlacesInv, Placed
<1>3. /\ ranks \in [1..Cardinality(lobby) -> lobby]
      /\ \A m, n \in 1..Cardinality(lobby) : m # n => ranks[m] # ranks[n]
  BY DEF SetToSeqs
<1>4. IsInjective(ranks) /\ ToSet(ranks) \subseteq lobby
  BY <1>3 DEF IsInjective, ToSet
<1>5. ranks \in Seq(Customer)
  <2>1. IsFiniteSet(lobby)
    BY <1>2, RoomAssumption, FS_Subset
  <2>2. Cardinality(lobby) \in Nat
    BY <2>1, FS_CardinalityType
  <2>3. ranks \in [1..Cardinality(lobby) -> Customer]
    BY <1>2, <1>3
  <2> QED
    BY <2>2, <2>3, SeqDef
<1> QED
  BY <1>1, <1>4, <1>5 DEF PlacesInv, OnePlace

(* shuffle.lua moves the whole lobby into the queue.                       *)
LEMMA ShuffleKeepsPlaces ==
  ASSUME PlacesInv, Shuffle, UNCHANGED <<joined, admitted, lapsed>>
  PROVE  PlacesInv'
<1>1. CASE UNCHANGED <<queue, lobby, shuffled>>
  BY <1>1 DEF PlacesInv, Placed, OnePlace, NobodyStranded
<1>2. CASE ~shuffled
  <2>1. PICK ranks \in Seq(Customer) :
           /\ queue' = ranks \o queue
           /\ IsInjective(ranks)
           /\ ToSet(ranks) \subseteq lobby
           /\ ToSet(ranks) \cap ToSet(queue) = {}
    BY <1>2, RanksInFront
  <2>2. lobby' = {}
    BY <1>2 DEF Shuffle
  <2>3. queue \in Seq(Customer) /\ IsInjective(queue)
    BY DEF PlacesInv, OnePlace
  <2>4. /\ queue' \in Seq(Customer)
        /\ IsInjective(queue')
        /\ ToSet(queue') \subseteq lobby \cup ToSet(queue)
    BY <2>1, <2>3, LotteryInFront
  <2> QED
    BY <2>2, <2>4 DEF PlacesInv, Placed, OnePlace, NobodyStranded
<1> QED
  BY <1>1, <1>2 DEF Shuffle

(* admit.lua moves the head of the queue to the admitted.                  *)
LEMMA AdmitKeepsPlaces ==
  ASSUME PlacesInv, NEW batch \in Nat, AdmitBatch(batch),
         UNCHANGED <<shuffled, joined, lobby, lapsed>>
  PROVE  PlacesInv'
<1> DEFINE n == IF batch < Len(queue) THEN batch ELSE Len(queue)
<1>1. CASE UNCHANGED <<queue, admitted>>
  BY <1>1 DEF PlacesInv, Placed, OnePlace, NobodyStranded
<1>2. CASE Pop(n)
  <2>1. queue \in Seq(Customer) /\ IsInjective(queue)
    BY DEF PlacesInv, OnePlace
  <2>2. n \in 0..Len(queue)
    BY <2>1, LenProperties
  <2> HIDE DEF n
  <2>3. /\ queue' \in Seq(Customer)
        /\ IsInjective(queue')
        /\ ToSet(SubSeq(queue, 1, n)) \cap ToSet(queue') = {}
        /\ ToSet(SubSeq(queue, 1, n)) \cup ToSet(queue') \subseteq ToSet(queue)
    BY <1>2, <2>1, <2>2, BatchOffHead DEF Pop
  <2>4. admitted' = admitted \cup ToSet(SubSeq(queue, 1, n))
    BY <1>2 DEF Pop
  <2> QED
    BY <2>3, <2>4 DEF PlacesInv, Placed, OnePlace, NobodyStranded
<1> QED
  BY <1>1, <1>2 DEF AdmitBatch

(* The invariant is inductive.                                             *)
LEMMA RoomStepKeepsPlaces ==
  ASSUME PlacesInv, [RoomNext]_vars
  PROVE  PlacesInv'
<1>1. ASSUME NEW c \in Customer, Join(c)
      PROVE  PlacesInv'
  BY <1>1, JoinKeepsPlaces
<1>2. ASSUME NEW c \in Customer, SlotLapses(c)
      PROVE  PlacesInv'
  BY <1>2 DEF SlotLapses, PlacesInv, Placed, OnePlace, NobodyStranded
<1>3. ASSUME NEW i \in Instance, Lottery(i)
      PROVE  PlacesInv'
  BY <1>3, ShuffleKeepsPlaces DEF Lottery
<1>4. ASSUME NEW i \in Instance, Tick(i)
      PROVE  PlacesInv'
  <2>1. PICK batch \in 1..MaxBatch : AdmitBatch(batch)
    BY <1>4 DEF Tick
  <2> QED
    BY <1>4, <2>1, AdmitKeepsPlaces, RoomAssumption DEF Tick
<1>5. CASE UNCHANGED places
  BY <1>5 DEF places, PlacesInv, Placed, OnePlace, NobodyStranded
<1>6. ASSUME NEW i \in Instance,
             \/ Elected(i) \/ ReadSaleStart(i) \/ Refused(i)
             \/ LotteryFails(i) \/ Lease(i)
      PROVE  UNCHANGED places
  BY <1>6 DEF Elected, ReadSaleStart, Refused, LotteryFails, Lease, places,
              roomVars, keys
<1>7. ASSUME \/ UNCHANGED roomVars
             \/ \E t \in 1..MaxClock : PublishSaleStart(t)
             \/ \E s \in StockFlags : SetSaleState(s)
             \/ ClockTick
      PROVE  UNCHANGED places
  BY <1>7 DEF PublishSaleStart, SetSaleState, ClockTick, places, roomVars,
              keys
<1> QED
  BY <1>1, <1>2, <1>3, <1>4, <1>5, <1>6, <1>7 DEF RoomNext, Controller, vars

(* The places of all customers keep their invariant.                       *)
THEOREM PlacesInvariant == RoomSpec => []PlacesInv
<1>1. RoomInit => PlacesInv
  BY PlacesInitially
<1>2. PlacesInv /\ [RoomNext]_vars => PlacesInv'
  BY RoomStepKeepsPlaces
<1> QED
  BY <1>1, <1>2, PTL DEF RoomSpec

(* BR-Q3: one person, one place, for every number of customers, instances, *)
(* crashes and repetitions.                                                *)
THEOREM EverybodyOnePlace == RoomSpec => []OnePlace
BY PlacesInvariant, PTL DEF PlacesInv

(* BR-Q1: once the lottery was drawn the lobby stays empty.                *)
THEOREM LobbyStaysEmpty == RoomSpec => []NobodyStranded
BY PlacesInvariant, PTL DEF PlacesInv

-----------------------------------------------------------------------------
(* Who came after the sale began (fifo) stands behind everybody else in    *)
(* the queue, and before the lottery there is nobody else in it and nobody *)
(* was let in: so when the first of them is let in, no other is left.      *)
InTurn ==
    \A m, n \in DOMAIN queue : m < n /\ queue[m] \in fifo => queue[n] \in fifo

TurnsInv ==
    /\ work \in [Instance -> Work]
    /\ \A i \in Instance : work[i] = "tick" => shuffled
    /\ ~shuffled => ToSet(queue) \subseteq fifo /\ admitted \cup lapsed = {}
    /\ fifo \subseteq joined
    /\ lobby \cap fifo = {}
    /\ InTurn
    /\ LotteryFirstIn

(* Before anybody joined.                                                  *)
LEMMA TurnsInitially == RoomInit => TurnsInv
<1> SUFFICES ASSUME RoomInit
             PROVE  TurnsInv
  OBVIOUS
<1>1. /\ queue = <<>> /\ joined = {} /\ lobby = {} /\ fifo = {}
      /\ admitted = {} /\ lapsed = {} /\ shuffled = FALSE
      /\ work = [i \in Instance |-> "begin"]
  BY DEF RoomInit
<1>2. DOMAIN queue = {}
  BY <1>1, EmptySeq
<1>3. ToSet(queue) = {} /\ InTurn
  BY <1>2 DEF ToSet, InTurn
<1> QED
  BY <1>1, <1>3 DEF TurnsInv, LotteryFirstIn, Work

(* Newcomers go to the lobby before the lottery, and to the end after.     *)
LEMMA JoinKeepsTurns ==
  ASSUME PlacesInv, TurnsInv, NEW c \in Customer, Join(c)
  PROVE  TurnsInv'
<1>1. /\ c \notin Placed /\ c \notin fifo
      /\ joined' = joined \cup {c}
      /\ UNCHANGED <<shuffled, admitted, lapsed, work>>
  BY DEF Join, New, PlacesInv, TurnsInv
<1>2. CASE /\ ~shuffled
           /\ lobby' = lobby \cup {c}
           /\ UNCHANGED <<queue, fifo>>
  BY <1>1, <1>2 DEF TurnsInv, LotteryFirstIn, InTurn
<1>3. CASE /\ queue' = Append(queue, c)
           /\ fifo' = fifo \cup {c}
           /\ UNCHANGED lobby
  <2>1. /\ c \notin ToSet(queue) /\ queue \in Seq(Customer)
        /\ IsInjective(queue)
    BY <1>1 DEF Placed, PlacesInv, OnePlace
  <2>2. /\ ToSet(queue') = ToSet(queue) \cup {c}
        /\ DOMAIN queue' = 1..(Len(queue) + 1)
        /\ \A m \in 1..Len(queue) : queue'[m] = queue[m]
        /\ queue'[Len(queue) + 1] = c
    BY <1>3, <2>1, NewcomerAtEnd
  <2>3. Len(queue) \in Nat /\ DOMAIN queue = 1..Len(queue)
    BY <2>1, LenProperties
  <2>4. InTurn'
    <3> SUFFICES ASSUME NEW m \in DOMAIN queue', NEW n \in DOMAIN queue',
                        m < n, queue'[m] \in fifo'
                 PROVE  queue'[n] \in fifo'
      BY DEF InTurn
    <3>1. m \in DOMAIN queue /\ queue'[m] = queue[m]
      BY <2>2, <2>3
    <3>2. queue[m] \in fifo
      BY <1>3, <2>1, <3>1 DEF ToSet
    <3>3. CASE n \in DOMAIN queue
      BY <1>3, <2>2, <2>3, <3>1, <3>2, <3>3 DEF TurnsInv, InTurn
    <3>4. CASE n = Len(queue) + 1
      BY <1>3, <2>2, <3>4
    <3> QED
      BY <2>2, <2>3, <3>3, <3>4
  <2>5. LotteryFirstIn'
    BY <1>1, <1>3, <2>2 DEF TurnsInv, LotteryFirstIn, Placed
  <2> QED
    BY <1>1, <1>3, <2>2, <2>4, <2>5 DEF TurnsInv, Placed
<1> QED
  BY <1>2, <1>3 DEF Join, Early

(* The lottery goes in front of the queue and leaves nobody in the lobby.  *)
LEMMA LotteryKeepsTurns ==
  ASSUME PlacesInv, TurnsInv, NEW i \in Instance, Lottery(i)
  PROVE  TurnsInv'
<1>1. /\ Shuffle /\ shuffled'
      /\ work' = [work EXCEPT ![i] = "tick"]
      /\ UNCHANGED <<joined, fifo, admitted, lapsed>>
  BY DEF Lottery, GoOn, Shuffle
<1>2. work' \in [Instance -> Work]
  BY <1>1 DEF TurnsInv, Work
<1>3. CASE UNCHANGED <<queue, lobby, shuffled>>
  BY <1>1, <1>2, <1>3 DEF TurnsInv, LotteryFirstIn, InTurn
<1>4. CASE ~shuffled /\ lobby' = {}
  <2>1. PICK ranks \in Seq(Customer) :
           /\ queue' = ranks \o queue
           /\ IsInjective(ranks)
           /\ ToSet(ranks) \subseteq lobby
           /\ ToSet(ranks) \cap ToSet(queue) = {}
    BY <1>1, <1>4, RanksInFront
  <2>2. queue \in Seq(Customer) /\ IsInjective(queue)
    BY DEF PlacesInv, OnePlace
  <2>3. /\ DOMAIN queue' = 1..(Len(ranks) + Len(queue))
        /\ \A m \in 1..(Len(ranks) + Len(queue)) :
              queue'[m] = IF m <= Len(ranks) THEN ranks[m]
                          ELSE queue[m - Len(ranks)]
    BY <2>1, <2>2, LotteryInFront
  <2>4. /\ Len(ranks) \in Nat /\ DOMAIN ranks = 1..Len(ranks)
        /\ Len(queue) \in Nat /\ DOMAIN queue = 1..Len(queue)
    BY <2>2, LenProperties
  <2>5. ASSUME NEW m \in DOMAIN queue', m <= Len(ranks)
        PROVE  queue'[m] \notin fifo
    BY <2>1, <2>3, <2>4, <2>5 DEF ToSet, TurnsInv
  <2>6. ASSUME NEW m \in DOMAIN queue', ~(m <= Len(ranks))
        PROVE  queue'[m] \in fifo
    BY <1>4, <2>3, <2>4, <2>6 DEF ToSet, TurnsInv
  <2>7. InTurn'
    <3> SUFFICES ASSUME NEW m \in DOMAIN queue', NEW n \in DOMAIN queue',
                        m < n, queue'[m] \in fifo'
                 PROVE  queue'[n] \in fifo'
      BY DEF InTurn
    <3>1. ~(m <= Len(ranks))
      BY <1>1, <2>5
    <3>2. ~(n <= Len(ranks))
      BY <2>3, <2>4, <3>1
    <3> QED
      BY <1>1, <2>6, <3>2
  <2> QED
    BY <1>1, <1>2, <1>4, <2>7 DEF TurnsInv, LotteryFirstIn
<1> QED
  BY <1>1, <1>3, <1>4 DEF Shuffle

(* A batch is the head of the queue: who is left stood behind all of it.   *)
LEMMA TickKeepsTurns ==
  ASSUME PlacesInv, TurnsInv, NEW i \in Instance, Tick(i)
  PROVE  TurnsInv'
<1>1. PICK batch \in 1..MaxBatch : AdmitBatch(batch)
  BY DEF Tick
<1>2. /\ shuffled /\ lobby = {}
      /\ UNCHANGED <<shuffled, joined, lobby, fifo, lapsed, work>>
  BY DEF Tick, TurnsInv, PlacesInv, NobodyStranded
<1> DEFINE k == IF batch < Len(queue) THEN batch ELSE Len(queue)
<1>3. CASE UNCHANGED <<queue, admitted>>
  BY <1>2, <1>3 DEF TurnsInv, LotteryFirstIn, InTurn
<1>4. CASE Pop(k)
  <2>1. queue \in Seq(Customer) /\ IsInjective(queue)
    BY DEF PlacesInv, OnePlace
  <2>2. Len(queue) \in Nat /\ DOMAIN queue = 1..Len(queue)
    BY <2>1, LenProperties
  <2>3. k \in 0..Len(queue)
    BY <2>2, RoomAssumption
  <2> HIDE DEF k
  <2>4. /\ ToSet(queue') \subseteq ToSet(queue)
        /\ ToSet(SubSeq(queue, 1, k)) = {queue[m] : m \in 1..k}
        /\ DOMAIN queue' = 1..(Len(queue) - k)
        /\ \A m \in 1..(Len(queue) - k) : queue'[m] = queue[m + k]
    <3> DEFINE tail == SubSeq(queue, k + 1, Len(queue))
    <3>1. /\ ToSet(SubSeq(queue, 1, k)) \cup ToSet(tail) \subseteq ToSet(queue)
          /\ ToSet(SubSeq(queue, 1, k)) = {queue[m] : m \in 1..k}
          /\ DOMAIN tail = 1..(Len(queue) - k)
          /\ \A m \in 1..(Len(queue) - k) : tail[m] = queue[m + k]
      BY <2>1, <2>3, BatchOffHead, Zenon
    <3>2. queue' = tail
      BY <1>4 DEF Pop
    <3> HIDE DEF tail
    <3> QED
      BY <3>1, <3>2
  <2>5. admitted' = admitted \cup {queue[m] : m \in 1..k}
    BY <1>4, <2>4 DEF Pop
  <2>6. InTurn'
    <3> SUFFICES ASSUME NEW m \in DOMAIN queue', NEW n \in DOMAIN queue',
                        m < n, queue'[m] \in fifo'
                 PROVE  queue'[n] \in fifo'
      BY DEF InTurn
    <3>1. /\ queue'[m] = queue[m + k] /\ queue'[n] = queue[n + k]
          /\ m + k \in DOMAIN queue /\ n + k \in DOMAIN queue
          /\ m + k < n + k
      BY <2>2, <2>3, <2>4
    <3> QED
      BY <1>2, <3>1 DEF TurnsInv, InTurn
  <2>7. LotteryFirstIn'
    <3>1. CASE \E m \in 1..k : queue[m] \in fifo
      <4>1. PICK m \in 1..k : queue[m] \in fifo
        BY <3>1
      <4>2. ASSUME NEW n \in DOMAIN queue'
            PROVE  queue'[n] \in fifo
        <5>1. /\ queue'[n] = queue[n + k]
              /\ m \in DOMAIN queue /\ n + k \in DOMAIN queue /\ m < n + k
          BY <2>2, <2>3, <2>4
        <5> QED
          BY <4>1, <5>1 DEF TurnsInv, InTurn
      <4> QED
        BY <1>2, <4>2 DEF LotteryFirstIn, ToSet
    <3>2. CASE ~\E m \in 1..k : queue[m] \in fifo
      <4>1. fifo \cap (admitted' \cup lapsed) = fifo \cap (admitted \cup lapsed)
        BY <2>5, <3>2
      <4> QED
        BY <1>2, <2>4, <4>1 DEF TurnsInv, LotteryFirstIn
    <3> QED
      BY <3>1, <3>2
  <2> QED
    BY <1>2, <2>6, <2>7 DEF TurnsInv
<1> QED
  BY <1>1, <1>3, <1>4 DEF AdmitBatch

(* The invariant is inductive, given that everybody has one place.         *)
LEMMA RoomStepKeepsTurns ==
  ASSUME PlacesInv, TurnsInv, [RoomNext]_vars
  PROVE  TurnsInv'
<1> DEFINE turns == <<places, fifo>>
<1>1. ASSUME NEW c \in Customer, Join(c)
      PROVE  TurnsInv'
  BY <1>1, JoinKeepsTurns
<1>2. ASSUME NEW c \in Customer, SlotLapses(c)
      PROVE  TurnsInv'
  BY <1>2 DEF SlotLapses, TurnsInv, InTurn, LotteryFirstIn
<1>3. ASSUME NEW i \in Instance, Lottery(i)
      PROVE  TurnsInv'
  BY <1>3, LotteryKeepsTurns
<1>4. ASSUME NEW i \in Instance, Tick(i)
      PROVE  TurnsInv'
  BY <1>4, TickKeepsTurns
<1>5. ASSUME UNCHANGED turns,
             work' \in [Instance -> Work],
             \A i \in Instance : work'[i] = "tick" => work[i] = "tick"
      PROVE  TurnsInv'
  BY <1>5 DEF places, TurnsInv, InTurn, LotteryFirstIn
<1>6. ASSUME NEW i \in Instance, Elected(i) \/ ReadSaleStart(i)
      PROVE  TurnsInv'
  <2>1. UNCHANGED turns
    BY <1>6 DEF Elected, ReadSaleStart, places, keys
  <2>2. \E step \in {"begin", "wait"} : work' = [work EXCEPT ![i] = step]
    BY <1>6 DEF Elected, ReadSaleStart, GoOn
  <2>3. /\ work' \in [Instance -> Work]
        /\ \A j \in Instance : work'[j] = "tick" => work[j] = "tick"
    BY <2>2 DEF TurnsInv, Work
  <2> QED
    BY <1>5, <2>1, <2>3
<1>7. CASE UNCHANGED turns /\ UNCHANGED work
  BY <1>5, <1>7 DEF TurnsInv
<1>8. ASSUME NEW i \in Instance,
             Refused(i) \/ LotteryFails(i) \/ Lease(i)
      PROVE  UNCHANGED turns /\ UNCHANGED work
  BY <1>8 DEF Refused, LotteryFails, Lease, places, roomVars, keys
<1>9. ASSUME \/ UNCHANGED roomVars
             \/ \E t \in 1..MaxClock : PublishSaleStart(t)
             \/ \E s \in StockFlags : SetSaleState(s)
             \/ ClockTick
      PROVE  UNCHANGED turns /\ UNCHANGED work
  BY <1>9 DEF PublishSaleStart, SetSaleState, ClockTick, places, roomVars,
              keys
<1> QED
  BY <1>1, <1>2, <1>3, <1>4, <1>6, <1>7, <1>8, <1>9
     DEF RoomNext, Controller, vars

(* The turns of all customers keep their invariant.                        *)
THEOREM TurnsInvariant == RoomSpec => []TurnsInv
<1>1. RoomInit => TurnsInv
  BY TurnsInitially
<1>2. PlacesInv /\ TurnsInv /\ [RoomNext]_vars => TurnsInv'
  BY RoomStepKeepsTurns
<1> QED
  BY <1>1, <1>2, PlacesInvariant, PTL DEF RoomSpec

(* BR-Q2: nobody who came after the sale began is let in while somebody of *)
(* the lottery waits, whatever leaders and clocks do.                      *)
THEOREM LotteryGoesFirst == RoomSpec => []LotteryFirstIn
BY TurnsInvariant, PTL DEF TurnsInv

-----------------------------------------------------------------------------
(* A rank once given is kept: newcomers stand behind, the lottery in front *)
(* of everybody, and a batch is the head of the queue.                     *)
KeepsRanks ==
    \A x, y \in Customer :
        Ahead(x, y) => Ahead(x, y)' \/ x \notin ToSet(queue')

(* One step of the room keeps the ranks.                                   *)
LEMMA RoomStepKeepsRanks ==
  ASSUME PlacesInv, [RoomNext]_vars
  PROVE  KeepsRanks
<1>1. queue \in Seq(Customer) /\ IsInjective(queue)
  BY DEF PlacesInv, OnePlace
<1>2. Len(queue) \in Nat /\ DOMAIN queue = 1..Len(queue)
  BY <1>1, LenProperties
<1>3. CASE UNCHANGED queue
  BY <1>3 DEF KeepsRanks, Ahead
<1>4. ASSUME NEW c \in Customer, Join(c)
      PROVE  KeepsRanks
  <2>1. CASE queue' = Append(queue, c)
    <3>1. c \notin ToSet(queue)
      BY <1>4 DEF Join, New, PlacesInv, Placed
    <3>2. /\ DOMAIN queue' = 1..(Len(queue) + 1)
          /\ \A m \in 1..Len(queue) : queue'[m] = queue[m]
      BY <1>1, <2>1, <3>1, NewcomerAtEnd
    <3> SUFFICES ASSUME NEW x \in Customer, NEW y \in Customer, Ahead(x, y)
                 PROVE  Ahead(x, y)'
      BY DEF KeepsRanks
    <3>3. PICK m, n \in DOMAIN queue :
             m < n /\ queue[m] = x /\ queue[n] = y
      BY DEF Ahead
    <3>4. /\ m \in DOMAIN queue' /\ n \in DOMAIN queue'
          /\ queue'[m] = x /\ queue'[n] = y
      BY <1>2, <3>2, <3>3
    <3> QED
      BY <3>3, <3>4 DEF Ahead
  <2> QED
    BY <1>3, <1>4, <2>1 DEF Join
<1>5. ASSUME NEW i \in Instance, Lottery(i)
      PROVE  KeepsRanks
  <2>1. CASE ~shuffled
    <3>1. PICK ranks \in Seq(Customer) :
             /\ queue' = ranks \o queue
             /\ IsInjective(ranks)
             /\ ToSet(ranks) \subseteq lobby
             /\ ToSet(ranks) \cap ToSet(queue) = {}
      BY <1>5, <2>1, RanksInFront DEF Lottery
    <3>2. /\ DOMAIN queue' = 1..(Len(ranks) + Len(queue))
          /\ \A m \in 1..(Len(ranks) + Len(queue)) :
                queue'[m] = IF m <= Len(ranks) THEN ranks[m]
                            ELSE queue[m - Len(ranks)]
      BY <1>1, <3>1, LotteryInFront
    <3>3. Len(ranks) \in Nat
      BY LenProperties
    <3> SUFFICES ASSUME NEW x \in Customer, NEW y \in Customer, Ahead(x, y)
                 PROVE  Ahead(x, y)'
      BY DEF KeepsRanks
    <3>4. PICK m, n \in DOMAIN queue :
             m < n /\ queue[m] = x /\ queue[n] = y
      BY DEF Ahead
    <3>5. ASSUME NEW k \in DOMAIN queue
          PROVE  /\ k + Len(ranks) \in DOMAIN queue'
                 /\ queue'[k + Len(ranks)] = queue[k]
      <4>1. /\ k + Len(ranks) \in 1..(Len(ranks) + Len(queue))
            /\ ~(k + Len(ranks) <= Len(ranks))
            /\ (k + Len(ranks)) - Len(ranks) = k
        BY <1>2, <3>3
      <4> QED
        BY <3>2, <4>1
    <3>6. m + Len(ranks) < n + Len(ranks)
      BY <1>2, <3>3, <3>4
    <3> QED
      BY <3>4, <3>5, <3>6 DEF Ahead
  <2> QED
    BY <1>3, <1>5, <2>1 DEF Lottery, Shuffle
<1>6. ASSUME NEW i \in Instance, Tick(i)
      PROVE  KeepsRanks
  <2>1. PICK batch \in 1..MaxBatch : AdmitBatch(batch)
    BY <1>6 DEF Tick
  <2> DEFINE k == IF batch < Len(queue) THEN batch ELSE Len(queue)
  <2>2. CASE Pop(k)
    <3>1. k \in 0..Len(queue)
      BY <1>2, RoomAssumption
    <3> HIDE DEF k
    <3> DEFINE tail == SubSeq(queue, k + 1, Len(queue))
    <3>2. /\ DOMAIN tail = 1..(Len(queue) - k)
          /\ \A m \in 1..(Len(queue) - k) : tail[m] = queue[m + k]
      BY <1>1, <3>1, BatchOffHead, Zenon
    <3>3. queue' = tail
      BY <2>2 DEF Pop
    <3> HIDE DEF tail
    <3> SUFFICES ASSUME NEW x \in Customer, NEW y \in Customer, Ahead(x, y)
                 PROVE  Ahead(x, y)' \/ x \notin ToSet(queue')
      BY DEF KeepsRanks
    <3>4. PICK m, n \in DOMAIN queue :
             m < n /\ queue[m] = x /\ queue[n] = y
      BY DEF Ahead
    <3>5. CASE m <= k
      <4> SUFFICES ASSUME NEW l \in DOMAIN queue', queue'[l] = x
                   PROVE  FALSE
        BY DEF ToSet
      <4>1. queue[l + k] = x /\ l + k \in DOMAIN queue /\ l + k # m
        BY <1>2, <3>1, <3>2, <3>3, <3>5
      <4> QED
        BY <1>1, <3>4, <4>1 DEF IsInjective
    <3>6. CASE ~(m <= k)
      <4>1. /\ m - k \in DOMAIN queue' /\ n - k \in DOMAIN queue'
            /\ m - k < n - k
            /\ (m - k) + k = m /\ (n - k) + k = n
        BY <1>2, <3>1, <3>2, <3>3, <3>4, <3>6
      <4>2. queue'[m - k] = x /\ queue'[n - k] = y
        BY <3>2, <3>3, <3>4, <4>1
      <4> QED
        BY <4>1, <4>2 DEF Ahead
    <3> QED
      BY <3>5, <3>6
  <2> QED
    BY <1>3, <2>1, <2>2 DEF AdmitBatch
<1>7. ASSUME NEW c \in Customer, SlotLapses(c)
      PROVE  KeepsRanks
  BY <1>3, <1>7 DEF SlotLapses
<1>8. ASSUME NEW i \in Instance,
             \/ Elected(i) \/ ReadSaleStart(i) \/ Refused(i)
             \/ LotteryFails(i) \/ Lease(i)
      PROVE  KeepsRanks
  BY <1>3, <1>8 DEF Elected, ReadSaleStart, Refused, LotteryFails, Lease,
                    roomVars, keys
<1>9. ASSUME \/ UNCHANGED roomVars
             \/ \E t \in 1..MaxClock : PublishSaleStart(t)
             \/ \E s \in StockFlags : SetSaleState(s)
             \/ ClockTick
      PROVE  KeepsRanks
  BY <1>3, <1>9 DEF PublishSaleStart, SetSaleState, ClockTick, roomVars, keys
<1> QED
  BY <1>4, <1>5, <1>6, <1>7, <1>8, <1>9 DEF RoomNext, Controller, vars

(* BR-Q5.7: nobody is let in before somebody who is ahead, for every       *)
(* number of customers and of controllers in turn.                         *)
THEOREM NobodyOvertakes == RoomSpec => RanksKept
<1>1. PlacesInv /\ [RoomNext]_vars
      => [\A x, y \in Customer :
             Ahead(x, y) => \/ Ahead(x, y)'
                            \/ x \notin ToSet(queue')]_vars
  BY RoomStepKeepsRanks DEF KeepsRanks
<1> QED
  BY <1>1, PlacesInvariant, PTL DEF RoomSpec, RanksKept

-----------------------------------------------------------------------------
(* T0 published in time and left alone: the leader waits for it by a clock *)
(* that is early by Skew at most, and so does join.lua.                    *)
SaleInv ==
    /\ clock \in Nat
    /\ saleStart = T0
    /\ known \in [Instance -> Nat]
    /\ \A i \in Instance : work[i] = "wait" => known[i] = T0
    /\ shuffled => clock + Skew >= T0
    /\ NothingBeforeSale

(* Nobody is in the queue at first.                                        *)
LEMMA SaleInitially ==
  ASSUME Schedule = {}, RoomInit
  PROVE  SaleInv
BY RoomAssumption DEF RoomInit, SaleInv, NothingBeforeSale, Absent

(* The invariant is inductive, given the ones above.                       *)
LEMMA RoomStepKeepsSale ==
  ASSUME Schedule = {}, TurnsInv, SaleInv, [RoomNext]_vars
  PROVE  SaleInv'
<1>1. T0 \in Nat \ {0} /\ Skew \in Nat
  BY RoomAssumption
<1>2. ASSUME NEW t \in Shown, t >= T0
      PROVE  clock + Skew >= T0
  BY <1>1, <1>2 DEF Shown, SaleInv
<1>3. ASSUME NEW c \in Customer, Join(c)
      PROVE  SaleInv'
  <2>1. UNCHANGED <<clock, saleStart, known, work, shuffled, admitted>>
    BY <1>3 DEF Join
  <2>2. PICK t \in Shown : ~Early(t) \/ UNCHANGED queue
    BY <1>3 DEF Join
  <2>3. CASE UNCHANGED queue
    BY <2>1, <2>3 DEF SaleInv, NothingBeforeSale
  <2>4. CASE ~Early(t)
    <3>1. t >= T0 \/ shuffled
      BY <1>1, <2>4 DEF Early, Shown, SaleInv
    <3>2. clock + Skew >= T0
      BY <1>2, <3>1 DEF SaleInv
    <3> QED
      BY <2>1, <3>2 DEF SaleInv, NothingBeforeSale
  <2> QED
    BY <2>2, <2>3, <2>4
<1>4. ASSUME NEW c \in Customer, SlotLapses(c)
      PROVE  SaleInv'
  BY <1>4 DEF SlotLapses, SaleInv, NothingBeforeSale
<1>5. ASSUME NEW i \in Instance, Lottery(i)
      PROVE  SaleInv'
  <2>1. known[i] = T0 /\ Waited(i)
    BY <1>5 DEF Lottery, SaleInv
  <2>2. clock + Skew >= T0
    BY <1>2, <2>1 DEF Waited
  <2>3. UNCHANGED <<clock, saleStart, known, admitted>>
    BY <1>5 DEF Lottery
  <2>4. \A j \in Instance : work'[j] = "wait" => work[j] = "wait"
    BY <1>5 DEF Lottery, GoOn, TurnsInv
  <2> QED
    BY <2>2, <2>3, <2>4 DEF SaleInv, NothingBeforeSale
<1>6. ASSUME NEW i \in Instance, Tick(i)
      PROVE  SaleInv'
  <2>1. clock + Skew >= T0
    BY <1>6 DEF Tick, TurnsInv, SaleInv
  <2> QED
    BY <1>6, <2>1 DEF Tick, SaleInv, NothingBeforeSale
<1>7. ASSUME NEW i \in Instance, Elected(i)
      PROVE  SaleInv'
  <2>1. UNCHANGED <<clock, saleStart, known, shuffled, queue, admitted>>
    BY <1>7 DEF Elected, keys
  <2>2. \A j \in Instance : work'[j] = "wait" => work[j] = "wait"
    BY <1>7 DEF Elected, GoOn, TurnsInv
  <2> QED
    BY <2>1, <2>2 DEF SaleInv, NothingBeforeSale
<1>8. ASSUME NEW i \in Instance, ReadSaleStart(i)
      PROVE  SaleInv'
  <2>1. UNCHANGED <<clock, saleStart, shuffled, queue, admitted>>
    BY <1>8 DEF ReadSaleStart, keys
  <2>2. /\ known' = [known EXCEPT ![i] = T0]
        /\ work' = [work EXCEPT ![i] = "wait"]
    BY <1>8 DEF ReadSaleStart, GoOn, SaleInv
  <2>3. /\ known' \in [Instance -> Nat]
        /\ \A j \in Instance : work'[j] = "wait" => known'[j] = T0
    BY <1>1, <2>2 DEF SaleInv, TurnsInv
  <2> QED
    BY <2>1, <2>3 DEF SaleInv, NothingBeforeSale
<1>9. CASE ClockTick
  BY <1>1, <1>9 DEF ClockTick, keys, SaleInv, NothingBeforeSale
<1>10. CASE \E t \in 1..MaxClock : PublishSaleStart(t)
  BY <1>1, <1>10 DEF PublishSaleStart, SaleInv, Absent
<1>11. CASE \E s \in StockFlags : SetSaleState(s)
  BY <1>11 DEF SetSaleState, SaleInv, NothingBeforeSale
<1>12. CASE UNCHANGED roomVars
  BY <1>12 DEF roomVars, keys, SaleInv, NothingBeforeSale
<1>13. ASSUME NEW i \in Instance, Refused(i) \/ LotteryFails(i) \/ Lease(i)
       PROVE  SaleInv'
  BY <1>12, <1>13 DEF Refused, LotteryFails, Lease
<1> QED
  BY <1>3, <1>4, <1>5, <1>6, <1>7, <1>8, <1>9, <1>10, <1>11, <1>12, <1>13
     DEF RoomNext, Controller, vars

(* BR-Q1: with a T0 that is published in time and left alone, nobody has a *)
(* rank or is let in before every clock may have seen it.                  *)
THEOREM NothingIsEarly ==
  ASSUME Schedule = {}
  PROVE  RoomSpec => []NothingBeforeSale
<1>1. RoomInit => SaleInv
  BY SaleInitially
<1>2. TurnsInv /\ SaleInv /\ [RoomNext]_vars => SaleInv'
  BY RoomStepKeepsSale
<1>3. SaleInv => NothingBeforeSale
  BY DEF SaleInv
<1> QED
  BY <1>1, <1>2, <1>3, TurnsInvariant, PTL DEF RoomSpec
-----------------------------------------------------------------------------
(* Types.  Those of the places and of the controllers' work are parts of   *)
(* the invariants above; the hash meta.* and the clocks have their own.    *)
MetaTypes ==
    /\ clock \in 0..MaxClock
    /\ saleStart \in 0..MaxClock
    /\ shuffled \in BOOLEAN
    /\ stock \in StockFlags
    /\ known \in [Instance -> 0..MaxClock]

(* No step of the room, its instances or Redis leaves those types.         *)
LEMMA RoomStepMetaTypes ==
  ASSUME MetaTypes, [RoomNext]_vars
  PROVE  MetaTypes'
<1> USE RoomAssumption DEF MetaTypes
<1>1. CASE \E c \in Customer : Join(c) \/ SlotLapses(c)
  BY <1>1 DEF Join, SlotLapses
<1>2. ASSUME NEW i \in Instance, Controller(i)
      PROVE  MetaTypes'
  <2>1. CASE Elected(i) \/ ReadSaleStart(i)
    BY <2>1 DEF Elected, ReadSaleStart, keys
  <2>2. CASE Lottery(i) \/ Tick(i)
    BY <2>2 DEF Lottery, Shuffle, Tick
  <2>3. CASE Refused(i) \/ LotteryFails(i)
    BY <2>3 DEF Refused, LotteryFails, roomVars, keys
  <2> QED
    BY <1>2, <2>1, <2>2, <2>3 DEF Controller
<1>3. CASE UNCHANGED roomVars
  BY <1>3 DEF roomVars, keys
<1>4. CASE \/ \E t \in 1..MaxClock : PublishSaleStart(t)
           \/ \E s \in StockFlags : SetSaleState(s)
           \/ ClockTick
  BY <1>4 DEF PublishSaleStart, SetSaleState, ClockTick, keys
<1> QED
  BY <1>1, <1>2, <1>3, <1>4 DEF RoomNext, Lease, vars

(* What the scripts write and the controllers read keeps its types through *)
(* every interleaving of customers, terms and organizers.                  *)
THEOREM RoomTypes == RoomSpec => []RoomTypeOK
<1>1. RoomInit => MetaTypes
  <2> SUFFICES ASSUME RoomInit
               PROVE  MetaTypes
    OBVIOUS
  <2>1. 0 \in 0..MaxClock /\ T0 \in 0..MaxClock
    BY RoomAssumption
  <2>2. /\ clock = 0 /\ saleStart \in {0, T0} /\ shuffled = FALSE
        /\ stock = "on_sale" /\ known = [i \in Instance |-> 0]
    BY DEF RoomInit, Absent
  <2> QED
    BY <2>1, <2>2 DEF MetaTypes, StockFlags
<1>2. MetaTypes /\ [RoomNext]_vars => MetaTypes'
  BY RoomStepMetaTypes
<1>3. LeaseTypeOK /\ PlacesInv /\ TurnsInv /\ MetaTypes => RoomTypeOK
  BY DEF RoomTypeOK, PlacesInv, Placed, TurnsInv, MetaTypes
<1> QED
  BY <1>1, <1>2, <1>3, RoomImplementsLease, LeaseTypes, PlacesInvariant,
     TurnsInvariant, PTL DEF RoomSpec
=============================================================================
