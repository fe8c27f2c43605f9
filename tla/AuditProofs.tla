----------------------------- MODULE AuditProofs -----------------------------
(***************************************************************************)
(* What holds of the event ledger for any number of events, batches,       *)
(* failing and unheard writes, crashes and shutdowns: table, batch in      *)
(* flight and queue are the events emitted, in their order, and the        *)
(* counters are what these rows say.                                       *)
(*                                                                         *)
(* Ids ascend along the events, so a batch that can be inserted has no row *)
(* in the table, and a batch that came back although it was committed is   *)
(* the end of the table and the beginning of the queue.                    *)
(*                                                                         *)
(* What is reported to those outside the backend holds as well: a pair of  *)
(* transaction and kind is told again only after it was forgotten, and     *)
(* what a seller's report sums up is a beginning of all events, in which   *)
(* every claim counts once.  And the book of orders that is sold fits the  *)
(* pair it is computed from, for any fee, levels and swaps.                *)
(***************************************************************************)
EXTENDS EventFeed, Receipts, Reports, OrderBook, Sums, FiniteSetTheorems, SequenceTheorems, TLAPS

Ascending(list) == \A i, j \in DOMAIN list : i < j => list[i].id < list[j].id

(* Ids ascend, the next one is above them all, and a process that is down   *)
(* keeps nothing but the table.                                             *)
InOrder ==
    /\ Ascending(log)
    /\ Running => \A i \in DOMAIN log : log[i].id < nextId
    /\ ~Running => log = Event /\ batch = None /\ pending = None

(* The first k of the queue are the last rows of the table.                 *)
WrittenUpTo(k) ==
    /\ \A i \in DOMAIN Queue : IsRow(Queue[i]) <=> i =< k
    /\ log = Event \o SubSeq(Queue, k + 1, Len(Queue))

LedgerInv == LedgerTypeOK /\ InOrder /\ LedgerIsWhole

-----------------------------------------------------------------------------
(* Types.                                                                   *)

LEMMA LatestIsTyped ==
    ASSUME NEW S, NEW s \in Seq(S), NEW n \in Nat \ {0}
    PROVE  Latest(s, n) \in Seq(S) /\ Len(Latest(s, n)) =< n
<1>1. CASE Len(s) > n
  <2>1. \A i \in Len(s) - n + 1..Len(s) : s[i] \in S
        BY <1>1
  <2>2. SubSeq(s, Len(s) - n + 1, Len(s)) \in Seq(S)
        /\ Len(SubSeq(s, Len(s) - n + 1, Len(s))) = n
        BY <1>1, <2>1, SubSeqProperties
  <2>3. QED
        BY <1>1, <2>2 DEF Latest
<1>2. CASE ~(Len(s) > n)
      BY <1>2, LenProperties DEF Latest
<1>3. QED
      BY <1>1, <1>2

LEMMA NewEventIsTyped ==
    ASSUME LedgerTypeOK, NEW type \in EventTypes
    PROVE  NewEvent(type) \in Events
  BY DEF LedgerTypeOK, NewEvent, Events

LEMMA IdIsTyped ==
    ASSUME NEW list \in Seq(Events), NEW i \in DOMAIN list
    PROVE  list[i] \in Events /\ list[i].id \in Nat
<1>1. list[i] \in Events
      OBVIOUS
<1>2. QED
      BY <1>1 DEF Events

LEMMA PartsAreTyped ==
    ASSUME NEW s \in Seq(Events), NEW t \in Seq(Events), NEW k \in Nat
    PROVE  s \o t \in Seq(Events) /\ SubSeq(s, k + 1, Len(s)) \in Seq(Events)
<1>1. \A i \in k + 1..Len(s) : s[i] \in Events
      OBVIOUS
<1>2. k + 1 \in Int /\ Len(s) \in Int
      OBVIOUS
<1>3. SubSeq(s, k + 1, Len(s)) \in Seq(Events)
      BY <1>1, <1>2, SubSeqProperties
<1>4. QED
      BY <1>3, ConcatProperties

LEMMA JoinIsAssociative ==
    \A s, t, u \in Seq(Events) : (s \o t) \o u = s \o (t \o u)
  BY ConcatAssociative

LEMMA AppendOfConcat ==
    ASSUME NEW s \in Seq(Events), NEW t \in Seq(Events), NEW e \in Events
    PROVE  Append(s \o t, e) = s \o Append(t, e)
<1>1. s \o t \in Seq(Events) /\ <<e>> \in Seq(Events)
      OBVIOUS
<1>2. Append(s \o t, e) = (s \o t) \o <<e>> /\ Append(t, e) = t \o <<e>>
      BY <1>1, AppendIsConcat
<1>3. QED
      BY <1>1, <1>2, ConcatAssociative

LEMMA EndOfConcat ==
    ASSUME NEW s \in Seq(Events), NEW t \in Seq(Events)
    PROVE  SubSeq(s \o t, Len(s) + 1, Len(s \o t)) = t
<1>1. Len(s \o t) = Len(s) + Len(t) /\ Len(s) \in Nat /\ Len(t) \in Nat
      OBVIOUS
<1>2. CASE Len(t) = 0
  <2>1. t = <<>>
        BY <1>2
  <2>2. SubSeq(s \o t, Len(s) + 1, Len(s \o t)) = <<>>
        BY <1>1, <1>2, SubSeqEmpty
  <2>3. QED
        BY <2>1, <2>2
<1>3. CASE Len(t) > 0
  <2>1. PICK m \in Nat, n \in Nat : m = Len(s) + 1 /\ n = Len(s) + Len(t)
        BY <1>1
  <2>2. m \in Len(s) + 1..Len(s) + Len(t) /\ n \in Len(s) + 1..Len(s) + Len(t)
        /\ m - Len(s) = 1 /\ n - Len(s) = Len(t)
        BY <1>1, <1>3, <2>1
  <2>3. SubSeq(s \o t, m, n) = SubSeq(t, m - Len(s), n - Len(s))
        BY <2>2, SubSeqOfConcat2
  <2>4. SubSeq(t, 1, Len(t)) = t
        BY SubSeqFull
  <2>5. QED
        BY <1>1, <2>1, <2>2, <2>3, <2>4
<1>4. QED
      BY <1>1, <1>2, <1>3

LEMMA EndOfAppend ==
    ASSUME NEW s \in Seq(Events), NEW e \in Events, NEW k \in 0..Len(s)
    PROVE  SubSeq(Append(s, e), k + 1, Len(s) + 1) = Append(SubSeq(s, k + 1, Len(s)), e)
<1>1. Append(s, e) \in Seq(Events) /\ Len(Append(s, e)) = Len(s) + 1 /\ Append(s, e)[Len(s) + 1] = e
      OBVIOUS
<1>2. SubSeq(Append(s, e), k + 1, Len(s) + 1)
        = SubSeq(Append(s, e), k + 1, Len(s)) \o <<e>>
  <2>1. PICK a \in Seq(Events) : a = Append(s, e)
        BY <1>1
  <2>2. PICK m \in Nat, n \in Nat : m = k + 1 /\ n = Len(s) + 1
        OBVIOUS
  <2>3. m \in 1..Len(a) /\ n \in m..Len(a) /\ n - 1 = Len(s)
        BY <1>1, <2>1, <2>2
  <2>4. SubSeq(a, m, n) = SubSeq(a, m, n - 1) \o <<a[n]>>
        BY <2>3, SubSeqRecursiveSecond
  <2>5. QED
        BY <1>1, <2>1, <2>2, <2>3, <2>4
<1>3. SubSeq(Append(s, e), k + 1, Len(s)) = SubSeq(s, k + 1, Len(s))
  <2>1. CASE k = Len(s)
    <3>1. Len(s) < k + 1 /\ Len(s) \in Int
          BY <2>1
    <3>2. QED
          BY <3>1, SubSeqEmpty
  <2>2. CASE k < Len(s)
    <3>1. Append(s, e) = s \o <<e>> /\ <<e>> \in Seq(Events)
          BY AppendIsConcat
    <3>2. k + 1 \in 1..Len(s) /\ Len(s) \in 1..Len(s)
          BY <2>2
    <3>3. QED
          BY <3>1, <3>2, SubSeqOfConcat1
  <2>3. QED
        BY <2>1, <2>2
<1>4. SubSeq(s, k + 1, Len(s)) \in Seq(Events)
      OBVIOUS
<1>5. QED
      BY <1>2, <1>3, <1>4, AppendIsConcat

LEMMA QueueIsTyped ==
    ASSUME LedgerTypeOK
    PROVE  Queue \in Seq(Events)
  BY ConcatProperties DEF LedgerTypeOK, Queue

LEMMA LastIdIsTyped ==
    ASSUME NEW list \in Seq(Events)
    PROVE  LastId(list) \in Nat
<1>1. CASE list = <<>>
      BY <1>1 DEF LastId, None
<1>2. CASE list # <<>>
  <2>1. list[Len(list)] \in Events
        BY <1>2, EmptySeq
  <2>2. list[Len(list)].id \in Nat
        BY <2>1 DEF Events
  <2>3. QED
        BY <1>2, <2>2 DEF LastId, None
<1>3. QED
      BY <1>1, <1>2

LEMMA CountIsTyped ==
    ASSUME NEW list \in Seq(Events)
    PROVE  /\ IsFiniteSet({i \in DOMAIN list : list[i].type = Accepted})
           /\ Counted(list) \in Nat
<1>1. IsFiniteSet(1..Len(list))
      BY FS_Interval
<1>2. {i \in DOMAIN list : list[i].type = Accepted} \in SUBSET (1..Len(list))
      OBVIOUS
<1>3. QED
      BY <1>1, <1>2, FS_Subset, FS_CardinalityType DEF Counted

LEMMA CountGrows ==
    ASSUME NEW list \in Seq(Events), NEW e \in Events
    PROVE  Counted(Append(list, e)) = Counted(list) + (IF e.type = Accepted THEN 1 ELSE 0)
<1> DEFINE Before == {i \in DOMAIN list : list[i].type = Accepted}
           After == {i \in DOMAIN Append(list, e) : Append(list, e)[i].type = Accepted}
           n == Len(list) + 1
<1>1. n \notin Before
      OBVIOUS
<1>2. After = IF e.type = Accepted THEN Before \cup {n} ELSE Before
  <2>1. DOMAIN Append(list, e) = DOMAIN list \cup {n} /\ n \notin DOMAIN list
        OBVIOUS
  <2>2. Append(list, e)[n] = e
        OBVIOUS
  <2>3. \A i \in DOMAIN list : Append(list, e)[i] = list[i]
        OBVIOUS
  <2>4. \A i : i \in After <=> i \in Before \/ (i = n /\ e.type = Accepted)
        BY <2>1, <2>2, <2>3
  <2>5. CASE e.type = Accepted
        BY <2>4, <2>5
  <2>6. CASE e.type # Accepted
        BY <2>4, <2>6
  <2>7. QED
        BY <2>5, <2>6
<1>3. IsFiniteSet(Before)
      BY CountIsTyped
<1>4. Cardinality(Before \cup {n}) = Cardinality(Before) + 1
      BY <1>1, <1>3, FS_AddElement
<1>5. Cardinality(Before) \in Nat
      BY <1>3, FS_CardinalityType
<1>6. Counted(list) = Cardinality(Before) /\ Counted(Append(list, e)) = Cardinality(After)
      BY DEF Counted
<1>7. CASE e.type = Accepted
  <2>1. After = Before \cup {n}
        BY <1>2, <1>7
  <2> HIDE DEF After, Before, n
  <2>2. Counted(Append(list, e)) = Counted(list) + 1
        BY <1>4, <1>6, <2>1
  <2>3. QED
        BY <1>7, <2>2
<1>8. CASE e.type # Accepted
  <2>1. After = Before
        BY <1>2, <1>8
  <2> HIDE DEF After, Before, n
  <2>2. Counted(Append(list, e)) = Counted(list) /\ Counted(list) \in Nat
        BY <1>5, <1>6, <2>1
  <2>3. QED
        BY <1>8, <2>2
<1>9. QED
      BY <1>7, <1>8
-----------------------------------------------------------------------------
(* Order.                                                                   *)

LEMMA BeginningAscends ==
    ASSUME NEW s \in Seq(Events), NEW t \in Seq(Events), Ascending(s \o t)
    PROVE  Ascending(s)
<1>1. \A i \in DOMAIN s : i \in DOMAIN (s \o t) /\ (s \o t)[i] = s[i]
      OBVIOUS
<1>2. QED
      BY <1>1 DEF Ascending

LEMMA AppendAscends ==
    ASSUME NEW s \in Seq(Events), Ascending(s), NEW e \in Events,
           \A i \in DOMAIN s : s[i].id < e.id
    PROVE  Ascending(Append(s, e))
<1>1. \A i \in DOMAIN Append(s, e) : i \in DOMAIN s \/ i = Len(s) + 1
      OBVIOUS
<1>2. \A i \in DOMAIN s : Append(s, e)[i] = s[i] /\ i < Len(s) + 1
      OBVIOUS
<1>3. Append(s, e)[Len(s) + 1] = e
      OBVIOUS
<1>4. SUFFICES ASSUME NEW i \in DOMAIN Append(s, e), NEW j \in DOMAIN Append(s, e), i < j
               PROVE  Append(s, e)[i].id < Append(s, e)[j].id
      BY DEF Ascending
<1>5. i \in DOMAIN s
      BY <1>1, <1>4
<1>6. CASE j \in DOMAIN s
      BY <1>2, <1>4, <1>5, <1>6 DEF Ascending
<1>7. CASE j = Len(s) + 1
      BY <1>2, <1>3, <1>5, <1>7
<1>8. QED
      BY <1>1, <1>6, <1>7

(* No event of the queue is a row, and what the table lacks is the queue,   *)
(* when the batch in flight can be inserted or nothing is in flight.        *)
LEMMA AllUnwritten ==
    ASSUME LedgerTypeOK, NothingSkipped, Insertable, batch # None
    PROVE  /\ \A i \in DOMAIN Queue : ~IsRow(Queue[i])
           /\ log = Event \o Queue
<1>1. PICK k \in 0..Len(Queue) : WrittenUpTo(k)
      BY DEF NothingSkipped, WrittenUpTo
<1>2. Queue \in Seq(Events)
      BY QueueIsTyped
<1>3. batch \in Seq(Events) /\ pending \in Seq(Events)
      BY DEF LedgerTypeOK
<1>4. 1 \in DOMAIN batch
      BY <1>3, EmptySeq DEF None
<1>5. 1 \in DOMAIN Queue /\ Queue[1] = batch[1]
      BY <1>3, <1>4, ConcatProperties DEF Queue
<1>6. ~IsRow(Queue[1])
      BY <1>4, <1>5 DEF Insertable
<1>7. k = 0
      BY <1>1, <1>5, <1>6 DEF WrittenUpTo
<1>8. SubSeq(Queue, k + 1, Len(Queue)) = Queue
      BY <1>2, <1>7, SubSeqFull
<1>9. QED
      BY <1>1, <1>7, <1>8 DEF WrittenUpTo
-----------------------------------------------------------------------------
(* One lemma per group of actions of the ledger.                            *)

LEMMA EmitKeepsOrder ==
    ASSUME LedgerInv, NEW type \in EventTypes, emit(type)
    PROVE  InOrder' /\ StatsAgree'
<1>1. PICK e \in Events : e = NewEvent(type)
      BY NewEventIsTyped DEF LedgerInv
<1>2. e.id = nextId /\ e.type = type
      BY <1>1 DEF NewEvent
<1>3. Running /\ Running'
      BY DEF emit, Running
<1>4. \A i \in DOMAIN log : log[i].id < e.id
      BY <1>2, <1>3 DEF LedgerInv, InOrder
<1>5. log \in Seq(Events) /\ nextId \in Nat /\ vouchersAccepted \in Nat
      BY DEF LedgerInv, LedgerTypeOK
<1>6. nextId' = nextId + 1
      BY DEF emit
<1>7. vouchersAccepted = Counted(log)
      BY <1>3 DEF LedgerInv, LedgerIsWhole, StatsAgree
<1>8. CASE type \in Transient
  <2>1. log' = log /\ vouchersAccepted' = vouchersAccepted
        BY <1>5, <1>8, LedgerAssumption DEF emit
  <2>2. \A i \in DOMAIN log : log[i].id \in Nat
        BY <1>5, IdIsTyped
  <2>3. \A i \in DOMAIN log : log[i].id < nextId'
        BY <1>2, <1>4, <1>5, <1>6, <2>2
  <2>4. QED
        BY <1>3, <1>7, <2>1, <2>3 DEF LedgerInv, InOrder, StatsAgree, Counted
<1>9. CASE type \notin Transient
  <2>1. log' = Append(log, e)
        BY <1>1, <1>9 DEF emit
  <2>2. Ascending(Append(log, e))
        BY <1>4, <1>5, AppendAscends DEF LedgerInv, InOrder
  <2>3. \A i \in DOMAIN Append(log, e) : i \in DOMAIN log \/ i = Len(log) + 1
        BY <1>5
  <2>4. \A i \in DOMAIN log : Append(log, e)[i] = log[i] /\ log[i].id \in Nat
        BY <1>5, IdIsTyped
  <2>5. Append(log, e)[Len(log) + 1] = e
        BY <1>5
  <2>6. \A i \in DOMAIN log' : log'[i].id < nextId'
        BY <1>2, <1>4, <1>5, <1>6, <2>1, <2>3, <2>4, <2>5
  <2>7. Counted(Append(log, e)) = Counted(log) + (IF e.type = Accepted THEN 1 ELSE 0)
        BY <1>5, CountGrows
  <2>8. vouchersAccepted' = Counted(log')
        BY <1>2, <1>7, <2>1, <2>7 DEF emit
  <2>9. QED
        BY <1>3, <2>1, <2>2, <2>6, <2>8 DEF InOrder, StatsAgree, Ascending
<1>10. QED
       BY <1>8, <1>9

LEMMA EmitSkipsNothing ==
    ASSUME LedgerInv, NEW type \in EventTypes, emit(type)
    PROVE  NothingSkipped'
<1>1. PICK e \in Events : e = NewEvent(type)
      BY NewEventIsTyped DEF LedgerInv
<1>2. PICK k \in 0..Len(Queue) : WrittenUpTo(k)
      BY DEF LedgerInv, LedgerIsWhole, NothingSkipped, WrittenUpTo
<1>3. Queue \in Seq(Events) /\ log \in Seq(Events) /\ Event \in Seq(Events)
      /\ batch \in Seq(Events) /\ pending \in Seq(Events)
      BY QueueIsTyped DEF LedgerInv, LedgerTypeOK
<1>4. CASE type \in Transient
  <2>1. Queue' = Queue /\ log' = log /\ Event' = Event
        BY <1>4 DEF emit, Queue
  <2>2. QED
        BY <1>2, <2>1 DEF NothingSkipped, WrittenUpTo, IsRow
<1>5. CASE type \notin Transient
  <2>1. log' = Append(log, e) /\ pending' = Append(pending, e)
        /\ batch' = batch /\ Event' = Event
        BY <1>1, <1>5 DEF emit
  <2>2. Queue' = Append(Queue, e)
    <3>1. \A s, t \in Seq(Events) : Append(s \o t, e) = s \o Append(t, e)
          BY <1>1, AppendOfConcat
    <3>2. Append(batch \o pending, e) = batch \o Append(pending, e)
          BY <1>3, <3>1
    <3>3. QED
          BY <2>1, <3>2 DEF Queue
  <2>3. ~IsRow(e)
    <3>1. SUFFICES ASSUME NEW i \in DOMAIN Event
                   PROVE  Event[i].id # e.id
          BY DEF IsRow
    <3>2. i \in DOMAIN log /\ log[i] = Event[i]
      <4>1. SubSeq(Queue, k + 1, Len(Queue)) \in Seq(Events)
            BY <1>3
      <4>2. QED
            BY <1>2, <1>3, <4>1, ConcatProperties DEF WrittenUpTo
    <3>3. log[i].id < e.id /\ log[i].id \in Nat /\ e.id \in Nat
      <4>1. e.id = nextId /\ Running
            BY <1>1 DEF NewEvent, emit
      <4>2. log[i].id \in Nat /\ nextId \in Nat
            BY <1>3, <3>2, IdIsTyped DEF LedgerInv, LedgerTypeOK
      <4>3. QED
            BY <3>2, <4>1, <4>2 DEF LedgerInv, InOrder
    <3>4. QED
          BY <3>2, <3>3
  <2>4. SubSeq(Append(Queue, e), k + 1, Len(Queue) + 1)
          = Append(SubSeq(Queue, k + 1, Len(Queue)), e)
        BY <1>2, <1>3, EndOfAppend
  <2>5. log' = Event' \o SubSeq(Queue', k + 1, Len(Queue'))
    <3>1. PICK q \in Seq(Events) : q = Queue
          BY <1>3
    <3>2. PICK rest \in Seq(Events) : rest = SubSeq(Queue, k + 1, Len(Queue))
      <4>1. k \in Nat
            BY <1>2, <1>3
      <4>2. SubSeq(q, k + 1, Len(q)) \in Seq(Events)
            BY <3>1, <4>1, PartsAreTyped
      <4>3. QED
            BY <3>1, <4>2
    <3>3. PICK list \in Seq(Events) : list = Event
          BY <1>3
    <3>4. Append(list \o rest, e) = list \o Append(rest, e)
          BY <1>1, <3>2, <3>3, AppendOfConcat
    <3>5. Len(Queue') = Len(Queue) + 1
          BY <1>3, <2>2
    <3>6. QED
          BY <1>2, <2>1, <2>2, <2>4, <3>2, <3>3, <3>4, <3>5 DEF WrittenUpTo
  <2>6. \A i \in DOMAIN Queue' : IsRow(Queue'[i]) <=> i =< k
        BY <1>2, <1>3, <2>2, <2>3 DEF WrittenUpTo
  <2>7. k \in 0..Len(Queue')
        BY <1>3, <2>2
  <2>8. \A x : IsRow(x)' <=> IsRow(x)
        BY <2>1 DEF IsRow
  <2>9. QED
        BY <2>5, <2>6, <2>7, <2>8 DEF NothingSkipped
<1>6. QED
      BY <1>4, <1>5

(* The queue is the same before and after a batch leaves it or comes back.  *)
LEMMA QueueStays ==
    ASSUME LedgerInv, UNCHANGED <<Queue, Event, log>>
    PROVE  NothingSkipped'
<1>1. \A x : IsRow(x)' <=> IsRow(x)
      BY DEF IsRow
<1>2. QED
      BY <1>1 DEF LedgerInv, LedgerIsWhole, NothingSkipped

LEMMA FlushSkipsNothing ==
    ASSUME LedgerInv, batch = None, flush, UNCHANGED <<Event, log>>
    PROVE  NothingSkipped'
<1>1. pending \in Seq(Events)
      BY DEF LedgerInv, LedgerTypeOK
<1>2. Queue = pending /\ Queue' = pending
      BY <1>1, ConcatEmptySeq DEF Queue, flush, None
<1>3. QED
      BY <1>2, QueueStays

(* The process ends: the table is what the events were, with no queue.      *)
LEMMA OnlyRowsLeft ==
    ASSUME LedgerInv, Ascending(Event'), MemoryLost
    PROVE  InOrder' /\ NothingSkipped' /\ StatsAgree'
<1>1. log' = Event' /\ batch' = <<>> /\ pending' = <<>> /\ ~Running'
      BY DEF MemoryLost, None, Running
<1>2. Event \in Seq(Events) /\ batch \in Seq(Events)
      BY DEF LedgerInv, LedgerTypeOK
<1>3. Event' \in Seq(Events)
      BY <1>2, PartsAreTyped DEF MemoryLost
<1>4. Queue' = <<>>
      BY <1>1 DEF Queue
<1>5. NothingSkipped'
  <2>1. SubSeq(Queue', 0 + 1, Len(Queue')) = <<>>
        BY <1>4
  <2>2. Event' \o <<>> = Event'
        BY <1>3, ConcatEmptySeq
  <2>3. DOMAIN Queue' = {} /\ 0 \in 0..Len(Queue')
        BY <1>4
  <2>4. QED
        BY <1>1, <2>1, <2>2, <2>3 DEF NothingSkipped
<1>6. QED
      BY <1>1, <1>5 DEF InOrder, StatsAgree, None, Ascending

LEMMA EndsInOrder ==
    ASSUME LedgerInv, MemoryLost
    PROVE  InOrder' /\ NothingSkipped' /\ StatsAgree'
<1>1. Event \in Seq(Events) /\ batch \in Seq(Events) /\ pending \in Seq(Events)
      BY DEF LedgerInv, LedgerTypeOK
<1>2. Ascending(Event)
  <2>1. PICK k \in 0..Len(Queue) : WrittenUpTo(k)
        BY DEF LedgerInv, LedgerIsWhole, NothingSkipped, WrittenUpTo
  <2>2. SubSeq(Queue, k + 1, Len(Queue)) \in Seq(Events)
        BY QueueIsTyped DEF LedgerInv
  <2>3. PICK s \in Seq(Events), t \in Seq(Events) :
             s = Event /\ t = SubSeq(Queue, k + 1, Len(Queue))
        BY <1>1, <2>2
  <2>4. Ascending(s \o t)
        BY <2>1, <2>3 DEF WrittenUpTo, LedgerInv, InOrder
  <2>5. QED
        BY <2>3, <2>4, BeginningAscends
<1>3. Insertable => Ascending(Event \o batch)
  <2>1. CASE batch = None
        BY <1>1, <1>2, <2>1, ConcatEmptySeq DEF None
  <2>2. CASE batch # None /\ Insertable
    <3>1. log = Event \o (batch \o pending)
          BY <2>2, AllUnwritten DEF LedgerInv, LedgerIsWhole, Queue
    <3>2. log = (Event \o batch) \o pending
          BY <1>1, <3>1, JoinIsAssociative
    <3>3. PICK s \in Seq(Events), t \in Seq(Events) : s = Event \o batch /\ t = pending
          BY <1>1, PartsAreTyped
    <3>4. Ascending(s \o t)
          BY <3>2, <3>3 DEF LedgerInv, InOrder
    <3>5. QED
          BY <3>3, <3>4, BeginningAscends
  <2>3. QED
        BY <2>1, <2>2
<1>4. Event' = Event \/ (Event' = Event \o batch /\ Insertable)
      BY DEF MemoryLost
<1>5. Ascending(Event')
  <2>1. CASE Event' = Event
        BY <1>2, <2>1 DEF Ascending
  <2>2. CASE Event' = Event \o batch /\ Insertable
        BY <1>3, <2>2 DEF Ascending
  <2>3. QED
        BY <1>4, <2>1, <2>2
<1>6. QED
      BY <1>5, OnlyRowsLeft

(* The ids of the rows that come after are higher.                          *)
LEMMA LaterIsNoRow ==
    ASSUME NEW s \in Seq(Events), NEW t \in Seq(Events), Ascending(s \o t),
           NEW i \in DOMAIN s, NEW j \in DOMAIN t
    PROVE  s[i].id # t[j].id
<1>1. i \in DOMAIN (s \o t) /\ (s \o t)[i] = s[i]
      OBVIOUS
<1>2. Len(s) + j \in DOMAIN (s \o t) /\ (s \o t)[Len(s) + j] = t[j] /\ i < Len(s) + j
      OBVIOUS
<1>3. s[i].id < t[j].id
      BY <1>1, <1>2 DEF Ascending
<1>4. s[i].id \in Nat /\ t[j].id \in Nat
      BY IdIsTyped
<1>5. QED
      BY <1>3, <1>4

LEMMA WrittenSkipsNothing ==
    ASSUME NEW k \in Nat, k \in 0..Len(Queue'), WrittenUpTo(k)'
    PROVE  NothingSkipped'
  BY DEF WrittenUpTo, NothingSkipped

LEMMA AnsweredSkipsNothing ==
    ASSUME LedgerInv, LedgerWritten("answered")
    PROVE  NothingSkipped'
<1>1. batch # None /\ Insertable /\ Event' = Event \o batch
      /\ pending' = pending /\ batch' = <<>> /\ log' = log
      BY DEF LedgerWritten, None
<1>2. Event \in Seq(Events) /\ batch \in Seq(Events) /\ pending \in Seq(Events)
      BY DEF LedgerInv, LedgerTypeOK
<1>3. Queue' = pending
      BY <1>1, <1>2, ConcatEmptySeq DEF Queue
<1>4. log = (Event \o batch) \o pending
  <2>1. log = Event \o (batch \o pending)
        BY <1>1, AllUnwritten DEF LedgerInv, LedgerIsWhole, Queue
  <2>2. QED
        BY <1>2, <2>1, JoinIsAssociative
<1>5. PICK s \in Seq(Events) : s = Event'
      BY <1>1, <1>2, PartsAreTyped
<1>6. PICK t \in Seq(Events) : t = pending
      BY <1>2
<1>7. Ascending(s \o t)
      BY <1>1, <1>4, <1>5, <1>6 DEF LedgerInv, InOrder
<1>8. \A i \in DOMAIN t : \A j \in DOMAIN s : s[j].id # t[i].id
      BY <1>5, <1>6, <1>7, LaterIsNoRow
<1>9. (\A i \in DOMAIN Queue : ~IsRow(Queue[i]))'
      BY <1>3, <1>5, <1>6, <1>8 DEF IsRow
<1>10. SubSeq(t, 0 + 1, Len(t)) = t
       BY SubSeqFull
<1>11. log' = Event' \o SubSeq(Queue', 0 + 1, Len(Queue'))
       BY <1>1, <1>3, <1>4, <1>6, <1>10
<1>12. 0 \in 0..Len(Queue') /\ \A i \in DOMAIN Queue' : ~(i =< 0)
       BY <1>3, <1>6
<1>13. QED
       BY <1>9, <1>11, <1>12, WrittenSkipsNothing DEF WrittenUpTo

LEMMA RefusedSkipsNothing ==
    ASSUME LedgerInv, LedgerWritten("refused")
    PROVE  NothingSkipped'
<1>1. Event' = Event /\ log' = log /\ batch' = <<>> /\ pending' = batch \o pending
      BY DEF LedgerWritten, Requeued, None
<1>2. batch \in Seq(Events) /\ pending \in Seq(Events)
      BY DEF LedgerInv, LedgerTypeOK
<1>3. Queue' = Queue
      BY <1>1, <1>2, PartsAreTyped, ConcatEmptySeq DEF Queue
<1>4. QED
      BY <1>1, <1>3, QueueStays

LEMMA UnheardSkipsNothing ==
    ASSUME LedgerInv, LedgerWritten("unheard")
    PROVE  NothingSkipped'
<1>1. batch # None /\ Insertable /\ Event' = Event \o batch
      /\ pending' = batch \o pending /\ batch' = <<>> /\ log' = log
      BY DEF LedgerWritten, Requeued, None
<1>2. Event \in Seq(Events) /\ batch \in Seq(Events) /\ pending \in Seq(Events)
      BY DEF LedgerInv, LedgerTypeOK
<1>3. Queue' = batch \o pending
      BY <1>1, <1>2, PartsAreTyped, ConcatEmptySeq DEF Queue
<1>4. log = (Event \o batch) \o pending
  <2>1. log = Event \o (batch \o pending)
        BY <1>1, AllUnwritten DEF LedgerInv, LedgerIsWhole, Queue
  <2>2. QED
        BY <1>2, <2>1, JoinIsAssociative
<1>5. PICK s \in Seq(Events) : s = Event'
      BY <1>1, <1>2, PartsAreTyped
<1>6. PICK t \in Seq(Events) : t = pending
      BY <1>2
<1>7. PICK b \in Seq(Events) : b = batch
      BY <1>2
<1>8. Ascending(s \o t)
      BY <1>1, <1>4, <1>5, <1>6 DEF LedgerInv, InOrder
<1>9. \A i \in DOMAIN t : \A j \in DOMAIN s : s[j].id # t[i].id
      BY <1>5, <1>6, <1>8, LaterIsNoRow
<1>10. \A i \in DOMAIN b : \E j \in DOMAIN s : s[j] = b[i]
  <2>1. SUFFICES ASSUME NEW i \in DOMAIN b
                 PROVE  \E j \in DOMAIN s : s[j] = b[i]
        OBVIOUS
  <2>2. Len(Event) + i \in DOMAIN s /\ s[Len(Event) + i] = b[i]
        BY <1>1, <1>2, <1>5, <1>7
  <2>3. QED
        BY <2>2
<1>11. \A i \in DOMAIN (b \o t) :
          /\ i =< Len(b) => i \in DOMAIN b /\ (b \o t)[i] = b[i]
          /\ ~(i =< Len(b)) => i - Len(b) \in DOMAIN t /\ (b \o t)[i] = t[i - Len(b)]
      BY <1>6, <1>7
<1>12. (\A i \in DOMAIN Queue : IsRow(Queue[i]) <=> i =< Len(b))'
  <2>1. Queue' = b \o t
        BY <1>3, <1>6, <1>7
  <2>2. SUFFICES ASSUME NEW i \in DOMAIN (b \o t)
                 PROVE  (\E j \in DOMAIN s : s[j].id = (b \o t)[i].id) <=> i =< Len(b)
        BY <1>5, <2>1 DEF IsRow
  <2>3. CASE i =< Len(b)
        BY <1>10, <1>11, <2>3
  <2>4. CASE ~(i =< Len(b))
        BY <1>9, <1>11, <2>4
  <2>5. QED
        BY <2>3, <2>4
<1>13. SubSeq(b \o t, Len(b) + 1, Len(b \o t)) = t
       BY <1>6, <1>7, EndOfConcat
<1>14. log' = Event' \o SubSeq(Queue', Len(b) + 1, Len(Queue'))
       BY <1>1, <1>3, <1>4, <1>6, <1>13, <1>7
<1>15. Len(b) \in 0..Len(Queue')
       BY <1>3, <1>6, <1>7
<1>16. PICK k \in Nat : k = Len(b)
       BY <1>7
<1>17. k \in 0..Len(Queue') /\ WrittenUpTo(k)'
       BY <1>12, <1>14, <1>15, <1>16 DEF WrittenUpTo
<1>18. QED
       BY <1>16, <1>17, WrittenSkipsNothing

LEMMA WriteSkipsNothing ==
    ASSUME LedgerInv, NEW fate \in Outcomes, LedgerWritten(fate)
    PROVE  NothingSkipped'
  BY AnsweredSkipsNothing, RefusedSkipsNothing, UnheardSkipsNothing DEF Outcomes

LEMMA QuietInOrder ==
    ASSUME LedgerInv, Running, Running', UNCHANGED <<log, nextId, vouchersAccepted>>
    PROVE  InOrder' /\ StatsAgree'
  BY DEF LedgerInv, LedgerIsWhole, InOrder, StatsAgree, Ascending, Counted

LEMMA BootInOrder ==
    ASSUME LedgerInv, LedgerBoots
    PROVE  InOrder' /\ NothingSkipped' /\ StatsAgree'
<1>1. ~Running /\ Running'
      BY DEF LedgerBoots, Running
<1>2. log = Event /\ log' = log /\ nextId' = LastId(Event) + 1 /\ vouchersAccepted' = Counted(Event)
      BY <1>1 DEF LedgerBoots, LedgerInv, InOrder, tableVars, Restored
<1>3. Event \in Seq(Events)
      BY DEF LedgerInv, LedgerTypeOK
<1>4. PICK list \in Seq(Events) : list = Event
      BY <1>3
<1>5. Ascending(list)
      BY <1>2, <1>4 DEF LedgerInv, InOrder
<1>6. \A i \in DOMAIN list : list[i].id =< LastId(list)
  <2>1. SUFFICES ASSUME NEW i \in DOMAIN list
                 PROVE  list[i].id =< LastId(list)
        OBVIOUS
  <2>2. LastId(list) = list[Len(list)].id /\ Len(list) \in DOMAIN list
        BY <1>4 DEF LastId, None
  <2>3. list[i].id \in Nat /\ list[Len(list)].id \in Nat
        BY <1>4, <2>2, IdIsTyped
  <2>4. i < Len(list) \/ i = Len(list)
        BY <1>4
  <2>5. i < Len(list) => list[i].id < list[Len(list)].id
        BY <1>5, <2>2 DEF Ascending
  <2>6. QED
        BY <2>2, <2>3, <2>4, <2>5
<1>7. LastId(list) \in Nat
      BY <1>4, LastIdIsTyped
<1>8. \A i \in DOMAIN list : list[i].id \in Nat
      BY <1>4, IdIsTyped
<1>9. \A i \in DOMAIN list : list[i].id < LastId(list) + 1
      BY <1>6, <1>7, <1>8
<1>10. InOrder'
       BY <1>1, <1>2, <1>4, <1>5, <1>9 DEF InOrder, Ascending
<1>11. UNCHANGED <<Queue, Event, log>>
       BY DEF LedgerBoots, tableVars, Queue
<1>12. QED
       BY <1>2, <1>10, <1>11, QueueStays DEF StatsAgree, Counted

-----------------------------------------------------------------------------
(* Types of the ledger and of the dashboard.                                *)

LEMMA EmitIsTyped ==
    ASSUME LedgerTypeOK, NEW type \in EventTypes, emit(type)
    PROVE  LedgerTypeOK'
<1>1. PICK e \in Events : e = NewEvent(type)
      BY NewEventIsTyped
<1>2. recent \in Seq(Events) /\ pending \in Seq(Events) /\ log \in Seq(Events)
      BY DEF LedgerTypeOK
<1>3. PICK latest \in Seq(Events) : latest = Remembered(e) /\ Len(latest) =< RECENT
  <2>1. Append(recent, e) \in Seq(Events)
        BY <1>1, <1>2
  <2>2. QED
        BY <2>1, LedgerAssumption, LatestIsTyped DEF Remembered
<1>4. recent' \in Seq(Events) /\ Len(recent') =< RECENT
      BY <1>1, <1>3 DEF emit, LedgerTypeOK
<1>5. pending' \in Seq(Events) /\ log' \in Seq(Events)
  <2>1. Append(pending, e) \in Seq(Events) /\ Append(log, e) \in Seq(Events)
        BY <1>1, <1>2, AppendProperties
  <2>2. QED
        BY <1>1, <1>2, <2>1 DEF emit
<1>6. nextId' \in Nat \ {0} /\ emitted' \in 0..MaxEmits /\ vouchersAccepted' \in Nat
  <2>1. MaxEmits \in Nat
        BY LedgerAssumption
  <2>2. QED
        BY <2>1 DEF emit, LedgerTypeOK
<1>7. QED
      BY <1>4, <1>5, <1>6 DEF emit, LedgerTypeOK

LEMMA FlushIsTyped ==
    ASSUME LedgerTypeOK, flush
    PROVE  batch' \in Seq(Events) /\ pending' \in Seq(Events)
  BY DEF LedgerTypeOK, flush, None

LEMMA WriteIsTyped ==
    ASSUME LedgerTypeOK, NEW fate \in Outcomes, LedgerWritten(fate)
    PROVE  LedgerTypeOK'
<1>1. Event \in Seq(Events) /\ batch \in Seq(Events) /\ pending \in Seq(Events)
      BY DEF LedgerTypeOK
<1>2. Event' \in Seq(Events) /\ pending' \in Seq(Events) /\ batch' \in Seq(Events)
      BY <1>1, PartsAreTyped DEF LedgerWritten, Requeued, None
<1>3. unheard' \in 0..MaxUnheard
      BY LedgerAssumption DEF LedgerTypeOK, LedgerWritten
<1>4. QED
      BY <1>2, <1>3 DEF LedgerTypeOK, LedgerWritten

LEMMA LossIsTyped ==
    ASSUME LedgerTypeOK, MemoryLost, stops' \in 0..MaxStops
    PROVE  LedgerTypeOK'
<1>1. Event \in Seq(Events) /\ batch \in Seq(Events)
      BY DEF LedgerTypeOK
<1>2. Event' \in Seq(Events) /\ log' \in Seq(Events)
      BY <1>1, PartsAreTyped DEF MemoryLost
<1>3. QED
      BY <1>2, LedgerAssumption DEF LedgerTypeOK, MemoryLost, None

LEMMA BootIsTyped ==
    ASSUME LedgerTypeOK, LedgerBoots
    PROVE  LedgerTypeOK'
<1>1. Event \in Seq(Events)
      BY DEF LedgerTypeOK
<1>2. recent' \in Seq(Events) /\ Len(recent') =< RECENT
      BY <1>1, LedgerAssumption, LatestIsTyped DEF LedgerBoots
<1>3. nextId' \in Nat \ {0}
      BY <1>1, LastIdIsTyped DEF LedgerBoots
<1>4. vouchersAccepted' \in Nat
      BY <1>1, CountIsTyped DEF LedgerBoots, Restored
<1>5. QED
      BY <1>2, <1>3, <1>4 DEF LedgerTypeOK, LedgerBoots, tableVars, countVars

LEMMA LedgerStepIsTyped ==
    ASSUME LedgerTypeOK, [FeedNext]_<<ledgerVars, feedVars>>
    PROVE  LedgerTypeOK'
<1>1. ASSUME NEW type \in EventTypes, EmitsToFeed(type)
      PROVE  LedgerTypeOK'
      BY <1>1, EmitIsTyped DEF EmitsToFeed
<1>2. CASE UNCHANGED ledgerVars
      BY <1>2 DEF LedgerTypeOK, ledgerVars, tableVars, memoryVars, countVars
<1>3. CASE LedgerTimer
  <2>1. batch' \in Seq(Events) /\ pending' \in Seq(Events)
        BY <1>3, FlushIsTyped DEF LedgerTimer
  <2>2. QED
        BY <1>3, <2>1 DEF LedgerTypeOK, LedgerTimer, countVars
<1>4. CASE LedgerBoots
      BY <1>4, BootIsTyped
<1>5. ASSUME NEW fate \in Outcomes, LedgerWritten(fate)
      PROVE  LedgerTypeOK'
      BY <1>5, WriteIsTyped
<1>6. CASE LedgerCrash
  <2>1. stops' \in 0..MaxStops
        BY <1>6, LedgerAssumption DEF LedgerCrash, LedgerTypeOK
  <2>2. QED
        BY <1>6, <2>1, LossIsTyped DEF LedgerCrash
<1>7. CASE LedgerStops
  <2>1. stops' \in 0..MaxStops
        BY <1>7, LedgerAssumption DEF LedgerStops, LedgerTypeOK
  <2>2. batch' \in Seq(Events) /\ pending' \in Seq(Events)
        BY <1>7, FlushIsTyped DEF LedgerStops, LedgerTypeOK
  <2>3. QED
        BY <1>7, <2>1, <2>2 DEF LedgerTypeOK, LedgerStops
<1>8. CASE LedgerExits
  <2>1. stops' \in 0..MaxStops
        BY <1>8 DEF LedgerExits, LedgerTypeOK
  <2>2. QED
        BY <1>8, <2>1, LossIsTyped DEF LedgerExits
<1>9. QED
      BY <1>1, <1>2, <1>3, <1>4, <1>5, <1>6, <1>7, <1>8
      DEF FeedNext, FeedConnects, FeedReads, FeedBreaks, ledgerVars

LEMMA ReadIsTyped ==
    ASSUME FeedTypeOK, FeedReads
    PROVE  wire' \in Seq(Events) /\ seen' \in Seq(Nat) /\ Len(seen') =< MAX_SEEN /\ shown' \in Seq(Events)
<1>1. wire \in Seq(Events) /\ wire # <<>> /\ shown \in Seq(Events) /\ seen \in Seq(Nat)
      /\ Len(seen) =< MAX_SEEN
      BY DEF FeedTypeOK, FeedReads, None
<1>2. PICK e \in Events : e = Head(wire)
      BY <1>1, HeadTailProperties
<1>3. Tail(wire) \in Seq(Events)
      BY <1>1, HeadTailProperties
<1>4. e.id \in Nat
      BY <1>2 DEF Events
<1>5. Append(seen, e.id) \in Seq(Nat) /\ Append(shown, e) \in Seq(Events)
      BY <1>1, <1>2, <1>4, AppendProperties
<1>6. SeenAfter(e.id) \in Seq(Nat) /\ Len(SeenAfter(e.id)) =< MAX_SEEN
      BY <1>5, FeedAssumption, LatestIsTyped DEF SeenAfter
<1>7. QED
      BY <1>1, <1>2, <1>3, <1>5, <1>6 DEF FeedReads

LEMMA FeedStepIsTyped ==
    ASSUME FeedTypeOK, [FeedNext]_<<ledgerVars, feedVars>>
    PROVE  FeedTypeOK'
<1>1. LedgerTypeOK'
      BY LedgerStepIsTyped DEF FeedTypeOK
<1>2. ASSUME NEW type \in EventTypes, EmitsToFeed(type)
      PROVE  FeedTypeOK'
  <2>1. PICK e \in Events : e = NewEvent(type)
        BY NewEventIsTyped DEF FeedTypeOK
  <2>2. wire \in Seq(Events)
        BY DEF FeedTypeOK
  <2>3. Append(wire, e) \in Seq(Events)
        BY <2>1, <2>2, AppendProperties
  <2>4. wire' \in Seq(Events)
        BY <1>2, <2>1, <2>2, <2>3 DEF EmitsToFeed
  <2>5. QED
        BY <1>1, <1>2, <2>4 DEF FeedTypeOK, EmitsToFeed
<1>3. CASE FeedConnects
  <2>1. connects' \in 0..MaxConnects
        BY <1>3, FeedAssumption DEF FeedConnects, FeedTypeOK
  <2>2. wire' \in Seq(Events)
        BY <1>3 DEF FeedConnects, FeedTypeOK, LedgerTypeOK
  <2>3. QED
        BY <1>1, <1>3, <2>1, <2>2 DEF FeedTypeOK, FeedConnects
<1>4. CASE FeedReads
      BY <1>1, <1>4, ReadIsTyped DEF FeedTypeOK, FeedReads
<1>5. CASE FeedLost
  <2>1. wire' \in Seq(Events)
        BY <1>5, EmptySeq DEF FeedLost, None
  <2>2. connected' \in BOOLEAN
        BY <1>5 DEF FeedLost
  <2>3. seen' \in Seq(Nat) /\ Len(seen') =< MAX_SEEN /\ shown' \in Seq(Events)
        /\ connects' \in 0..MaxConnects
        BY <1>5 DEF FeedTypeOK, FeedLost
  <2>4. QED
        BY <1>1, <2>1, <2>2, <2>3 DEF FeedTypeOK
<1>6. CASE UNCHANGED feedVars
      BY <1>1, <1>6 DEF FeedTypeOK, feedVars
<1>7. QED
      BY <1>2, <1>3, <1>4, <1>5, <1>6 DEF FeedNext, FeedBreaks

-----------------------------------------------------------------------------
(* The theorems.                                                            *)

LEMMA LedgerStepIsWhole ==
    ASSUME LedgerInv, [FeedNext]_<<ledgerVars, feedVars>>
    PROVE  InOrder' /\ NothingSkipped' /\ StatsAgree'
<1>1. ASSUME NEW type \in EventTypes, EmitsToFeed(type)
      PROVE  InOrder' /\ NothingSkipped' /\ StatsAgree'
      BY <1>1, EmitKeepsOrder, EmitSkipsNothing DEF EmitsToFeed
<1>2. CASE UNCHANGED ledgerVars
  <2>1. UNCHANGED <<Queue, Event, log>>
        BY <1>2 DEF ledgerVars, tableVars, Queue, memoryVars
  <2>2. InOrder' /\ StatsAgree'
        BY <1>2 DEF LedgerInv, LedgerIsWhole, InOrder, StatsAgree, Ascending, Counted,
              Running, ledgerVars, tableVars, memoryVars
  <2>3. QED
        BY <2>1, <2>2, QueueStays
<1>3. CASE LedgerTimer
  <2>1. NothingSkipped'
        BY <1>3, FlushSkipsNothing DEF LedgerTimer, FlushAllowed
  <2>2. QED
        BY <1>3, <2>1, QuietInOrder DEF LedgerTimer, Running
<1>4. CASE LedgerBoots
      BY <1>4, BootInOrder
<1>5. ASSUME NEW fate \in Outcomes, LedgerWritten(fate)
      PROVE  InOrder' /\ NothingSkipped' /\ StatsAgree'
  <2>1. NothingSkipped'
        BY <1>5, WriteSkipsNothing
  <2>2. QED
        BY <1>5, <2>1, QuietInOrder DEF LedgerWritten, Running
<1>6. CASE LedgerCrash \/ LedgerExits
      BY <1>6, EndsInOrder DEF LedgerCrash, LedgerExits
<1>7. CASE LedgerStops
  <2>1. Running /\ Running' /\ UNCHANGED <<Event, log, nextId, vouchersAccepted>>
        BY <1>7 DEF LedgerStops, Running
  <2>2. NothingSkipped'
    <3>1. CASE FlushAllowed
          BY <1>7, <2>1, <3>1, FlushSkipsNothing DEF LedgerStops, FlushAllowed
    <3>2. CASE ~FlushAllowed
          BY <1>7, <2>1, <3>2, QueueStays DEF LedgerStops, Queue
    <3>3. QED
          BY <3>1, <3>2
  <2>3. QED
        BY <2>1, <2>2, QuietInOrder
<1>8. QED
      BY <1>1, <1>2, <1>3, <1>4, <1>5, <1>6, <1>7
      DEF FeedNext, FeedConnects, FeedReads, FeedBreaks, ledgerVars

LEMMA LedgerBegins ==
    ASSUME FeedInit
    PROVE  FeedTypeOK /\ LedgerInv
<1>1. LedgerTypeOK
      BY LedgerAssumption DEF FeedInit, LedgerInit, LedgerTypeOK, None
<1>2. FeedTypeOK
  <2>1. wire \in Seq(Events) /\ seen \in Seq(Nat) /\ Len(seen) = 0 /\ shown \in Seq(Events)
        BY EmptySeq DEF FeedInit, None
  <2>2. connected \in BOOLEAN
        BY DEF FeedInit
  <2>3. connects \in 0..MaxConnects /\ 0 =< MAX_SEEN
        BY FeedAssumption DEF FeedInit
  <2>4. QED
        BY <1>1, <2>1, <2>2, <2>3 DEF FeedTypeOK
<1>3. log = <<>> /\ Event = <<>> /\ Queue = <<>>
      BY DEF FeedInit, LedgerInit, None, Queue
<1>4. NothingSkipped
  <2>1. Event \o SubSeq(Queue, 0 + 1, Len(Queue)) = <<>>
        BY <1>3
  <2>2. 0 \in 0..Len(Queue) /\ DOMAIN Queue = {}
        BY <1>3
  <2>3. QED
        BY <1>3, <2>1, <2>2 DEF NothingSkipped
<1>5. StatsAgree
  <2>1. {i \in DOMAIN log : log[i].type = Accepted} = {}
        BY <1>3
  <2>2. QED
        BY <2>1, FS_EmptySet DEF StatsAgree, Counted, FeedInit, LedgerInit
<1>6. InOrder
      BY <1>3 DEF InOrder, Ascending, Running, FeedInit, LedgerInit
<1>7. QED
      BY <1>1, <1>2, <1>4, <1>5, <1>6 DEF LedgerInv, LedgerIsWhole

(* Ledger and dashboard are well typed: what is remembered stays within its *)
(* limits (events.service.ts, RECENT; useFeed.ts, MAX_SEEN).                *)
THEOREM FeedTypeCorrect == FeedSpec => []FeedTypeOK
<1>1. FeedInit => FeedTypeOK
      BY LedgerBegins
<1>2. FeedTypeOK /\ [FeedNext]_<<ledgerVars, feedVars>> => FeedTypeOK'
      BY FeedStepIsTyped
<1>3. QED
      BY <1>1, <1>2, PTL DEF FeedSpec

(* Table, batch in flight and queue are the events emitted, in their order, *)
(* and the counter of accepted vouchers is what the rows will say, over any *)
(* failing or unheard writes, crashes, shutdowns and restarts               *)
(* (events.service.ts, flush and its put-back; stats.service.ts).           *)
THEOREM AlwaysWhole == FeedSpec => []LedgerIsWhole
<1>1. FeedInit => LedgerInv
      BY LedgerBegins
<1>2. LedgerInv /\ [FeedNext]_<<ledgerVars, feedVars>> => LedgerInv'
  <2>1. LedgerInv => LedgerTypeOK
        BY DEF LedgerInv
  <2>2. QED
        BY <2>1, LedgerStepIsTyped, LedgerStepIsWhole DEF LedgerInv, LedgerIsWhole
<1>3. LedgerInv => LedgerIsWhole
      BY DEF LedgerInv
<1>4. QED
      BY <1>1, <1>2, <1>3, PTL DEF FeedSpec

-----------------------------------------------------------------------------
(* Receipts.                                                                *)

CallStates == [pc : {"idle", "flushing", "reading", "writing"}, id : Ids \cup {<<>>},
               hash : Hashes \cup {NoHash}]

(* A request awaits its own flush, the only one it started; whoever writes   *)
(* an attestation may attest, and what it writes on was not attested.       *)
Attesting ==
    /\ calls \in [Calls -> CallStates]
    /\ \A c \in Calls : calls[c].hash # NoHash => c \in Attesters
    /\ \A f \in flights : f.by \in Calls => calls[f.by].pc = "flushing"
    /\ \A f, g \in flights : f.by \in Calls /\ f.by = g.by => f = g
    /\ \A c \in Calls : calls[c].pc = "writing" =>
         /\ calls[c].hash # NoHash
         /\ calls[c].id \in DOMAIN Receipt /\ Receipt[calls[c].id].responseHash = NoHash

AttestationsStay ==
    \A id \in DOMAIN Receipt :
        Receipt[id].responseHash # NoHash =>
            id \in DOMAIN Receipt' /\ Receipt'[id].responseHash = Receipt[id].responseHash

LEMMA IdleIsCallState == Idle \in CallStates /\ Idle.pc = "idle" /\ Idle.hash = NoHash
  BY DEF Idle, CallStates

LEMMA CallAt ==
    ASSUME NEW x \in CallStates, NEW p \in {"idle", "flushing", "reading", "writing"}
    PROVE  /\ [x EXCEPT !.pc = p] \in CallStates
           /\ [x EXCEPT !.pc = p].pc = p
           /\ [x EXCEPT !.pc = p].hash = x.hash
           /\ [x EXCEPT !.pc = p].id = x.id
  BY DEF CallStates

(* Rows are never taken back by an insertion.                               *)
LEMMA InsertKeeps ==
    ASSUME NEW ids, Receipt' = Inserted(ids)
    PROVE  \A id \in DOMAIN Receipt : id \in DOMAIN Receipt' /\ Receipt'[id] = Receipt[id]
  BY DEF Inserted, Fresh

LEMMA RowsKept ==
    ASSUME Attesting, UNCHANGED <<calls, flights>>,
           \A id \in DOMAIN Receipt : id \in DOMAIN Receipt' /\ Receipt'[id] = Receipt[id]
    PROVE  Attesting' /\ AttestationsStay
<1>1. AttestationsStay
      BY DEF AttestationsStay
<1>2. Attesting'
      BY DEF Attesting
<1>3. QED
      BY <1>1, <1>2

(* A flush of the timer or of the hooks is no request's.                    *)
LEMMA OwnFlush ==
    ASSUME Attesting, NEW caller \in {Timer, Hook}, StartFlush(caller), UNCHANGED <<Receipt, calls>>
    PROVE  Attesting' /\ AttestationsStay
<1>1. AttestationsStay
      BY DEF AttestationsStay
<1>2. caller \notin Calls
      BY ReceiptsAssumption
<1>3. PICK x : x = [by |-> caller, rows |-> queue]
      OBVIOUS
<1>4. x.by = caller
      BY <1>3
<1>5. flights' = flights \/ flights' = flights \cup {x}
      BY <1>3 DEF StartFlush, waitVars
<1>6. \A f \in flights' : f \in flights \/ f.by \notin Calls
      BY <1>2, <1>4, <1>5
<1>7. Attesting'
      BY <1>6 DEF Attesting
<1>8. QED
      BY <1>1, <1>7

LEMMA ArrivalAttests ==
    ASSUME Attesting, NEW c \in Calls, CallArrives(c)
    PROVE  Attesting' /\ AttestationsStay
<1>1. Receipt' = Receipt /\ calls[c].pc = "idle" /\ StartFlush(c)
      BY DEF CallArrives
<1>2. AttestationsStay
      BY <1>1 DEF AttestationsStay
<1>3. PICK id \in Ids, hash \in {NoHash} \cup (IF c \in Attesters THEN Hashes ELSE {}) :
           calls' = [calls EXCEPT
                ![c] = [pc |-> IF queue = <<>> THEN "reading" ELSE "flushing",
                        id |-> id, hash |-> hash]]
      BY DEF CallArrives
<1>4. PICK new \in CallStates :
           /\ new = [pc |-> IF queue = <<>> THEN "reading" ELSE "flushing", id |-> id, hash |-> hash]
           /\ new.pc = (IF queue = <<>> THEN "reading" ELSE "flushing")
           /\ new.hash = hash
  <2>1. id \in Ids \cup {<<>>} /\ hash \in Hashes \cup {NoHash}
        BY <1>3
  <2>2. PICK p \in {"idle", "flushing", "reading", "writing"} :
             p = IF queue = <<>> THEN "reading" ELSE "flushing"
        OBVIOUS
  <2>3. PICK new : new = [pc |-> p, id |-> id, hash |-> hash]
        OBVIOUS
  <2>4. new \in CallStates
        BY <2>1, <2>3 DEF CallStates
  <2>5. new.pc = p /\ new.hash = hash
        BY <2>3
  <2>6. QED
        BY <2>2, <2>3, <2>4, <2>5
<1>5. calls' = [calls EXCEPT ![c] = new]
      BY <1>3, <1>4
<1>6. calls' \in [Calls -> CallStates] /\ calls'[c] = new
      /\ \A d \in Calls \ {c} : calls'[d] = calls[d]
      BY <1>4, <1>5 DEF Attesting
<1>7. \A f \in flights : f.by # c
      BY <1>1 DEF Attesting
<1>8. PICK x : x = [by |-> c, rows |-> queue] /\ x.by = c
  <2>1. [by |-> c, rows |-> queue].by = c
        OBVIOUS
  <2>2. QED
        BY <2>1
<1>9. flights' = IF queue = <<>> THEN flights ELSE flights \cup {x}
      BY <1>1, <1>8 DEF StartFlush, waitVars
<1>10. \A f \in flights' : f.by \in Calls => calls'[f.by].pc = "flushing"
       BY <1>4, <1>6, <1>7, <1>8, <1>9 DEF Attesting
<1>11. \A f, g \in flights' : f.by \in Calls /\ f.by = g.by => f = g
       BY <1>7, <1>8, <1>9 DEF Attesting
<1>12. \A d \in Calls : calls'[d].hash # NoHash => d \in Attesters
       BY <1>3, <1>4, <1>6 DEF Attesting
<1>13. new.pc # "writing"
       BY <1>4
<1>14. \A d \in Calls : calls'[d].pc = "writing" =>
         /\ calls'[d].hash # NoHash
         /\ calls'[d].id \in DOMAIN Receipt' /\ Receipt'[calls'[d].id].responseHash = NoHash
       BY <1>1, <1>6, <1>13 DEF Attesting
<1>15. QED
       BY <1>2, <1>6, <1>10, <1>11, <1>12, <1>14 DEF Attesting

LEMMA FlightAttests ==
    ASSUME Attesting, NEW f \in flights, NEW fate, FlightEnds(f, fate)
    PROVE  Attesting' /\ AttestationsStay
<1>1. \A id \in DOMAIN Receipt : id \in DOMAIN Receipt' /\ Receipt'[id] = Receipt[id]
  <2>1. CASE fate = "refused"
        BY <2>1 DEF FlightEnds
  <2>2. CASE fate # "refused"
        BY <2>2, InsertKeeps DEF FlightEnds
  <2>3. QED
        BY <2>1, <2>2
<1>2. AttestationsStay
      BY <1>1 DEF AttestationsStay
<1>3. flights' = flights \ {f}
      BY DEF FlightEnds
<1>4. calls' = [c \in Calls |-> IF c = f.by THEN [calls[c] EXCEPT !.pc = "reading"] ELSE calls[c]]
      BY DEF FlightEnds
<1>5. \A c \in Calls : calls[c] \in CallStates
      BY DEF Attesting
<1>6. \A c \in Calls : calls'[c] = IF c = f.by THEN [calls[c] EXCEPT !.pc = "reading"] ELSE calls[c]
      BY <1>4
<1>7. \A c \in Calls : /\ calls'[c] \in CallStates
                       /\ calls'[c].hash = calls[c].hash
                       /\ c = f.by => calls'[c].pc = "reading"
                       /\ c # f.by => calls'[c] = calls[c]
  <2>1. SUFFICES ASSUME NEW c \in Calls
                 PROVE  /\ calls'[c] \in CallStates
                        /\ calls'[c].hash = calls[c].hash
                        /\ c = f.by => calls'[c].pc = "reading"
                        /\ c # f.by => calls'[c] = calls[c]
        OBVIOUS
  <2>2. CASE c = f.by
    <3>1. PICK x \in CallStates : x = calls[c]
          BY <1>5
    <3>2. calls'[c] = [x EXCEPT !.pc = "reading"]
          BY <1>6, <2>2, <3>1
    <3>3. /\ [x EXCEPT !.pc = "reading"] \in CallStates
          /\ [x EXCEPT !.pc = "reading"].pc = "reading"
          /\ [x EXCEPT !.pc = "reading"].hash = x.hash
          BY <3>1, CallAt
    <3>4. QED
          BY <2>2, <3>1, <3>2, <3>3
  <2>3. CASE c # f.by
        BY <1>5, <1>6, <2>3
  <2>4. QED
        BY <2>2, <2>3
<1>8. calls' \in [Calls -> CallStates]
      BY <1>4, <1>7
<1>9. \A g \in flights' : g.by \in Calls => g.by # f.by
      BY <1>3 DEF Attesting
<1>10. \A g \in flights' : g.by \in Calls => calls'[g.by].pc = "flushing"
       BY <1>3, <1>7, <1>9 DEF Attesting
<1>11. \A c \in Calls : calls'[c].pc = "writing" =>
         /\ calls'[c].hash # NoHash
         /\ calls'[c].id \in DOMAIN Receipt' /\ Receipt'[calls'[c].id].responseHash = NoHash
       BY <1>1, <1>7 DEF Attesting
<1>12. (\A g, h \in flights : g.by \in Calls /\ g.by = h.by => g = h)'
       BY <1>3 DEF Attesting
<1>13. \A c \in Calls : calls'[c].hash # NoHash => c \in Attesters
       BY <1>7 DEF Attesting
<1>14. QED
       BY <1>2, <1>8, <1>10, <1>11, <1>12, <1>13 DEF Attesting

LEMMA ReadAttests ==
    ASSUME Attesting, NEW c \in Calls, CallReads(c)
    PROVE  Attesting' /\ AttestationsStay
<1>1. PICK x \in CallStates : x = calls[c]
      BY DEF Attesting
<1> DEFINE attests == /\ calls[c].hash # NoHash
                      /\ calls[c].id \in DOMAIN Receipt /\ MayAttest(Receipt[calls[c].id])
<1>2. x.pc = "reading" /\ UNCHANGED <<Receipt, flights>>
      BY <1>1 DEF CallReads, waitVars
<1>3. calls' = [calls EXCEPT ![c] = IF attests THEN [x EXCEPT !.pc = "writing"] ELSE Idle]
      BY <1>1 DEF CallReads
<1>4. PICK y \in CallStates :
           /\ y = IF attests THEN [x EXCEPT !.pc = "writing"] ELSE Idle
           /\ y.hash \in {NoHash, x.hash}
           /\ y.pc = "writing" => attests /\ y.id = x.id /\ y.hash = x.hash
  <2>1. CASE attests
    <3>1. PICK y : y = [x EXCEPT !.pc = "writing"]
          OBVIOUS
    <3>2. y \in CallStates /\ y.hash = x.hash /\ y.id = x.id
          BY <1>1, <3>1, CallAt
    <3>3. QED
          BY <2>1, <3>1, <3>2
  <2>2. CASE ~attests
        BY <2>2, IdleIsCallState
  <2>3. QED
        BY <2>1, <2>2
<1>5. calls' = [calls EXCEPT ![c] = y]
      BY <1>3, <1>4
<1> HIDE DEF attests
<1>6. calls' \in [Calls -> CallStates] /\ calls'[c] = y
      /\ \A d \in Calls \ {c} : calls'[d] = calls[d]
      BY <1>4, <1>5 DEF Attesting
<1>7. \A f \in flights : f.by # c
      BY <1>1, <1>2 DEF Attesting
<1>8. \A f \in flights' : f.by \in Calls => calls'[f.by].pc = "flushing"
      BY <1>2, <1>6, <1>7 DEF Attesting
<1>9. \A d \in Calls : calls'[d].hash # NoHash => d \in Attesters
      BY <1>1, <1>4, <1>6 DEF Attesting
<1>10. attests => /\ x.hash # NoHash
                  /\ x.id \in DOMAIN Receipt /\ Receipt[x.id].responseHash = NoHash
       BY <1>1 DEF attests, MayAttest
<1>11. \A d \in Calls : calls'[d].pc = "writing" =>
         /\ calls'[d].hash # NoHash
         /\ calls'[d].id \in DOMAIN Receipt' /\ Receipt'[calls'[d].id].responseHash = NoHash
  <2>1. SUFFICES ASSUME NEW d \in Calls, calls'[d].pc = "writing"
                 PROVE  /\ calls'[d].hash # NoHash
                        /\ calls'[d].id \in DOMAIN Receipt
                        /\ Receipt[calls'[d].id].responseHash = NoHash
        BY <1>2
  <2>2. CASE d = c
        BY <1>4, <1>6, <1>10, <2>1, <2>2
  <2>3. CASE d # c
        BY <1>6, <2>1, <2>3 DEF Attesting
  <2>4. QED
        BY <2>2, <2>3
<1>12. (\A f, g \in flights : f.by \in Calls /\ f.by = g.by => f = g)'
       BY <1>2 DEF Attesting
<1>13. AttestationsStay
       BY <1>2 DEF AttestationsStay
<1>14. QED
       BY <1>6, <1>8, <1>9, <1>11, <1>12, <1>13 DEF Attesting

(* The only write to a row; nobody else is about to write.                  *)
LEMMA WriteAttests ==
    ASSUME Attesting, \A a, b \in Attesters : a = b, NEW c \in Calls, CallWrites(c)
    PROVE  Attesting' /\ AttestationsStay
<1>1. PICK id : id = calls[c].id
      OBVIOUS
<1>2. calls[c].pc = "writing" /\ UNCHANGED flights
      /\ calls' = [calls EXCEPT ![c] = Idle]
      /\ Receipt' = [Receipt EXCEPT ![id].responseHash = calls[c].hash]
      BY <1>1 DEF CallWrites, waitVars
<1>3. id \in DOMAIN Receipt /\ Receipt[id].responseHash = NoHash /\ c \in Attesters
      BY <1>1, <1>2 DEF Attesting
<1>4. DOMAIN Receipt' = DOMAIN Receipt /\ \A i \in DOMAIN Receipt \ {id} : Receipt'[i] = Receipt[i]
      BY <1>2
<1>5. AttestationsStay
      BY <1>3, <1>4 DEF AttestationsStay
<1>6. calls' \in [Calls -> CallStates] /\ calls'[c] = Idle
      /\ \A d \in Calls \ {c} : calls'[d] = calls[d]
      BY <1>2, IdleIsCallState DEF Attesting
<1>7. \A d \in Calls \ {c} : calls[d].pc # "writing"
      BY <1>3 DEF Attesting
<1>8. \A d \in Calls : calls'[d].pc # "writing"
      BY <1>6, <1>7, IdleIsCallState
<1>9. \A f \in flights : f.by # c
      BY <1>2 DEF Attesting
<1>10. \A f \in flights' : f.by \in Calls => calls'[f.by].pc = "flushing"
       BY <1>2, <1>6, <1>9 DEF Attesting
<1>11. \A d \in Calls : calls'[d].hash # NoHash => d \in Attesters
       BY <1>6, IdleIsCallState DEF Attesting
<1>12. (\A f, g \in flights : f.by \in Calls /\ f.by = g.by => f = g)'
       BY <1>2 DEF Attesting
<1>13. QED
       BY <1>5, <1>6, <1>8, <1>10, <1>11, <1>12 DEF Attesting

LEMMA EndAttests ==
    ASSUME Attesting, ProcessEnds
    PROVE  Attesting' /\ AttestationsStay
<1>1. \A id \in DOMAIN Receipt : id \in DOMAIN Receipt' /\ Receipt'[id] = Receipt[id]
      BY InsertKeeps DEF ProcessEnds
<1>2. flights' = {} /\ calls' = [c \in Calls |-> Idle]
      BY DEF ProcessEnds
<1>3. \A c \in Calls : calls'[c] = Idle
      BY <1>2
<1>4. calls' \in [Calls -> CallStates]
      BY <1>2, IdleIsCallState
<1>5. Attesting'
      BY <1>2, <1>3, <1>4, IdleIsCallState DEF Attesting
<1>6. AttestationsStay
      BY <1>1 DEF AttestationsStay
<1>7. QED
      BY <1>5, <1>6

LEMMA AttestingStep ==
    ASSUME Attesting, \A a, b \in Attesters : a = b, [ReceiptsNext]_receiptVars
    PROVE  Attesting' /\ AttestationsStay
<1>1. CASE issue \/ TimePasses \/ ReceiptsBoot \/ UNCHANGED receiptVars
  <2>1. UNCHANGED <<calls, flights, Receipt>>
        BY <1>1 DEF issue, TimePasses, ReceiptsBoot, receiptVars, waitVars
  <2>2. QED
        BY <2>1, RowsKept
<1>2. CASE TimerFlush
      BY <1>2, OwnFlush DEF TimerFlush
<1>3. ASSUME NEW fate \in {"answered", "refused", "unheard"}, WriteEnds(fate)
      PROVE  Attesting' /\ AttestationsStay
      BY <1>3, FlightAttests DEF WriteEnds
<1>4. ASSUME NEW c \in Calls, CallArrives(c) \/ CallReads(c) \/ CallWrites(c)
      PROVE  Attesting' /\ AttestationsStay
      BY <1>4, ArrivalAttests, ReadAttests, WriteAttests
<1>5. CASE ReceiptsCrash \/ ReceiptsExit
      BY <1>5, EndAttests DEF ReceiptsCrash, ReceiptsExit
<1>6. CASE ReceiptsStop
      BY <1>6, OwnFlush DEF ReceiptsStop
<1>7. QED
      BY <1>1, <1>2, <1>3, <1>4, <1>5, <1>6 DEF ReceiptsNext

(* With one attestation at a time, the hash a seller committed to stays,     *)
(* over flushes that overlap, batches written twice, crashes and restarts   *)
(* (receipts.service.ts, attest and skipDuplicates).                        *)
THEOREM AttestedForGood ==
    ASSUME \A a, b \in Attesters : a = b
    PROVE  ReceiptsSpec => AttestedOnce
<1>1. ReceiptsInit => Attesting
  <2>1. SUFFICES ASSUME ReceiptsInit
                 PROVE  Attesting
        OBVIOUS
  <2>2. \A c \in Calls : calls[c] = Idle
        BY <2>1 DEF ReceiptsInit
  <2>3. calls \in [Calls -> CallStates]
        BY <2>1, IdleIsCallState DEF ReceiptsInit
  <2>4. QED
        BY <2>1, <2>2, <2>3, IdleIsCallState DEF ReceiptsInit, Attesting
<1>2. Attesting /\ [ReceiptsNext]_receiptVars => Attesting'
      BY AttestingStep
<1>3. Attesting /\ [ReceiptsNext]_receiptVars => [AttestationsStay]_receiptVars
      BY AttestingStep
<1>4. AttestedOnce <=> [][AttestationsStay]_receiptVars
      BY DEF AttestedOnce, AttestationsStay
<1>5. QED
      BY <1>1, <1>2, <1>3, <1>4, PTL DEF ReceiptsSpec

-----------------------------------------------------------------------------
(* What the dashboard may be told of transactions.                          *)
Keys == {"dex.swapped", "chain.rejected"} \X Txs

Places == {"idle", "polling", "ok", "DUPLICATE", "REPORT_NOT_VERIFIED", "CHAIN_UNAVAILABLE", "lost"}

ReportsTyped ==
    /\ outcome \in [Txs -> {"NOT_FOUND", "SUCCESS", "FAILED"}]
    /\ polling \in [Reports -> [at : Places, tx : Txs \cup {NoPoll.tx}, tries : Nat]]
    /\ \A r \in Reports : polling[r].at # "idle" => polling[r].tx \in Txs
    /\ reported \in Seq(Keys) /\ told \in Seq(Keys) /\ forgotten \subseteq Keys

(* A pair that was told is remembered or was forgotten, and twice told it   *)
(* was forgotten; what is remembered was told.                              *)
ToldInv ==
    /\ ReportsTyped
    /\ \A i \in DOMAIN told :
          /\ told[i][2] \notin Alien /\ outcome[told[i][2]] # "NOT_FOUND"
          /\ told[i][1] = TypeFor(told[i][2])
          /\ told[i] \in Range(reported) \cup forgotten
    /\ \A i, j \in DOMAIN told : i # j /\ told[i] = told[j] => told[i] \in forgotten
    /\ \A k \in Range(reported) : \E i \in DOMAIN told : told[i] = k
    /\ \A r \in Reports :
          polling[r].at = "DUPLICATE" => \E i \in DOMAIN told : told[i][2] = polling[r].tx

(* A run whose process never started was not told to end; the current one  *)
(* has begun and was not; and one that is over was.                         *)
RunsInv ==
    /\ current \in 0..MaxRuns /\ process \in [Runs -> {"none", "alive", "gone"}]
    /\ exits \in [Runs -> Nat] /\ trouble \subseteq Runs /\ restarts \in Nat
    /\ \A n \in Runs : process[n] = "none" => exits[n] = 0
    /\ current # 0 => process[current] # "none"
    /\ RunsToldOnce

LEMMA RunsStep ==
    ASSUME RunsInv, [DeskNext]_deskVars
    PROVE  RunsInv'
<1> USE DeskAssumption DEF RunsInv, RunsToldOnce, Runs
<1>1. ASSUME NEW n \in Runs, AgentStarts(n) PROVE RunsInv'
  <2>0. \A m \in Runs : m \in Nat \ {0}
        OBVIOUS
  <2>1. current = 0 /\ process[n] = "none" /\ current' = n /\ UNCHANGED <<exits, restarts>>
        BY <1>1 DEF AgentStarts
  <2>2. CASE process' = [process EXCEPT ![n] = "alive"] /\ UNCHANGED trouble
        BY <2>0, <2>1, <2>2
  <2>3. CASE process' = [process EXCEPT ![n] = "gone"] /\ trouble' = trouble \cup {n}
        BY <2>0, <2>1, <2>3
  <2>4. QED
        BY <1>1, <2>2, <2>3 DEF AgentStarts
<1>2. ASSUME NEW n \in Runs, AgentExits(n) PROVE RunsInv'
  <2>1. CASE current = n
        BY <1>2, <2>1 DEF AgentExits, Done, StillRuns
  <2>2. CASE current # n
        BY <1>2, <2>2 DEF AgentExits, Done, StillRuns
  <2>3. QED
        BY <2>1, <2>2
<1>3. ASSUME NEW n \in Runs, AgentErrs(n) PROVE RunsInv'
  <2>1. CASE current = n
        BY <1>3, <2>1 DEF AgentErrs, Done, StillRuns
  <2>2. CASE current # n
        BY <1>3, <2>2 DEF AgentErrs, Done, StillRuns
  <2>3. QED
        BY <2>1, <2>2
<1>4. CASE DeskRestarts
  <2>1. /\ restarts' = restarts + 1 /\ current' = 0 /\ UNCHANGED <<exits, trouble>>
        /\ process' = [n \in Runs |-> IF process[n] = "alive" THEN "gone" ELSE process[n]]
        BY <1>4 DEF DeskRestarts
  <2>2. QED
        BY <2>1
<1>5. ASSUME UNCHANGED <<runVars, restarts>> PROVE RunsInv'
      BY <1>5 DEF runVars
<1>6. QED
      BY <1>1, <1>2, <1>3, <1>4, <1>5
      DEF DeskNext, deskVars, Applied, ReportSent, StatusUnknown, StatusFails, StatusFound

(* Pairs that are told as the chain has them stay so: an outcome is final.  *)
LEMMA AppliedKeepsTold ==
    ASSUME ToldInv, NEW t \in Txs, Applied(t)
    PROVE  ToldInv'
<1>1. PICK o \in {"SUCCESS", "FAILED"} : outcome' = [outcome EXCEPT ![t] = o]
      BY DEF Applied
<1>2. \A k \in Keys : outcome[k[2]] # "NOT_FOUND" =>
          outcome'[k[2]] = outcome[k[2]] /\ TypeFor(k[2])' = TypeFor(k[2])
      BY <1>1 DEF Applied, TypeFor, ToldInv, ReportsTyped, Keys
<1>3. outcome' \in [Txs -> {"NOT_FOUND", "SUCCESS", "FAILED"}]
      BY <1>1 DEF ToldInv, ReportsTyped
<1>4. UNCHANGED <<polling, reported, told, forgotten>>
      BY DEF Applied
<1>5. \A i \in DOMAIN told : told[i] \in Keys
      BY DEF ToldInv, ReportsTyped
<1>6. ReportsTyped'
      BY <1>3, <1>4 DEF ToldInv, ReportsTyped
<1>7. QED
      BY <1>2, <1>4, <1>5, <1>6 DEF ToldInv

(* A report goes on, without a word to the dashboard.                       *)
LEMMA PollsKeepTold ==
    ASSUME ToldInv, UNCHANGED <<outcome, reported, told, forgotten>>,
           polling' \in [Reports -> [at : Places, tx : Txs \cup {NoPoll.tx}, tries : Nat]],
           \A r \in Reports :
              /\ polling'[r].at # "idle" => polling'[r].tx \in Txs
              /\ polling'[r].at = "DUPLICATE" => \E i \in DOMAIN told : told[i][2] = polling'[r].tx
    PROVE  ToldInv'
  BY DEF ToldInv, ReportsTyped, TypeFor

LEMMA AnswersTyped ==
    ASSUME ReportsTyped, NEW r \in Reports, polling[r].at = "polling", NEW code \in Places,
           Answers(r, code)
    PROVE  /\ polling' \in [Reports -> [at : Places, tx : Txs \cup {NoPoll.tx}, tries : Nat]]
           /\ polling[r].tx \in Txs
           /\ polling'[r].at = code /\ polling'[r].tx = polling[r].tx
           /\ \A q \in Reports \ {r} : polling'[q] = polling[q]
  BY DEF ReportsTyped, Answers

LEMMA KeptWithProperties ==
    ASSUME NEW S, reported \in Seq(S), NEW key \in S
    PROVE  /\ KeptWith(key) \in Seq(S)
           /\ Range(KeptWith(key)) \subseteq Range(reported) \cup {key}
           /\ key \in Range(KeptWith(key))
<1> DEFINE old == IF Len(reported) >= MAX_REPORTED THEN Tail(reported) ELSE reported
<1>1. old \in Seq(S) /\ Range(old) \subseteq Range(reported)
  <2>1. CASE Len(reported) >= MAX_REPORTED
    <3>1. reported # <<>>
          BY <2>1, DeskAssumption
    <3>2. Tail(reported) \in Seq(S) /\ Len(Tail(reported)) = Len(reported) - 1
          /\ \A i \in 1..Len(Tail(reported)) : Tail(reported)[i] = reported[i + 1]
          BY <3>1, HeadTailProperties
    <3>3. \A i \in 1..Len(Tail(reported)) : i + 1 \in 1..Len(reported)
          BY <3>2, LenProperties
    <3>4. QED
          BY <2>1, <3>2, <3>3, LenProperties DEF Range
  <2>2. QED
        BY <2>1
<1>2. KeptWith(key) = Append(old, key)
      BY DEF KeptWith
<1> HIDE DEF old
<1>3. /\ Append(old, key) \in Seq(S) /\ Len(Append(old, key)) = Len(old) + 1
      /\ \A i \in 1..Len(old) : Append(old, key)[i] = old[i]
      /\ Append(old, key)[Len(old) + 1] = key
      BY <1>1, AppendProperties
<1>4. DOMAIN Append(old, key) = 1..(Len(old) + 1) /\ DOMAIN old = 1..Len(old) /\ Len(old) \in Nat
      BY <1>1, <1>3, LenProperties
<1>5. Range(Append(old, key)) = Range(old) \cup {key}
  <2>1. \A i \in 1..(Len(old) + 1) : i \in 1..Len(old) \/ i = Len(old) + 1
        BY <1>4
  <2>2. \A i \in DOMAIN old : i \in DOMAIN Append(old, key) /\ Append(old, key)[i] = old[i]
        BY <1>3, <1>4
  <2>3. Len(old) + 1 \in DOMAIN Append(old, key)
        BY <1>4
  <2>4. \A i \in DOMAIN Append(old, key) : Append(old, key)[i] = key \/ i \in DOMAIN old
        BY <1>3, <1>4, <2>1
  <2>5. QED
        BY <1>3, <2>2, <2>3, <2>4 DEF Range
<1>6. QED
      BY <1>1, <1>2, <1>3, <1>5

LEMMA ToldWithOneMore ==
    ASSUME ToldInv, NEW r \in Reports, polling[r].at = "polling",
           NEW t, t = polling[r].tx, NEW key, key = <<TypeFor(t), t>>,
           outcome[t] # "NOT_FOUND", t \notin Alien, key \notin Range(reported),
           Answers(r, "ok"), reported' = KeptWith(key),
           forgotten' = forgotten \cup (Range(reported) \ Range(KeptWith(key))),
           told' = Append(told, key), UNCHANGED outcome
    PROVE  ToldInv'
<1>1. t \in Txs /\ key \in Keys
      BY DEF ToldInv, ReportsTyped, TypeFor, Keys
<1>2. /\ reported' \in Seq(Keys) /\ Range(reported') \subseteq Range(reported) \cup {key}
      /\ key \in Range(reported')
      BY <1>1, KeptWithProperties DEF ToldInv, ReportsTyped
<1>3. /\ told' \in Seq(Keys) /\ Len(told') = Len(told) + 1 /\ told'[Len(told) + 1] = key
      /\ \A i \in 1..Len(told) : told'[i] = told[i]
      /\ DOMAIN told' = 1..Len(told') /\ DOMAIN told = 1..Len(told) /\ Len(told) \in Nat
      BY <1>1, AppendProperties, LenProperties DEF ToldInv, ReportsTyped
<1>4. Range(reported) \subseteq Keys
      BY DEF ToldInv, ReportsTyped, Range
<1>5. /\ forgotten' \subseteq Keys
      /\ Range(reported) \cup forgotten \subseteq Range(reported') \cup forgotten'
      BY <1>4 DEF ToldInv, ReportsTyped
<1>6. /\ polling' \in [Reports -> [at : Places, tx : Txs \cup {NoPoll.tx}, tries : Nat]]
      /\ polling'[r].at = "ok" /\ polling'[r].tx = polling[r].tx
      /\ \A q \in Reports \ {r} : polling'[q] = polling[q]
      BY AnswersTyped DEF ToldInv, Places
<1>7. ReportsTyped'
      BY <1>1, <1>2, <1>3, <1>5, <1>6 DEF ToldInv, ReportsTyped
<1>8. \A k \in Keys : TypeFor(k[2])' = TypeFor(k[2])
      BY DEF TypeFor
<1>9. \A i \in DOMAIN told' :
          /\ told'[i][2] \notin Alien /\ outcome'[told'[i][2]] # "NOT_FOUND"
          /\ (told[i][1] = TypeFor(told[i][2]))'
          /\ told'[i] \in Range(reported') \cup forgotten'
  <2> SUFFICES ASSUME NEW i \in DOMAIN told'
               PROVE  /\ told'[i][2] \notin Alien /\ outcome'[told'[i][2]] # "NOT_FOUND"
                      /\ (told[i][1] = TypeFor(told[i][2]))'
                      /\ told'[i] \in Range(reported') \cup forgotten'
      OBVIOUS
  <2>1. CASE i = Len(told) + 1
        BY <1>2, <1>3, <2>1 DEF TypeFor
  <2>2. CASE i \in DOMAIN told
    <3>1. told'[i] = told[i] /\ told[i] \in Keys
          BY <1>3, <2>2 DEF ToldInv, ReportsTyped
    <3>2. QED
          BY <1>5, <1>8, <2>2, <3>1 DEF ToldInv
  <2>3. QED
        BY <1>3, <2>1, <2>2
<1>10. \A i, j \in DOMAIN told' : i # j /\ told'[i] = told'[j] => told'[i] \in forgotten'
  <2>1. \A i \in DOMAIN told : told[i] = key => key \in forgotten
        BY DEF ToldInv
  <2>2. forgotten \subseteq forgotten'
        OBVIOUS
  <2>3. \A i \in DOMAIN told' : i = Len(told) + 1 \/ (i \in DOMAIN told /\ told'[i] = told[i])
        BY <1>3
  <2>4. \A i, j \in DOMAIN told : i # j /\ told[i] = told[j] => told[i] \in forgotten
        BY DEF ToldInv
  <2>5. ASSUME NEW i \in DOMAIN told', NEW j \in DOMAIN told', i # j, told'[i] = told'[j]
        PROVE  told'[i] \in forgotten'
    <3>1. CASE i = Len(told) + 1
      <4>1. told'[i] = key /\ j \in DOMAIN told /\ told'[j] = told[j]
            BY <1>3, <2>3, <2>5, <3>1
      <4>2. told[j] = key
            BY <2>5, <4>1
      <4>3. QED
            BY <2>1, <2>2, <4>1, <4>2
    <3>2. CASE j = Len(told) + 1
      <4>1. told'[j] = key /\ i \in DOMAIN told /\ told'[i] = told[i]
            BY <1>3, <2>3, <2>5, <3>2
      <4>2. told[i] = key
            BY <2>5, <4>1
      <4>3. QED
            BY <2>1, <2>2, <4>1, <4>2
    <3>3. QED
          BY <2>2, <2>3, <2>4, <2>5, <3>1, <3>2
  <2>6. QED
        BY <2>5
<1>11. \A k \in Range(reported') : \E i \in DOMAIN told' : told'[i] = k
  <2>1. \E i \in DOMAIN told' : told'[i] = key
        BY <1>3
  <2>2. ASSUME NEW k \in Range(reported)
        PROVE  \E i \in DOMAIN told' : told'[i] = k
    <3>1. PICK i \in DOMAIN told : told[i] = k
          BY DEF ToldInv
    <3>2. i \in DOMAIN told' /\ told'[i] = told[i]
          BY <1>3
    <3>3. QED
          BY <3>1, <3>2
  <2>3. ASSUME NEW k \in Range(reported') PROVE \E i \in DOMAIN told' : told'[i] = k
    <3>1. k \in Range(reported) \/ k = key
          BY <1>2
    <3>2. CASE k \in Range(reported)
          BY <2>2, <3>2
    <3>3. CASE k = key
          BY <2>1, <3>3
    <3>4. QED
          BY <3>1, <3>2, <3>3
  <2>4. QED
        BY <2>3
<1>12. \A q \in Reports :
          polling'[q].at = "DUPLICATE" => \E i \in DOMAIN told' : told'[i][2] = polling'[q].tx
  <2> SUFFICES ASSUME NEW q \in Reports, polling'[q].at = "DUPLICATE"
               PROVE  \E i \in DOMAIN told' : told'[i][2] = polling'[q].tx
      OBVIOUS
  <2>1. q # r /\ polling'[q] = polling[q]
        BY <1>6
  <2>2. PICK i \in DOMAIN told : told[i][2] = polling[q].tx
        BY <2>1 DEF ToldInv
  <2>3. i \in DOMAIN told' /\ told'[i] = told[i]
        BY <1>3
  <2>4. QED
        BY <2>1, <2>2, <2>3
<1>13. QED
       BY <1>7, <1>9, <1>10, <1>11, <1>12 DEF ToldInv

LEMMA ToldStep ==
    ASSUME ToldInv, [DeskNext]_deskVars
    PROVE  ToldInv'
<1>0. ReportsTyped
      BY DEF ToldInv
<1>1. ASSUME NEW t \in Txs, Applied(t) PROVE ToldInv'
      BY <1>1, AppliedKeepsTold
<1>2. ASSUME NEW r \in Reports, NEW t \in Txs, ReportSent(r, t) PROVE ToldInv'
  <2>1. /\ polling' \in [Reports -> [at : Places, tx : Txs \cup {NoPoll.tx}, tries : Nat]]
        /\ polling'[r].at = "polling" /\ polling'[r].tx = t
        /\ \A q \in Reports \ {r} : polling'[q] = polling[q]
    <3> DEFINE sent == [at |-> "polling", tx |-> t, tries |-> 0]
    <3>1. sent \in [at : Places, tx : Txs \cup {NoPoll.tx}, tries : Nat]
          /\ sent.at = "polling" /\ sent.tx = t
          BY DEF Places
    <3>2. polling' = [polling EXCEPT ![r] = sent]
          BY <1>2 DEF ReportSent
    <3> HIDE DEF sent
    <3>3. QED
          BY <1>0, <3>1, <3>2 DEF ReportsTyped
  <2>2. UNCHANGED <<outcome, reported, told, forgotten>>
        BY <1>2 DEF ReportSent
  <2>3. \A q \in Reports :
              /\ polling'[q].at # "idle" => polling'[q].tx \in Txs
              /\ polling'[q].at = "DUPLICATE" => \E i \in DOMAIN told : told[i][2] = polling'[q].tx
    <3> SUFFICES ASSUME NEW q \in Reports
                 PROVE  /\ polling'[q].at # "idle" => polling'[q].tx \in Txs
                        /\ polling'[q].at = "DUPLICATE" =>
                              \E i \in DOMAIN told : told[i][2] = polling'[q].tx
        OBVIOUS
    <3>1. CASE q = r
          BY <2>1, <3>1
    <3>2. CASE q # r
      <4>1. polling'[q] = polling[q]
            BY <2>1, <3>2
      <4>2. /\ polling[q].at # "idle" => polling[q].tx \in Txs
            /\ polling[q].at = "DUPLICATE" =>
                  \E i \in DOMAIN told : told[i][2] = polling[q].tx
            BY DEF ToldInv, ReportsTyped
      <4>3. QED
            BY <4>1, <4>2
    <3>3. QED
          BY <3>1, <3>2
  <2>4. QED
        BY <2>1, <2>2, <2>3, PollsKeepTold
<1>3. ASSUME NEW r \in Reports, NEW code \in Places \ {"DUPLICATE"},
             polling[r].at = "polling", Answers(r, code),
             UNCHANGED <<outcome, reported, told, forgotten>>
      PROVE  ToldInv'
  <2>1. /\ polling' \in [Reports -> [at : Places, tx : Txs \cup {NoPoll.tx}, tries : Nat]]
        /\ polling[r].tx \in Txs
        /\ polling'[r].at = code /\ polling'[r].tx = polling[r].tx
        /\ \A q \in Reports \ {r} : polling'[q] = polling[q]
        BY <1>0, <1>3, AnswersTyped
  <2>2. \A q \in Reports :
              /\ polling'[q].at # "idle" => polling'[q].tx \in Txs
              /\ polling'[q].at = "DUPLICATE" => \E i \in DOMAIN told : told[i][2] = polling'[q].tx
        BY <1>0, <1>3, <2>1 DEF ToldInv, ReportsTyped
  <2>3. QED
        BY <1>3, <2>1, <2>2, PollsKeepTold
<1>4. ASSUME NEW r \in Reports, StatusUnknown(r) PROVE ToldInv'
  <2>1. CASE polling[r].tries + 1 < POLL_ATTEMPTS
    <3>1. /\ polling' \in [Reports -> [at : Places, tx : Txs \cup {NoPoll.tx}, tries : Nat]]
          /\ polling'[r].at = "polling" /\ polling'[r].tx = polling[r].tx
          /\ \A q \in Reports \ {r} : polling'[q] = polling[q]
      <4> DEFINE more == polling[r].tries + 1
      <4>1. more \in Nat
            BY <1>0 DEF ReportsTyped
      <4>2. polling' = [polling EXCEPT ![r].tries = more]
            BY <1>4, <2>1 DEF StatusUnknown
      <4>3. polling[r].at = "polling"
            BY <1>4 DEF StatusUnknown
      <4> HIDE DEF more
      <4>4. QED
            BY <1>0, <4>1, <4>2, <4>3 DEF ReportsTyped
    <3>2. UNCHANGED <<outcome, reported, told, forgotten>>
          BY <1>4 DEF StatusUnknown
    <3>3. \A q \in Reports :
              /\ polling'[q].at # "idle" => polling'[q].tx \in Txs
              /\ polling'[q].at = "DUPLICATE" => \E i \in DOMAIN told : told[i][2] = polling'[q].tx
          BY <1>0, <1>4, <3>1 DEF StatusUnknown, ToldInv, ReportsTyped
    <3>4. QED
          BY <3>1, <3>2, <3>3, PollsKeepTold
  <2>2. CASE ~(polling[r].tries + 1 < POLL_ATTEMPTS)
        BY <1>3, <1>4, <2>2 DEF StatusUnknown, Places
  <2>3. QED
        BY <2>1, <2>2
<1>5. ASSUME NEW r \in Reports, StatusFails(r) PROVE ToldInv'
      BY <1>3, <1>5 DEF StatusFails, Places
<1>6. ASSUME NEW r \in Reports, StatusFound(r) PROVE ToldInv'
  <2> DEFINE t == polling[r].tx
             key == <<TypeFor(t), t>>
  <2>1. polling[r].at = "polling" /\ outcome[t] # "NOT_FOUND" /\ UNCHANGED outcome
        BY <1>6 DEF StatusFound
  <2>2. \A k : Contains(reported, k) <=> k \in Range(reported)
    <3>1. DOMAIN reported = 1..Len(reported)
          BY <1>0, LenProperties DEF ReportsTyped
    <3>2. QED
          BY <3>1 DEF Contains, Range
  <2>3. ToSet(reported) = Range(reported) /\ ToSet(KeptWith(key)) = Range(KeptWith(key))
        BY DEF ToSet, Range
  <2>4. CASE ~Acceptable(t) /\ Answers(r, "REPORT_NOT_VERIFIED")
             /\ UNCHANGED <<reported, told, forgotten>>
        BY <1>3, <2>1, <2>4 DEF Places
  <2>5. CASE Contains(reported, key) /\ Answers(r, "DUPLICATE")
             /\ UNCHANGED <<reported, told, forgotten>>
    <3>1. /\ polling' \in [Reports -> [at : Places, tx : Txs \cup {NoPoll.tx}, tries : Nat]]
          /\ polling[r].tx \in Txs
          /\ polling'[r].at = "DUPLICATE" /\ polling'[r].tx = polling[r].tx
          /\ \A q \in Reports \ {r} : polling'[q] = polling[q]
          BY <1>0, <2>1, <2>5, AnswersTyped DEF Places
    <3>2. \E i \in DOMAIN told : told[i] = key
          BY <2>2, <2>5 DEF ToldInv
    <3>3. \A q \in Reports :
              /\ polling'[q].at # "idle" => polling'[q].tx \in Txs
              /\ polling'[q].at = "DUPLICATE" => \E i \in DOMAIN told : told[i][2] = polling'[q].tx
          BY <1>0, <3>1, <3>2 DEF ToldInv, ReportsTyped
    <3>4. QED
          BY <2>1, <2>5, <3>1, <3>3, PollsKeepTold
  <2>6. CASE /\ Acceptable(t) /\ ~Contains(reported, key) /\ Answers(r, "ok")
             /\ reported' = KeptWith(key) /\ told' = Append(told, key)
             /\ forgotten' = forgotten \cup (ToSet(reported) \ ToSet(KeptWith(key)))
    <3>1. t \notin Alien
          BY <2>6 DEF Acceptable
    <3> HIDE DEF key
    <3>2. QED
          BY <2>1, <2>2, <2>3, <2>6, <3>1, ToldWithOneMore DEF key
  <2>7. QED
        BY <1>6, <2>4, <2>5, <2>6 DEF StatusFound
<1>7. CASE DeskRestarts
  <2>1. /\ polling' \in [Reports -> [at : Places, tx : Txs \cup {NoPoll.tx}, tries : Nat]]
        /\ \A q \in Reports :
              /\ polling'[q].at # "idle" => polling'[q].tx \in Txs
              /\ polling'[q].at = "DUPLICATE" =>
                    polling[q].at = "DUPLICATE" /\ polling'[q].tx = polling[q].tx
        BY <1>0, <1>7 DEF DeskRestarts, ReportsTyped, Places
  <2>2. UNCHANGED <<outcome, told>> /\ reported' = <<>>
        BY <1>7 DEF DeskRestarts
  <2>3. forgotten' = forgotten \cup Range(reported)
        BY <1>7 DEF DeskRestarts, ToSet, Range
  <2>4. Range(reported') = {} /\ reported' \in Seq(Keys)
        BY <2>2, EmptySeq DEF Range
  <2>5. Range(reported) \subseteq Keys
        BY <1>0 DEF ReportsTyped, Range
  <2>6. ReportsTyped'
        BY <1>0, <2>1, <2>2, <2>3, <2>4, <2>5 DEF ReportsTyped
  <2>7. QED
        BY <2>1, <2>2, <2>3, <2>4, <2>6 DEF ToldInv, TypeFor
<1>8. ASSUME UNCHANGED reportVars PROVE ToldInv'
  <2>1. UNCHANGED <<outcome, reported, told, forgotten>> /\ polling' = polling
        BY <1>8 DEF reportVars
  <2>2. QED
        BY <1>0, <2>1, PollsKeepTold DEF ToldInv, ReportsTyped
<1>9. QED
      BY <1>1, <1>2, <1>4, <1>5, <1>6, <1>7, <1>8
      DEF DeskNext, deskVars, AgentStarts, AgentExits, AgentErrs

LEMMA ToldHolds == ToldInv /\ RunsInv => ToldOnce
<1> SUFFICES ASSUME ToldInv, RunsInv PROVE ToldOnce
    OBVIOUS
<1>1. ASSUME NEW i \in DOMAIN told, Cardinality(ToldOf(told[i])) > 1
      PROVE  told[i] \in forgotten
  <2>1. i \in ToldOf(told[i])
        BY DEF ToldOf
  <2>2. ToldOf(told[i]) # {i}
        BY <1>1, FS_Singleton
  <2>3. PICK j \in ToldOf(told[i]) : j # i
        BY <2>1, <2>2
  <2>4. QED
        BY <2>3 DEF ToldOf, ToldInv
<1>2. TransactionsToldOnce
      BY <1>1 DEF TransactionsToldOnce, ToldInv
<1>3. QED
      BY <1>2 DEF ToldOnce, RunsInv

LEMMA DeskBegins == DeskInit => ToldInv /\ RunsInv
<1> SUFFICES ASSUME DeskInit PROVE ToldInv /\ RunsInv
    OBVIOUS
<1>1. NoPoll = [at |-> "idle", tx |-> NoPoll.tx, tries |-> 0]
      BY DEF NoPoll
<1>2. polling \in [Reports -> [at : Places, tx : Txs \cup {NoPoll.tx}, tries : Nat]]
      /\ \A r \in Reports : polling[r].at = "idle"
  <2> DEFINE x == NoPoll.tx
  <2>1. NoPoll = [at |-> "idle", tx |-> x, tries |-> 0]
        BY <1>1
  <2> HIDE DEF x
  <2>2. QED
        BY <2>1 DEF DeskInit, Places, x
<1>3. reported = <<>> /\ told = <<>> /\ Range(reported) = {} /\ DOMAIN told = {}
      BY DEF DeskInit, Range
<1>4. ReportsTyped
      BY <1>2, <1>3, EmptySeq DEF DeskInit, ReportsTyped
<1>5. ToldInv
      BY <1>2, <1>3, <1>4 DEF ToldInv
<1>6. RunsInv
      BY DeskAssumption DEF DeskInit, RunsInv, RunsToldOnce, Runs
<1>7. QED
      BY <1>5, <1>6

(* The transactions of agents and the ends of their runs are told once      *)
(* (ToldOnce).                                                              *)
THEOREM AlwaysToldOnce == DeskSpec => []ToldOnce
<1>1. ToldInv /\ RunsInv /\ [DeskNext]_deskVars => (ToldInv /\ RunsInv)'
      BY ToldStep, RunsStep
<1>2. QED
      BY <1>1, DeskBegins, ToldHolds, PTL DEF DeskSpec

-----------------------------------------------------------------------------
(* What a sequence of events says of a seller.                              *)

SaleEvents == [type : {ClaimType, AcceptedType}, payTo : Sellers, amount : Nat, tx : Nat]

AmountsIn(q) == [i \in DOMAIN q |-> q[i].amount]

About(q, type, s) == {i \in DOMAIN q : q[i].type = type /\ q[i].payTo = s}

FirstsOf(q, events) == {i \in events : \A j \in events : q[j].tx = q[i].tx => i <= j}

EarnedIn(q, s) == SumFunctionOnSet(AmountsIn(q), About(q, AcceptedType, s))
SettledIn(q, s) == SumFunctionOnSet(AmountsIn(q), FirstsOf(q, About(q, ClaimType, s)))

(* All events: written, being written, waiting.                             *)
All == rows \o inFlight \o queued

SalesTyped ==
    /\ lastAccepted \in [Sellers -> Nat] /\ claimed \in [Sellers -> Nat]
    /\ \A s \in Sellers : claimed[s] <= lastAccepted[s]
    /\ rows \in Seq(SaleEvents) /\ inFlight \in Seq(SaleEvents) /\ queued \in Seq(SaleEvents)
    /\ report \in [at : {"none", "flushing", "reading", "earnedRead", "settledRead", "bothRead",
                          "done"},
                   earned : Nat, settled : Nat, receivable : Int]
    /\ wanted \in [earned : Nat, settled : Nat, whole : BOOLEAN]

(* The events say what was accepted and claimed, and every claim has a      *)
(* number.                                                                  *)
BooksKept ==
    /\ \A s \in Sellers : EarnedIn(All, s) = lastAccepted[s] /\ SettledIn(All, s) = claimed[s]
    /\ \E n \in Nat : Claims = 1..n

Has(q) == EarnedIn(q, Reporter) >= wanted.earned /\ SettledIn(q, Reporter) >= wanted.settled

(* What is known of the report is no more than what was sold, and no less   *)
(* than when it was asked for if its flush writes all of that.              *)
ReportRight ==
    /\ wanted.earned <= lastAccepted[Reporter] /\ wanted.settled <= claimed[Reporter]
    /\ wanted.whole /\ report.at = "flushing" => Has(rows \o inFlight)
    /\ wanted.whole /\ report.at \in {"reading", "earnedRead", "settledRead"} => Has(rows)
    /\ report.at \in {"earnedRead", "bothRead", "done"} =>
         /\ report.earned <= lastAccepted[Reporter]
         /\ wanted.whole => report.earned >= wanted.earned
    /\ report.at \in {"settledRead", "bothRead", "done"} =>
         /\ report.settled <= claimed[Reporter]
         /\ wanted.whole => report.settled >= wanted.settled
    /\ report.at = "done" =>
         \E a, c \in Nat : /\ report.receivable = a - c
                           /\ wanted.earned <= a /\ a <= lastAccepted[Reporter]
                           /\ wanted.settled <= c /\ c <= claimed[Reporter]

WritesOf(s) == {w \in writes : w.payTo = s}

(* The row counts its owner's payments, if it has an owner; until then,     *)
(* nobody's statement has run.                                              *)
EntryRight ==
    /\ writes \subseteq [n : Nat, payTo : Sellers] /\ IsFiniteSet(writes)
    /\ \A w \in writes : w.n <= lastAccepted[w.payTo]
    /\ unlisted \in [Sellers -> Nat]
    /\ resource \in [payTo : Sellers \cup {NoPayTo}, payments : Nat]
    /\ resource.payTo = NoPayTo => resource.payments = 0
    /\ \A s \in Sellers : resource.payTo \in {NoPayTo, s} =>
          resource.payments = lastAccepted[s] - unlisted[s] - Cardinality(WritesOf(s))

SalesInv == SalesTyped /\ BooksKept /\ ReportRight /\ EntryRight

-----------------------------------------------------------------------------
(* Sums over a sequence that grows.                                         *)

LEMMA SumWithNew ==
    ASSUME NEW f, NEW g, NEW S, IsFiniteSet(S), NEW x, x \notin S, g[x] \in Int,
           \A y \in S : f[y] \in Int /\ g[y] = f[y]
    PROVE  SumFunctionOnSet(g, S \cup {x}) = SumFunctionOnSet(f, S) + g[x]
<1>1. IsFiniteSet(S \cup {x}) /\ x \in S \cup {x} /\ (S \cup {x}) \ {x} = S
      BY FS_AddElement
<1>2. \A y \in S \cup {x} : g[y] \in Int
      OBVIOUS
<1>3. SumFunctionOnSet(g, S \cup {x}) = g[x] + SumFunctionOnSet(g, S)
      BY <1>1, <1>2, SumWithout
<1>4. SumFunctionOnSet(g, S) = SumFunctionOnSet(f, S) /\ SumFunctionOnSet(f, S) \in Int
      BY SumOfSame, SumIsInt
<1>5. QED
      BY <1>3, <1>4

LEMMA PlacesAreFinite ==
    ASSUME NEW q \in Seq(SaleEvents), NEW type, NEW s
    PROVE  /\ DOMAIN q = 1..Len(q) /\ Len(q) \in Nat /\ IsFiniteSet(DOMAIN q)
           /\ About(q, type, s) \subseteq DOMAIN q /\ IsFiniteSet(About(q, type, s))
           /\ FirstsOf(q, About(q, type, s)) \subseteq DOMAIN q
           /\ IsFiniteSet(FirstsOf(q, About(q, type, s)))
           /\ \A i \in DOMAIN q : AmountsIn(q)[i] = q[i].amount /\ AmountsIn(q)[i] \in Nat
<1>1. DOMAIN q = 1..Len(q) /\ Len(q) \in Nat /\ \A i \in DOMAIN q : q[i] \in SaleEvents
      BY LenProperties
<1>2. IsFiniteSet(DOMAIN q)
      BY <1>1, FS_Interval
<1>3. About(q, type, s) \subseteq DOMAIN q
      BY DEF About
<1>4. FirstsOf(q, About(q, type, s)) \subseteq About(q, type, s)
      BY DEF FirstsOf
<1>5. \A i \in DOMAIN q : AmountsIn(q)[i] = q[i].amount /\ AmountsIn(q)[i] \in Nat
      BY <1>1 DEF AmountsIn, SaleEvents
<1>6. QED
      BY <1>1, <1>2, <1>3, <1>4, <1>5, FS_Subset

LEMMA SumsAreNat ==
    ASSUME NEW q \in Seq(SaleEvents), NEW s
    PROVE  EarnedIn(q, s) \in Nat /\ SettledIn(q, s) \in Nat
  BY PlacesAreFinite, SumIsNat DEF EarnedIn, SettledIn

LEMMA AppendedPlaces ==
    ASSUME NEW q \in Seq(SaleEvents), NEW e \in SaleEvents
    PROVE  LET n == Len(q) + 1  qe == Append(q, e) IN
           /\ qe \in Seq(SaleEvents) /\ n \in Nat /\ n \notin DOMAIN q
           /\ DOMAIN qe = DOMAIN q \cup {n} /\ qe[n] = e
           /\ \A i \in DOMAIN q : qe[i] = q[i] /\ i \in Nat /\ i < n
<1>1. /\ Append(q, e) \in Seq(SaleEvents) /\ Len(Append(q, e)) = Len(q) + 1
      /\ \A i \in 1..Len(q) : Append(q, e)[i] = q[i]
      /\ Append(q, e)[Len(q) + 1] = e
      BY AppendProperties
<1>2. DOMAIN q = 1..Len(q) /\ Len(q) \in Nat /\ DOMAIN Append(q, e) = 1..(Len(q) + 1)
      BY <1>1, LenProperties
<1>3. QED
      BY <1>1, <1>2

LEMMA EarnedAppended ==
    ASSUME NEW q \in Seq(SaleEvents), NEW e \in SaleEvents, NEW s
    PROVE  EarnedIn(Append(q, e), s)
              = EarnedIn(q, s) + (IF e.type = AcceptedType /\ e.payTo = s THEN e.amount ELSE 0)
<1> DEFINE n == Len(q) + 1
           qe == Append(q, e)
           S == About(q, AcceptedType, s)
           T == About(qe, AcceptedType, s)
<1>1. /\ qe \in Seq(SaleEvents) /\ n \in Nat /\ n \notin DOMAIN q
      /\ DOMAIN qe = DOMAIN q \cup {n} /\ qe[n] = e
      /\ \A i \in DOMAIN q : qe[i] = q[i] /\ i \in Nat /\ i < n
      BY AppendedPlaces
<1> HIDE DEF n, qe
<1>2. /\ S \subseteq DOMAIN q /\ IsFiniteSet(S)
      /\ \A i \in DOMAIN q : AmountsIn(q)[i] = q[i].amount /\ AmountsIn(q)[i] \in Nat
      /\ \A i \in DOMAIN qe : AmountsIn(qe)[i] = qe[i].amount
      BY <1>1, PlacesAreFinite
<1>3. T = IF e.type = AcceptedType /\ e.payTo = s THEN S \cup {n} ELSE S
      BY <1>1 DEF About
<1> HIDE DEF S, T
<1>4. /\ n \notin S /\ AmountsIn(qe)[n] = e.amount /\ e.amount \in Int
      /\ \A i \in S : AmountsIn(q)[i] \in Int /\ AmountsIn(qe)[i] = AmountsIn(q)[i]
  <2>1. e.amount \in Nat
        BY DEF SaleEvents
  <2>2. \A i \in S : i \in DOMAIN q /\ i \in DOMAIN qe /\ qe[i] = q[i]
        BY <1>1, <1>2
  <2>3. n \notin S /\ AmountsIn(qe)[n] = e.amount
        BY <1>1, <1>2
  <2>4. QED
        BY <1>2, <2>1, <2>2, <2>3
<1>5. CASE e.type = AcceptedType /\ e.payTo = s
  <2>1. SumFunctionOnSet(AmountsIn(qe), S \cup {n}) = SumFunctionOnSet(AmountsIn(q), S) + e.amount
        BY <1>2, <1>4, SumWithNew
  <2>2. QED
        BY <1>3, <1>5, <2>1 DEF EarnedIn, S, T, qe
<1>6. CASE ~(e.type = AcceptedType /\ e.payTo = s)
  <2>1. SumFunctionOnSet(AmountsIn(qe), S) = SumFunctionOnSet(AmountsIn(q), S)
        BY <1>2, <1>4, SumOfSame
  <2>2. SumFunctionOnSet(AmountsIn(q), S) \in Int
        BY <1>2, <1>4, SumIsInt
  <2>3. QED
        BY <1>3, <1>6, <2>1, <2>2 DEF EarnedIn, S, T, qe
<1>7. QED
      BY <1>5, <1>6

(* A claim counts if its transaction is new.                                *)
LEMMA SettledAppended ==
    ASSUME NEW q \in Seq(SaleEvents), NEW e \in SaleEvents, NEW s
    PROVE  SettledIn(Append(q, e), s) = SettledIn(q, s) +
              (IF /\ e.type = ClaimType /\ e.payTo = s
                  /\ \A i \in About(q, ClaimType, s) : q[i].tx # e.tx
               THEN e.amount ELSE 0)
<1> DEFINE n == Len(q) + 1
           qe == Append(q, e)
           A == About(q, ClaimType, s)
           B == About(qe, ClaimType, s)
           S == FirstsOf(q, A)
           T == FirstsOf(qe, B)
           new == e.type = ClaimType /\ e.payTo = s /\ \A i \in A : q[i].tx # e.tx
<1>1. /\ qe \in Seq(SaleEvents) /\ n \in Nat /\ n \notin DOMAIN q
      /\ DOMAIN qe = DOMAIN q \cup {n} /\ qe[n] = e
      /\ \A i \in DOMAIN q : qe[i] = q[i] /\ i \in Nat /\ i < n
      BY AppendedPlaces
<1> HIDE DEF n, qe
<1>2. /\ A \subseteq DOMAIN q /\ S \subseteq A /\ S \subseteq DOMAIN q /\ IsFiniteSet(S)
      /\ \A i \in DOMAIN q : AmountsIn(q)[i] = q[i].amount /\ AmountsIn(q)[i] \in Nat
      /\ \A i \in DOMAIN qe : AmountsIn(qe)[i] = qe[i].amount
      BY <1>1, PlacesAreFinite DEF FirstsOf
<1>3. B = IF e.type = ClaimType /\ e.payTo = s THEN A \cup {n} ELSE A
      BY <1>1 DEF About
<1> HIDE DEF S, T
<1>4. /\ n \notin S /\ AmountsIn(qe)[n] = e.amount /\ e.amount \in Int
      /\ \A i \in S : AmountsIn(q)[i] \in Int /\ AmountsIn(qe)[i] = AmountsIn(q)[i]
  <2>1. e.amount \in Nat
        BY DEF SaleEvents
  <2>2. \A i \in S : i \in DOMAIN q /\ i \in DOMAIN qe /\ qe[i] = q[i]
        BY <1>1, <1>2
  <2>3. n \notin S /\ AmountsIn(qe)[n] = e.amount
        BY <1>1, <1>2
  <2>4. QED
        BY <1>2, <2>1, <2>2, <2>3
<1> USE DEF S, T
<1>5. \A i \in A : qe[i] = q[i] /\ i \in Nat /\ i < n
      BY <1>1, <1>2
<1> HIDE DEF A, B
<1>6. CASE new
  <2>1. B = A \cup {n}
        BY <1>3, <1>6
  <2>2. \A i \in A : i \in T <=> i \in S
        BY <1>1, <1>5, <2>1 DEF FirstsOf
  <2>3. n \in T
        BY <1>1, <1>5, <1>6, <2>1 DEF FirstsOf
  <2>4. T \subseteq A \cup {n} /\ S \subseteq A
        BY <2>1 DEF FirstsOf
  <2>5. T = S \cup {n}
        BY <2>2, <2>3, <2>4
  <2> HIDE DEF S, T
  <2>6. SumFunctionOnSet(AmountsIn(qe), S \cup {n}) = SumFunctionOnSet(AmountsIn(q), S) + e.amount
        BY <1>2, <1>4, SumWithNew
  <2>7. QED
        BY <1>6, <2>5, <2>6 DEF SettledIn, S, T, A, B, qe
<1>7. CASE ~new
  <2>1. T = S
    <3>1. CASE B = A
          BY <1>5, <3>1 DEF FirstsOf
    <3>2. CASE B = A \cup {n} /\ \E i \in A : q[i].tx = e.tx
      <4>1. n \notin T
            BY <1>1, <1>5, <3>2 DEF FirstsOf
      <4>2. \A i \in A : i \in T <=> i \in S
            BY <1>1, <1>5, <3>2 DEF FirstsOf
      <4>3. T \subseteq A \cup {n} /\ S \subseteq A
            BY <3>2 DEF FirstsOf
      <4>4. QED
            BY <4>1, <4>2, <4>3
    <3>3. QED
          BY <1>3, <1>7, <3>1, <3>2
  <2> HIDE DEF S, T
  <2>2. SumFunctionOnSet(AmountsIn(qe), S) = SumFunctionOnSet(AmountsIn(q), S)
        BY <1>2, <1>4, SumOfSame
  <2>3. SumFunctionOnSet(AmountsIn(q), S) \in Int
        BY <1>2, <1>4, SumIsInt
  <2>4. QED
        BY <1>7, <2>1, <2>2, <2>3 DEF SettledIn, S, T, A, B, qe
<1>8. QED
      BY <1>6, <1>7

(* What is known of a part is within what is known of all.                  *)
LEMMA PrefixSaysLess ==
    ASSUME NEW p \in Seq(SaleEvents), NEW q \in Seq(SaleEvents), NEW s
    PROVE  EarnedIn(p, s) <= EarnedIn(p \o q, s) /\ SettledIn(p, s) <= SettledIn(p \o q, s)
<1> DEFINE pq == p \o q
<1>1. /\ pq \in Seq(SaleEvents) /\ DOMAIN p = 1..Len(p) /\ Len(p) \in Nat /\ Len(q) \in Nat
      /\ DOMAIN pq = 1..(Len(p) + Len(q))
      /\ \A i \in DOMAIN p : pq[i] = p[i]
      BY ConcatProperties, LenProperties
<1> HIDE DEF pq
<1>2. /\ DOMAIN p \subseteq DOMAIN pq /\ \A i \in DOMAIN pq : i \in Nat
      /\ \A i \in DOMAIN p : \A j \in DOMAIN pq \ DOMAIN p : i < j
      BY <1>1
<1>3. ASSUME NEW S \in SUBSET DOMAIN p, NEW T \in SUBSET DOMAIN pq, S \subseteq T
      PROVE  SumFunctionOnSet(AmountsIn(p), S) <= SumFunctionOnSet(AmountsIn(pq), T)
  <2>1. /\ \A i \in DOMAIN p : AmountsIn(p)[i] = p[i].amount
        /\ \A i \in DOMAIN pq : AmountsIn(pq)[i] = pq[i].amount /\ AmountsIn(pq)[i] \in Nat
        /\ IsFiniteSet(DOMAIN pq)
        BY <1>1, PlacesAreFinite
  <2>2. IsFiniteSet(T) /\ IsFiniteSet(S)
        BY <1>2, <2>1, FS_Subset
  <2>3. SumFunctionOnSet(AmountsIn(pq), S) <= SumFunctionOnSet(AmountsIn(pq), T)
        BY <1>3, <2>1, <2>2, SumOfPart
  <2>4. SumFunctionOnSet(AmountsIn(p), S) = SumFunctionOnSet(AmountsIn(pq), S)
        BY <1>1, <1>2, <2>1, <2>2, SumOfSame
  <2>5. QED
        BY <2>3, <2>4
<1>4. ASSUME NEW type
      PROVE  /\ About(p, type, s) \subseteq DOMAIN p /\ About(pq, type, s) \subseteq DOMAIN pq
             /\ About(pq, type, s) \cap DOMAIN p = About(p, type, s)
      BY <1>1, <1>2 DEF About
<1>5. FirstsOf(p, About(p, ClaimType, s)) \subseteq FirstsOf(pq, About(pq, ClaimType, s))
  <2> DEFINE A == About(p, ClaimType, s)
             B == About(pq, ClaimType, s)
  <2>1. A \subseteq DOMAIN p /\ B \subseteq DOMAIN pq /\ B \cap DOMAIN p = A
        BY <1>4
  <2> HIDE DEF A, B
  <2>2. ASSUME NEW i \in FirstsOf(p, A) PROVE i \in FirstsOf(pq, B)
    <3>1. i \in A /\ i \in B /\ \A j \in A : p[j].tx = p[i].tx => i <= j
          BY <2>1, <2>2 DEF FirstsOf
    <3>2. \A j \in B : pq[j].tx = pq[i].tx => i <= j
      <4> SUFFICES ASSUME NEW j \in B, pq[j].tx = pq[i].tx PROVE i <= j
          OBVIOUS
      <4>1. CASE j \in DOMAIN p
        <5>1. j \in A /\ p[j] = pq[j] /\ p[i] = pq[i]
              BY <1>1, <2>1, <3>1, <4>1
        <5>2. QED
              BY <3>1, <5>1
      <4>2. CASE j \notin DOMAIN p
            BY <1>2, <2>1, <3>1, <4>2
      <4>3. QED
            BY <4>1, <4>2
    <3>3. QED
          BY <3>1, <3>2 DEF FirstsOf
  <2>3. QED
        BY <2>2 DEF A, B
<1>6. /\ FirstsOf(p, About(p, ClaimType, s)) \subseteq DOMAIN p
      /\ FirstsOf(pq, About(pq, ClaimType, s)) \subseteq DOMAIN pq
      BY <1>4 DEF FirstsOf
<1>7. EarnedIn(p, s) <= EarnedIn(pq, s)
      BY <1>3, <1>4 DEF EarnedIn
<1>8. SettledIn(p, s) <= SettledIn(pq, s)
      BY <1>3, <1>5, <1>6 DEF SettledIn
<1>9. QED
      BY <1>7, <1>8 DEF pq

-----------------------------------------------------------------------------
(* The transactions of claims, and what a new event changes.                *)

TxsIn(q) == {q[i].tx : i \in {j \in DOMAIN q : q[j].type = ClaimType}}

LEMMA ClaimsAreTxs == Claims = TxsIn(All) /\ Claims' = TxsIn(All')
<1>1. Claims = TxsIn(All)
      BY DEF Claims, TxsIn, All, ToSet
<1>2. Claims' = TxsIn(All')
      BY DEF Claims, TxsIn, All, ToSet
<1>3. QED
      BY <1>1, <1>2

LEMMA TxsAppended ==
    ASSUME NEW q \in Seq(SaleEvents), NEW e \in SaleEvents
    PROVE  TxsIn(Append(q, e)) = IF e.type = ClaimType THEN TxsIn(q) \cup {e.tx} ELSE TxsIn(q)
<1> DEFINE n == Len(q) + 1
           qe == Append(q, e)
<1>1. /\ n \notin DOMAIN q /\ DOMAIN qe = DOMAIN q \cup {n} /\ qe[n] = e
      /\ \A i \in DOMAIN q : qe[i] = q[i]
      BY AppendedPlaces
<1> HIDE DEF n, qe
<1>2. TxsIn(qe) = IF e.type = ClaimType THEN TxsIn(q) \cup {e.tx} ELSE TxsIn(q)
      BY <1>1 DEF TxsIn
<1>3. QED
      BY <1>2 DEF qe

LEMMA ThreeParts ==
    ASSUME NEW p \in Seq(SaleEvents), NEW q \in Seq(SaleEvents), NEW r \in Seq(SaleEvents)
    PROVE  /\ (p \o q) \o r = p \o (q \o r)
           /\ p \o q \in Seq(SaleEvents) /\ q \o r \in Seq(SaleEvents)
<1> DEFINE S == SaleEvents
<1>1. p \in Seq(S) /\ q \in Seq(S) /\ r \in Seq(S)
      OBVIOUS
<1> HIDE DEF S
<1>2. (p \o q) \o r = p \o (q \o r)
      BY <1>1, ConcatAssociative
<1>3. p \o q \in Seq(S) /\ q \o r \in Seq(S)
      BY <1>1, ConcatProperties
<1>4. QED
      BY <1>2, <1>3 DEF S

LEMMA AllAreEvents ==
    ASSUME SalesTyped
    PROVE  /\ All \in Seq(SaleEvents) /\ rows \o inFlight \in Seq(SaleEvents)
           /\ rows \in Seq(SaleEvents) /\ inFlight \in Seq(SaleEvents)
           /\ queued \in Seq(SaleEvents)
  BY ConcatProperties DEF SalesTyped, All

LEMMA AllFromRows ==
    ASSUME SalesTyped
    PROVE  All = rows \o (inFlight \o queued) /\ inFlight \o queued \in Seq(SaleEvents)
<1>1. rows \in Seq(SaleEvents) /\ inFlight \in Seq(SaleEvents) /\ queued \in Seq(SaleEvents)
      BY AllAreEvents
<1>2. /\ (rows \o inFlight) \o queued = rows \o (inFlight \o queued)
      /\ inFlight \o queued \in Seq(SaleEvents)
      BY <1>1, ThreeParts, Zenon
<1>3. QED
      BY <1>2 DEF All

LEMMA AllAppended ==
    ASSUME SalesTyped, NEW e \in SaleEvents, queued' = Append(queued, e),
           rows' = rows, inFlight' = inFlight
    PROVE  All' = Append(All, e) /\ queued' \in Seq(SaleEvents)
<1> DEFINE p == rows \o inFlight
           one == <<e>>
<1>1. /\ p \in Seq(SaleEvents) /\ queued \in Seq(SaleEvents) /\ one \in Seq(SaleEvents)
      /\ p \o queued \in Seq(SaleEvents)
      BY AllAreEvents DEF All
<1>2. All = p \o queued /\ All' = p \o Append(queued, e)
      BY DEF All
<1> HIDE DEF p
<1>3. Append(queued, e) = queued \o one
      BY <1>1, AppendIsConcat
<1>4. Append(p \o queued, e) = (p \o queued) \o one
      BY <1>1, AppendIsConcat
<1> HIDE DEF one
<1>5. (p \o queued) \o one = p \o (queued \o one)
      BY <1>1, ConcatAssociative
<1>6. Append(queued, e) \in Seq(SaleEvents)
      BY <1>1, AppendProperties
<1>7. QED
      BY <1>2, <1>3, <1>4, <1>5, <1>6

(* A written part says no more than all.                                    *)
LEMMA RowsSayLess ==
    ASSUME SalesTyped, BooksKept, SalesAssumption
    PROVE  /\ EarnedIn(rows, Reporter) <= lastAccepted[Reporter]
           /\ SettledIn(rows, Reporter) <= claimed[Reporter]
           /\ EarnedIn(rows, Reporter) \in Nat /\ SettledIn(rows, Reporter) \in Nat
<1>1. /\ All \in Seq(SaleEvents) /\ rows \o inFlight \in Seq(SaleEvents)
      /\ rows \in Seq(SaleEvents) /\ inFlight \in Seq(SaleEvents) /\ queued \in Seq(SaleEvents)
      BY AllAreEvents
<1>2. /\ EarnedIn(rows, Reporter) <= EarnedIn(rows \o inFlight, Reporter)
      /\ SettledIn(rows, Reporter) <= SettledIn(rows \o inFlight, Reporter)
      BY <1>1, PrefixSaysLess
<1>3. /\ EarnedIn(rows \o inFlight, Reporter) <= EarnedIn(All, Reporter)
      /\ SettledIn(rows \o inFlight, Reporter) <= SettledIn(All, Reporter)
      BY <1>1, PrefixSaysLess DEF All
<1>4. /\ EarnedIn(All, Reporter) = lastAccepted[Reporter]
      /\ SettledIn(All, Reporter) = claimed[Reporter]
      BY DEF BooksKept, SalesAssumption
<1>5. /\ EarnedIn(rows, Reporter) \in Nat /\ SettledIn(rows, Reporter) \in Nat
      /\ EarnedIn(rows \o inFlight, Reporter) \in Nat
      /\ SettledIn(rows \o inFlight, Reporter) \in Nat
      /\ EarnedIn(All, Reporter) \in Nat /\ SettledIn(All, Reporter) \in Nat
      BY <1>1, SumsAreNat
<1>6. QED
      BY <1>2, <1>3, <1>4, <1>5

-----------------------------------------------------------------------------
(* What a step leaves alone.                                                *)

LEMMA BooksStay ==
    ASSUME BooksKept, All' = All, UNCHANGED <<lastAccepted, claimed>>
    PROVE  BooksKept'
<1>1. Claims' = Claims
      BY ClaimsAreTxs
<1>2. QED
      BY <1>1 DEF BooksKept

(* What was sold and claimed only grows.                                    *)
LEMMA ReportStays ==
    ASSUME SalesTyped, ReportRight, SalesAssumption,
           UNCHANGED <<rows, inFlight, report, wanted>>,
           lastAccepted'[Reporter] \in Nat, claimed'[Reporter] \in Nat,
           lastAccepted'[Reporter] >= lastAccepted[Reporter],
           claimed'[Reporter] >= claimed[Reporter]
    PROVE  ReportRight'
<1>1. /\ lastAccepted[Reporter] \in Nat /\ claimed[Reporter] \in Nat
      /\ wanted.earned \in Nat /\ wanted.settled \in Nat
      /\ report.earned \in Nat /\ report.settled \in Nat
      BY DEF SalesTyped, SalesAssumption
<1>2. Has(rows)' = Has(rows) /\ Has(rows \o inFlight)' = Has(rows \o inFlight)
      BY DEF Has
<1>3. /\ wanted'.earned <= lastAccepted'[Reporter] /\ wanted'.settled <= claimed'[Reporter]
      BY <1>1 DEF ReportRight
<1>4. report'.at \in {"earnedRead", "bothRead", "done"} =>
         /\ report'.earned <= lastAccepted'[Reporter]
         /\ wanted'.whole => report'.earned >= wanted'.earned
      BY <1>1 DEF ReportRight
<1>5. report'.at \in {"settledRead", "bothRead", "done"} =>
         /\ report'.settled <= claimed'[Reporter]
         /\ wanted'.whole => report'.settled >= wanted'.settled
      BY <1>1 DEF ReportRight
<1>6. ASSUME report.at = "done"
      PROVE  \E a, c \in Nat : /\ report.receivable = a - c
                               /\ wanted.earned <= a /\ a <= lastAccepted'[Reporter]
                               /\ wanted.settled <= c /\ c <= claimed'[Reporter]
  <2>1. PICK a \in Nat, c \in Nat : /\ report.receivable = a - c
                               /\ wanted.earned <= a /\ a <= lastAccepted[Reporter]
                               /\ wanted.settled <= c /\ c <= claimed[Reporter]
        BY <1>6 DEF ReportRight
  <2>2. a <= lastAccepted'[Reporter] /\ c <= claimed'[Reporter]
        BY <1>1, <2>1
  <2>3. QED
        BY <2>1, <2>2
<1>7. /\ wanted'.whole /\ report'.at = "flushing" => Has(rows \o inFlight)'
      /\ wanted'.whole /\ report'.at \in {"reading", "earnedRead", "settledRead"} => Has(rows)'
      BY <1>2 DEF ReportRight
<1>8. QED
      BY <1>3, <1>4, <1>5, <1>6, <1>7 DEF ReportRight

LEMMA EntryStays ==
    ASSUME EntryRight, UNCHANGED <<lastAccepted, writes, resource, unlisted>>
    PROVE  EntryRight'
<1>1. \A s \in Sellers : WritesOf(s)' = WritesOf(s)
      BY DEF WritesOf
<1>2. QED
      BY <1>1 DEF EntryRight

-----------------------------------------------------------------------------
(* Payments and claims.                                                     *)

LEMMA SalesPays ==
    ASSUME SalesAssumption, SalesInv, NEW s \in Sellers, Pays(s)
    PROVE  SalesInv'
<1> DEFINE e == [type |-> AcceptedType, payTo |-> s, amount |-> 1, tx |-> 0]
           w == [n |-> lastAccepted[s] + 1, payTo |-> s]
<1>1. /\ lastAccepted' = [lastAccepted EXCEPT ![s] = @ + 1] /\ queued' = Append(queued, e)
      /\ writes' = writes \cup {w}
      /\ claimed' = claimed /\ inFlight' = inFlight /\ rows' = rows /\ resource' = resource
      /\ report' = report /\ unlisted' = unlisted /\ wanted' = wanted
      BY DEF Pays
<1>2. SalesTyped /\ BooksKept /\ ReportRight /\ EntryRight
      BY DEF SalesInv
<1>3. /\ e \in SaleEvents /\ e.type = AcceptedType /\ e.type # ClaimType /\ e.payTo = s
      /\ e.amount = 1
      BY DEF SaleEvents, AcceptedType, ClaimType
<1>4. w.n = lastAccepted[s] + 1 /\ w.payTo = s /\ w \in [n : Nat, payTo : Sellers]
      BY <1>2 DEF SalesTyped
<1> HIDE DEF e, w
<1>5. lastAccepted \in [Sellers -> Nat] /\ claimed \in [Sellers -> Nat]
      BY <1>2 DEF SalesTyped
<1>6. /\ lastAccepted' \in [Sellers -> Nat] /\ claimed' \in [Sellers -> Nat]
      /\ \A t \in Sellers :
            lastAccepted'[t] = IF t = s THEN lastAccepted[t] + 1 ELSE lastAccepted[t]
      BY <1>1, <1>5
<1>7. All \in Seq(SaleEvents) /\ All' = Append(All, e) /\ queued' \in Seq(SaleEvents)
      BY <1>1, <1>2, <1>3, AllAreEvents, AllAppended
<1>8. \A t \in Sellers : claimed'[t] <= lastAccepted'[t]
  <2> SUFFICES ASSUME NEW t \in Sellers PROVE claimed'[t] <= lastAccepted'[t]
      OBVIOUS
  <2>1. claimed[t] <= lastAccepted[t] /\ claimed[t] \in Nat /\ lastAccepted[t] \in Nat
        BY <1>2, <1>5 DEF SalesTyped
  <2>2. QED
        BY <1>1, <1>6, <2>1
<1>9. SalesTyped'
      BY <1>1, <1>2, <1>6, <1>7, <1>8 DEF SalesTyped
<1>10. BooksKept'
  <2>1. Claims' = Claims
    <3>1. Claims' = TxsIn(All') /\ Claims = TxsIn(All)
          BY ClaimsAreTxs
    <3>2. TxsIn(Append(All, e)) = TxsIn(All)
          BY <1>3, <1>7, TxsAppended
    <3>3. QED
          BY <1>7, <3>1, <3>2
  <2>2. ASSUME NEW t \in Sellers
        PROVE  EarnedIn(All', t) = lastAccepted'[t] /\ SettledIn(All', t) = claimed'[t]
    <3>1. /\ EarnedIn(Append(All, e), t) = EarnedIn(All, t)
                + (IF e.type = AcceptedType /\ e.payTo = t THEN e.amount ELSE 0)
          BY <1>3, <1>7, EarnedAppended
    <3>2. SettledIn(Append(All, e), t) = SettledIn(All, t) +
              (IF /\ e.type = ClaimType /\ e.payTo = t
                  /\ \A i \in About(All, ClaimType, t) : All[i].tx # e.tx
               THEN e.amount ELSE 0)
          BY <1>3, <1>7, SettledAppended
    <3>3. /\ EarnedIn(All, t) = lastAccepted[t] /\ SettledIn(All, t) = claimed[t]
          /\ lastAccepted[t] \in Nat /\ claimed[t] \in Nat
          BY <1>2, <1>5 DEF BooksKept
    <3>4. EarnedIn(Append(All, e), t) = lastAccepted'[t]
          BY <1>3, <1>6, <3>1, <3>3
    <3>5. SettledIn(Append(All, e), t) = claimed'[t]
          BY <1>1, <1>3, <3>2, <3>3
    <3>6. QED
          BY <1>7, <3>4, <3>5
  <2>3. QED
        BY <1>2, <2>1, <2>2 DEF BooksKept
<1>11. ReportRight'
  <2>1. lastAccepted[Reporter] \in Nat /\ claimed[Reporter] \in Nat
        BY <1>5 DEF SalesAssumption
  <2>2. /\ lastAccepted'[Reporter] \in Nat /\ lastAccepted'[Reporter] >= lastAccepted[Reporter]
        BY <1>6, <2>1 DEF SalesAssumption
  <2>3. QED
        BY <1>1, <1>2, <2>1, <2>2, ReportStays
<1>12. EntryRight'
  <2>1. /\ writes \subseteq [n : Nat, payTo : Sellers] /\ IsFiniteSet(writes)
        /\ \A v \in writes : v.n <= lastAccepted[v.payTo] /\ v.payTo \in Sellers /\ v.n \in Nat
        BY <1>2 DEF EntryRight
  <2>2. lastAccepted[s] \in Nat
        BY <1>5
  <2>3. w \notin writes
    <3> SUFFICES ASSUME w \in writes PROVE FALSE
        OBVIOUS
    <3>1. w.n <= lastAccepted[s]
          BY <1>4, <2>1
    <3>2. QED
          BY <1>4, <2>2, <3>1
  <2>4. writes' \subseteq [n : Nat, payTo : Sellers] /\ IsFiniteSet(writes')
        BY <1>1, <1>4, <2>1, FS_AddElement
  <2>5. ASSUME NEW v \in writes' PROVE v.n <= lastAccepted'[v.payTo]
    <3>1. CASE v = w
          BY <1>4, <1>6, <2>2, <3>1
    <3>2. CASE v \in writes
      <4>1. v.n <= lastAccepted[v.payTo] /\ v.payTo \in Sellers /\ v.n \in Nat
            BY <2>1, <3>2
      <4>2. lastAccepted[v.payTo] \in Nat
            BY <1>5, <4>1
      <4>3. QED
            BY <1>6, <4>1, <4>2
    <3>3. QED
          BY <1>1, <2>5, <3>1, <3>2
  <2>6. ASSUME NEW t \in Sellers, resource.payTo \in {NoPayTo, t}
        PROVE  resource.payments = lastAccepted'[t] - unlisted[t] - Cardinality(WritesOf(t)')
    <3>1. /\ WritesOf(t) \subseteq writes /\ IsFiniteSet(WritesOf(t))
          /\ Cardinality(WritesOf(t)) \in Nat
      <4>1. WritesOf(t) \subseteq writes
            BY DEF WritesOf
      <4>2. QED
            BY <2>1, <4>1, FS_Subset, FS_CardinalityType
    <3>2. WritesOf(t)' = IF t = s THEN WritesOf(t) \cup {w} ELSE WritesOf(t)
          BY <1>1, <1>4 DEF WritesOf
    <3>3. w \notin WritesOf(t)
          BY <2>3, <3>1
    <3>4. Cardinality(WritesOf(t)') = IF t = s THEN Cardinality(WritesOf(t)) + 1
                                                ELSE Cardinality(WritesOf(t))
      <4>1. Cardinality(WritesOf(t) \cup {w}) = Cardinality(WritesOf(t)) + 1
            BY <3>1, <3>3, FS_AddElement
      <4>2. QED
            BY <3>2, <4>1
    <3>5. /\ resource.payments = lastAccepted[t] - unlisted[t] - Cardinality(WritesOf(t))
          /\ unlisted[t] \in Nat /\ lastAccepted[t] \in Nat
          BY <1>2, <1>5, <2>6 DEF EntryRight
    <3>6. QED
          BY <1>6, <3>1, <3>4, <3>5
  <2>7. QED
        BY <1>1, <1>2, <2>4, <2>5, <2>6 DEF EntryRight
<1>13. QED
      BY <1>9, <1>10, <1>11, <1>12 DEF SalesInv

(* A claim that is announced: of the books, one's share.                    *)
LEMMA SalesClaimPaid ==
    ASSUME SalesAssumption, SalesInv, NEW s \in Sellers, ClaimPaid(s)
    PROVE  SalesInv'
<1> DEFINE e == [type |-> ClaimType, payTo |-> s, tx |-> Cardinality(Claims) + 1,
                 amount |-> lastAccepted[s] - claimed[s]]
<1>1. /\ claimed' = [claimed EXCEPT ![s] = lastAccepted[s]] /\ queued' = Append(queued, e)
      /\ lastAccepted' = lastAccepted /\ inFlight' = inFlight /\ rows' = rows
      /\ resource' = resource /\ writes' = writes
      /\ report' = report /\ unlisted' = unlisted /\ wanted' = wanted
      /\ claimed[s] < lastAccepted[s]
      BY DEF ClaimPaid
<1>2. SalesTyped /\ BooksKept /\ ReportRight /\ EntryRight
      BY DEF SalesInv
<1>3. PICK n \in Nat : Claims = 1..n
      BY <1>2 DEF BooksKept
<1>4. Cardinality(Claims) = n
  <2>1. Cardinality(1..n) = n
        BY FS_Interval
  <2>2. QED
        BY <1>3, <2>1
<1>5. lastAccepted \in [Sellers -> Nat] /\ claimed \in [Sellers -> Nat]
      BY <1>2 DEF SalesTyped
<1>6. /\ e \in SaleEvents /\ e.type = ClaimType /\ e.type # AcceptedType /\ e.payTo = s
      /\ e.amount = lastAccepted[s] - claimed[s] /\ e.tx = n + 1
  <2>1. lastAccepted[s] \in Nat /\ claimed[s] \in Nat /\ lastAccepted[s] - claimed[s] \in Nat
        BY <1>1, <1>5
  <2>2. QED
        BY <1>4, <2>1 DEF SaleEvents, AcceptedType, ClaimType
<1> HIDE DEF e
<1>7. /\ claimed' \in [Sellers -> Nat]
      /\ \A t \in Sellers : claimed'[t] = IF t = s THEN lastAccepted[t] ELSE claimed[t]
      BY <1>1, <1>5
<1>8. All \in Seq(SaleEvents) /\ All' = Append(All, e) /\ queued' \in Seq(SaleEvents)
      BY <1>1, <1>2, <1>6, AllAreEvents, AllAppended
<1>9. \A t \in Sellers : claimed'[t] <= lastAccepted'[t]
  <2> SUFFICES ASSUME NEW t \in Sellers PROVE claimed'[t] <= lastAccepted'[t]
      OBVIOUS
  <2>1. claimed[t] <= lastAccepted[t] /\ claimed[t] \in Nat /\ lastAccepted[t] \in Nat
        BY <1>2, <1>5 DEF SalesTyped
  <2>2. QED
        BY <1>1, <1>7, <2>1
<1>10. SalesTyped'
      BY <1>1, <1>2, <1>7, <1>8, <1>9 DEF SalesTyped
<1>11. Claims = TxsIn(All) /\ Claims' = TxsIn(All')
      BY ClaimsAreTxs
<1>12. BooksKept'
  <2>1. Claims' = 1..(n + 1)
    <3>1. TxsIn(Append(All, e)) = TxsIn(All) \cup {n + 1}
          BY <1>6, <1>8, TxsAppended
    <3>2. (1..n) \cup {n + 1} = 1..(n + 1)
          OBVIOUS
    <3>3. QED
          BY <1>3, <1>8, <1>11, <3>1, <3>2
  <2>2. ASSUME NEW t \in Sellers
        PROVE  EarnedIn(All', t) = lastAccepted'[t] /\ SettledIn(All', t) = claimed'[t]
    <3>1. /\ EarnedIn(Append(All, e), t) = EarnedIn(All, t)
                + (IF e.type = AcceptedType /\ e.payTo = t THEN e.amount ELSE 0)
          BY <1>6, <1>8, EarnedAppended
    <3>2. SettledIn(Append(All, e), t) = SettledIn(All, t) +
              (IF /\ e.type = ClaimType /\ e.payTo = t
                  /\ \A i \in About(All, ClaimType, t) : All[i].tx # e.tx
               THEN e.amount ELSE 0)
          BY <1>6, <1>8, SettledAppended
    <3>3. \A i \in About(All, ClaimType, t) : All[i].tx # e.tx
      <4> SUFFICES ASSUME NEW i \in About(All, ClaimType, t) PROVE All[i].tx # e.tx
          OBVIOUS
      <4>1. All[i].tx \in TxsIn(All)
            BY DEF About, TxsIn
      <4>2. All[i].tx \in 1..n
            BY <1>3, <1>11, <4>1
      <4>3. QED
            BY <1>6, <4>2
    <3>4. /\ EarnedIn(All, t) = lastAccepted[t] /\ SettledIn(All, t) = claimed[t]
          /\ lastAccepted[t] \in Nat /\ claimed[t] \in Nat
          BY <1>2, <1>5 DEF BooksKept
    <3>5. EarnedIn(Append(All, e), t) = lastAccepted'[t]
          BY <1>1, <1>6, <3>1, <3>4
    <3>6. SettledIn(Append(All, e), t) = claimed'[t]
      <4>1. SettledIn(Append(All, e), t) = claimed[t] + (IF s = t THEN e.amount ELSE 0)
            BY <1>6, <3>2, <3>3, <3>4
      <4>2. QED
            BY <1>6, <1>7, <3>4, <4>1
    <3>7. QED
          BY <1>8, <3>5, <3>6
  <2>3. n + 1 \in Nat
        OBVIOUS
  <2>4. QED
        BY <2>1, <2>2, <2>3 DEF BooksKept
<1>13. ReportRight'
  <2>1. lastAccepted[Reporter] \in Nat /\ claimed[Reporter] \in Nat
        BY <1>5 DEF SalesAssumption
  <2>2. claimed[Reporter] <= lastAccepted[Reporter]
        BY <1>2 DEF SalesTyped, SalesAssumption
  <2>3. /\ claimed'[Reporter] \in Nat /\ claimed'[Reporter] >= claimed[Reporter]
        BY <1>7, <2>1, <2>2 DEF SalesAssumption
  <2>4. QED
        BY <1>1, <1>2, <2>1, <2>3, ReportStays
<1>14. EntryRight'
      BY <1>1, <1>2, EntryStays
<1>15. QED
      BY <1>10, <1>12, <1>13, <1>14 DEF SalesInv

LEMMA SalesClaimedAgain ==
    ASSUME SalesAssumption, SalesInv, NEW e \in ToSet(rows), ClaimedAgain(e)
    PROVE  SalesInv'
<1>1. /\ queued' = Append(queued, e) /\ e.type = ClaimType
      /\ lastAccepted' = lastAccepted /\ claimed' = claimed /\ inFlight' = inFlight
      /\ rows' = rows /\ resource' = resource /\ writes' = writes
      /\ report' = report /\ unlisted' = unlisted /\ wanted' = wanted
      BY DEF ClaimedAgain
<1>2. SalesTyped /\ BooksKept /\ ReportRight /\ EntryRight
      BY DEF SalesInv
<1>3. PICK k \in DOMAIN rows : rows[k] = e
      BY DEF ToSet
<1>4. rows \in Seq(SaleEvents) /\ inFlight \in Seq(SaleEvents) /\ queued \in Seq(SaleEvents)
      BY <1>2 DEF SalesTyped
<1>5. e \in SaleEvents /\ e.type # AcceptedType
      BY <1>1, <1>3, <1>4, ElementOfSeq DEF AcceptedType, ClaimType
<1>6. All \in Seq(SaleEvents) /\ All' = Append(All, e) /\ queued' \in Seq(SaleEvents)
      BY <1>1, <1>2, <1>5, AllAreEvents, AllAppended
<1>7. k \in DOMAIN All /\ All[k] = e
  <2> DEFINE later == inFlight \o queued
  <2>1. later \in Seq(SaleEvents) /\ All = rows \o later
        BY <1>2, AllFromRows
  <2> HIDE DEF later
  <2>2. /\ Len(rows) \in Nat /\ Len(later) \in Nat /\ DOMAIN rows = 1..Len(rows)
        /\ rows \o later \in Seq(SaleEvents) /\ Len(rows \o later) = Len(rows) + Len(later)
        /\ DOMAIN (rows \o later) = 1..Len(rows \o later)
        BY <1>4, <2>1, LenProperties, ConcatProperties
  <2>3. k \in 1..Len(rows) /\ k \in 1..(Len(rows) + Len(later))
        BY <1>3, <2>2
  <2>4. (rows \o later)[k] = rows[k]
        BY <1>4, <2>1, <2>3, ConcatProperties
  <2>5. QED
        BY <1>3, <2>1, <2>2, <2>3, <2>4
<1>8. SalesTyped'
      BY <1>1, <1>2, <1>6 DEF SalesTyped
<1>9. BooksKept'
  <2>1. Claims' = Claims
    <3>1. Claims' = TxsIn(All') /\ Claims = TxsIn(All)
          BY ClaimsAreTxs
    <3>2. TxsIn(Append(All, e)) = TxsIn(All) \cup {e.tx}
          BY <1>1, <1>5, <1>6, TxsAppended
    <3>3. e.tx \in TxsIn(All)
          BY <1>1, <1>7 DEF TxsIn
    <3>4. QED
          BY <1>6, <3>1, <3>2, <3>3
  <2>2. ASSUME NEW t \in Sellers
        PROVE  EarnedIn(All', t) = EarnedIn(All, t) /\ SettledIn(All', t) = SettledIn(All, t)
    <3>1. EarnedIn(Append(All, e), t) = EarnedIn(All, t)
                + (IF e.type = AcceptedType /\ e.payTo = t THEN e.amount ELSE 0)
          BY <1>5, <1>6, EarnedAppended
    <3>2. SettledIn(Append(All, e), t) = SettledIn(All, t) +
              (IF /\ e.type = ClaimType /\ e.payTo = t
                  /\ \A i \in About(All, ClaimType, t) : All[i].tx # e.tx
               THEN e.amount ELSE 0)
          BY <1>5, <1>6, SettledAppended
    <3>3. e.payTo = t => k \in About(All, ClaimType, t) /\ All[k].tx = e.tx
          BY <1>1, <1>7 DEF About
    <3>4. EarnedIn(All, t) \in Nat /\ SettledIn(All, t) \in Nat
          BY <1>6, SumsAreNat
    <3>5. EarnedIn(Append(All, e), t) = EarnedIn(All, t)
          BY <1>5, <3>1, <3>4
    <3>6. SettledIn(Append(All, e), t) = SettledIn(All, t)
          BY <3>2, <3>3, <3>4
    <3>7. QED
          BY <1>6, <3>5, <3>6
  <2>3. QED
        BY <1>1, <1>2, <2>1, <2>2 DEF BooksKept
<1>10. ReportRight'
  <2>1. lastAccepted[Reporter] \in Nat /\ claimed[Reporter] \in Nat
        BY <1>2 DEF SalesTyped, SalesAssumption
  <2>2. QED
        BY <1>1, <1>2, <2>1, ReportStays
<1>11. EntryRight'
      BY <1>1, <1>2, EntryStays
<1>12. QED
      BY <1>8, <1>9, <1>10, <1>11 DEF SalesInv

-----------------------------------------------------------------------------
(* The ledger moves events, and adds and drops none.                        *)

(* What a report has to find is there once its write has succeeded.         *)
LEMMA HasMore ==
    ASSUME SalesTyped, NEW p \in Seq(SaleEvents), NEW q \in Seq(SaleEvents), Has(p)
    PROVE  Has(p \o q)
<1>1. /\ EarnedIn(p, Reporter) <= EarnedIn(p \o q, Reporter)
      /\ SettledIn(p, Reporter) <= SettledIn(p \o q, Reporter)
      BY PrefixSaysLess
<1>2. /\ EarnedIn(p, Reporter) \in Nat /\ SettledIn(p, Reporter) \in Nat
      /\ p \o q \in Seq(SaleEvents)
      BY SumsAreNat, ConcatProperties
<1>3. EarnedIn(p \o q, Reporter) \in Nat /\ SettledIn(p \o q, Reporter) \in Nat
      BY <1>2, SumsAreNat
<1>4. wanted.earned \in Nat /\ wanted.settled \in Nat
      BY DEF SalesTyped
<1>5. EarnedIn(p, Reporter) >= wanted.earned /\ SettledIn(p, Reporter) >= wanted.settled
      BY DEF Has
<1>6. EarnedIn(p \o q, Reporter) >= wanted.earned /\ SettledIn(p \o q, Reporter) >= wanted.settled
      BY <1>1, <1>2, <1>3, <1>4, <1>5
<1>7. QED
      BY <1>6 DEF Has

LEMMA SalesFlushed ==
    ASSUME SalesAssumption, SalesInv, EventsFlushed
    PROVE  SalesInv'
<1>1. /\ inFlight = <<>> /\ inFlight' = queued /\ queued' = <<>>
      /\ lastAccepted' = lastAccepted /\ claimed' = claimed
      /\ rows' = rows /\ resource' = resource /\ writes' = writes
      /\ report' = report /\ unlisted' = unlisted /\ wanted' = wanted
      BY DEF EventsFlushed
<1>2. SalesTyped /\ BooksKept /\ ReportRight /\ EntryRight
      BY DEF SalesInv
<1>3. /\ rows \in Seq(SaleEvents) /\ queued \in Seq(SaleEvents)
      /\ rows \o queued \in Seq(SaleEvents) /\ <<>> \in Seq(SaleEvents)
      BY <1>2, ConcatProperties, EmptySeq DEF SalesTyped
<1>4. rows \o <<>> = rows /\ (rows \o queued) \o <<>> = rows \o queued
      BY <1>3, ConcatEmptySeq
<1>5. All = rows \o queued /\ All' = All
      BY <1>1, <1>4 DEF All
<1>6. SalesTyped'
      BY <1>1, <1>2, <1>3 DEF SalesTyped
<1>7. BooksKept'
      BY <1>1, <1>2, <1>5, BooksStay
<1>8. ReportRight'
  <2>1. wanted.whole /\ report.at = "flushing" => Has(rows \o queued)
    <3> SUFFICES ASSUME wanted.whole, report.at = "flushing" PROVE Has(rows \o queued)
        OBVIOUS
    <3>1. Has(rows)
          BY <1>1, <1>2, <1>4 DEF ReportRight
    <3>2. QED
          BY <1>2, <1>3, <3>1, HasMore
  <2>2. Has(rows)' = Has(rows) /\ Has(rows \o inFlight)' = Has(rows \o queued)
        BY <1>1 DEF Has
  <2>3. QED
        BY <1>1, <1>2, <2>1, <2>2 DEF ReportRight
<1>9. EntryRight'
      BY <1>1, <1>2, EntryStays
<1>10. QED
      BY <1>6, <1>7, <1>8, <1>9 DEF SalesInv

(* Who waits goes on to read, and the report has nothing else new.          *)
LEMMA WhoWaitedReads ==
    ASSUME SalesTyped, GoesOn
    PROVE  /\ report' \in [at : {"none", "flushing", "reading", "earnedRead", "settledRead",
                                 "bothRead", "done"},
                           earned : Nat, settled : Nat, receivable : Int]
           /\ report'.at = IF report.at = "flushing" THEN "reading" ELSE report.at
           /\ report'.earned = report.earned /\ report'.settled = report.settled
           /\ report'.receivable = report.receivable
  BY DEF SalesTyped, GoesOn

LEMMA SalesWritten ==
    ASSUME SalesAssumption, SalesInv, EventsWritten
    PROVE  SalesInv'
<1>1. /\ rows' = rows \o inFlight /\ inFlight' = <<>> /\ queued' = queued /\ GoesOn
      /\ lastAccepted' = lastAccepted /\ claimed' = claimed
      /\ resource' = resource /\ writes' = writes
      /\ unlisted' = unlisted /\ wanted' = wanted
      BY DEF EventsWritten
<1>2. SalesTyped /\ BooksKept /\ ReportRight /\ EntryRight
      BY DEF SalesInv
<1>3. /\ rows \in Seq(SaleEvents) /\ inFlight \in Seq(SaleEvents)
      /\ rows \o inFlight \in Seq(SaleEvents) /\ <<>> \in Seq(SaleEvents)
      BY <1>2, ConcatProperties, EmptySeq DEF SalesTyped
<1>4. (rows \o inFlight) \o <<>> = rows \o inFlight
      BY <1>3, ConcatEmptySeq
<1>5. All' = All
      BY <1>1, <1>4 DEF All
<1>6. /\ report'.at = IF report.at = "flushing" THEN "reading" ELSE report.at
      /\ report'.earned = report.earned /\ report'.settled = report.settled
      /\ report'.receivable = report.receivable
      BY <1>1, <1>2, WhoWaitedReads
<1>7. SalesTyped'
      BY <1>1, <1>2, <1>3, WhoWaitedReads DEF SalesTyped
<1>8. BooksKept'
      BY <1>1, <1>2, <1>5, BooksStay
<1>9. ReportRight'
  <2>1. Has(rows)' = Has(rows \o inFlight)
        BY <1>1 DEF Has
  <2>2. wanted.whole /\ report.at \in {"flushing", "reading", "earnedRead", "settledRead"}
          => Has(rows \o inFlight)
    <3>1. Has(rows) => Has(rows \o inFlight)
          BY <1>2, <1>3, HasMore
    <3>2. QED
          BY <1>2, <3>1 DEF ReportRight
  <2>3. wanted'.whole /\ report'.at \in {"reading", "earnedRead", "settledRead"} => Has(rows)'
        BY <1>1, <1>6, <2>1, <2>2
  <2>4. report'.at # "flushing"
        BY <1>6
  <2>5. /\ report'.at \in {"earnedRead", "bothRead", "done"} =>
             report.at \in {"earnedRead", "bothRead", "done"}
        /\ report'.at \in {"settledRead", "bothRead", "done"} =>
             report.at \in {"settledRead", "bothRead", "done"}
        /\ report'.at = "done" => report.at = "done"
        BY <1>6
  <2>6. QED
        BY <1>1, <1>2, <1>6, <2>3, <2>4, <2>5 DEF ReportRight
<1>10. EntryRight'
      BY <1>1, <1>2, EntryStays
<1>11. QED
      BY <1>7, <1>8, <1>9, <1>10 DEF SalesInv

LEMMA SalesRefused ==
    ASSUME SalesAssumption, SalesInv, EventsRefused
    PROVE  SalesInv'
<1>1. /\ queued' = inFlight \o queued /\ inFlight' = <<>> /\ rows' = rows /\ GoesOn
      /\ wanted' = [wanted EXCEPT !.whole = FALSE]
      /\ lastAccepted' = lastAccepted /\ claimed' = claimed
      /\ resource' = resource /\ writes' = writes /\ unlisted' = unlisted
      BY DEF EventsRefused
<1>2. SalesTyped /\ BooksKept /\ ReportRight /\ EntryRight
      BY DEF SalesInv
<1>3. /\ rows \in Seq(SaleEvents) /\ inFlight \in Seq(SaleEvents) /\ queued \in Seq(SaleEvents)
      /\ inFlight \o queued \in Seq(SaleEvents) /\ <<>> \in Seq(SaleEvents)
      BY <1>2, ConcatProperties, EmptySeq DEF SalesTyped
<1>4. rows \o <<>> = rows
      BY <1>3, ConcatEmptySeq
<1>5. All' = All
  <2>1. All' = rows \o (inFlight \o queued)
        BY <1>1, <1>4 DEF All
  <2>2. QED
        BY <1>2, <2>1, AllFromRows
<1>6. /\ report'.at = IF report.at = "flushing" THEN "reading" ELSE report.at
      /\ report'.earned = report.earned /\ report'.settled = report.settled
      /\ report'.receivable = report.receivable
      BY <1>1, <1>2, WhoWaitedReads
<1>7. /\ wanted' \in [earned : Nat, settled : Nat, whole : BOOLEAN] /\ ~wanted'.whole
      /\ wanted'.earned = wanted.earned /\ wanted'.settled = wanted.settled
      BY <1>1, <1>2 DEF SalesTyped
<1>8. SalesTyped'
      BY <1>1, <1>2, <1>3, <1>7, WhoWaitedReads DEF SalesTyped
<1>9. BooksKept'
      BY <1>1, <1>2, <1>5, BooksStay
<1>10. ReportRight'
  <2>1. /\ report'.at \in {"earnedRead", "bothRead", "done"} =>
             report.at \in {"earnedRead", "bothRead", "done"}
        /\ report'.at \in {"settledRead", "bothRead", "done"} =>
             report.at \in {"settledRead", "bothRead", "done"}
        /\ report'.at = "done" => report.at = "done"
        BY <1>6
  <2>2. lastAccepted' = lastAccepted /\ claimed' = claimed
        BY <1>1
  <2>3. QED
        BY <1>2, <1>6, <1>7, <2>1, <2>2 DEF ReportRight
<1>11. EntryRight'
      BY <1>1, <1>2, EntryStays
<1>12. QED
      BY <1>8, <1>9, <1>10, <1>11 DEF SalesInv

-----------------------------------------------------------------------------
(* The catalogue's statements, in any order.                                *)

LEMMA WritesOfFinite ==
    ASSUME EntryRight, NEW s
    PROVE  IsFiniteSet(WritesOf(s)) /\ Cardinality(WritesOf(s)) \in Nat
<1>1. WritesOf(s) \subseteq writes /\ IsFiniteSet(writes)
      BY DEF WritesOf, EntryRight
<1>2. QED
      BY <1>1, FS_Subset, FS_CardinalityType

LEMMA OneWriteLess ==
    ASSUME EntryRight, NEW w \in writes, writes' = writes \ {w}, NEW s
    PROVE  /\ Cardinality(WritesOf(s)') = IF w.payTo = s THEN Cardinality(WritesOf(s)) - 1
                                                         ELSE Cardinality(WritesOf(s))
           /\ Cardinality(WritesOf(s)') \in Nat
           /\ IsFiniteSet(writes') /\ writes' \subseteq writes
<1>1. WritesOf(s)' = IF w.payTo = s THEN WritesOf(s) \ {w} ELSE WritesOf(s)
      BY DEF WritesOf
<1>2. w.payTo = s => w \in WritesOf(s)
      BY DEF WritesOf
<1>3. IsFiniteSet(WritesOf(s)) /\ Cardinality(WritesOf(s)) \in Nat
      BY WritesOfFinite
<1>4. w \in WritesOf(s) => /\ IsFiniteSet(WritesOf(s) \ {w})
                           /\ Cardinality(WritesOf(s) \ {w}) = Cardinality(WritesOf(s)) - 1
      BY <1>3, FS_RemoveElement
<1>5. IsFiniteSet(WritesOf(s)')
      BY <1>1, <1>2, <1>3, <1>4
<1>6. Cardinality(WritesOf(s)') \in Nat
      BY <1>5, FS_CardinalityType
<1>7. IsFiniteSet(writes') /\ writes' \subseteq writes
      BY FS_RemoveElement DEF EntryRight
<1>8. QED
      BY <1>1, <1>2, <1>4, <1>6, <1>7

LEMMA SalesRecorded ==
    ASSUME SalesAssumption, SalesInv, NEW w \in writes, Recorded(w)
    PROVE  SalesInv'
<1>1. /\ writes' = writes \ {w} /\ resource' = Upsert(resource, w.payTo)
      /\ queued' = queued /\ inFlight' = inFlight /\ rows' = rows
      /\ lastAccepted' = lastAccepted /\ claimed' = claimed
      /\ report' = report /\ unlisted' = unlisted /\ wanted' = wanted
      BY DEF Recorded, ledgerPart
<1>2. SalesTyped /\ BooksKept /\ ReportRight /\ EntryRight
      BY DEF SalesInv
<1>3. SalesTyped'
      BY <1>1, <1>2 DEF SalesTyped
<1>4. All' = All
      BY <1>1 DEF All
<1>5. BooksKept'
      BY <1>1, <1>2, <1>4, BooksStay
<1>6. lastAccepted \in [Sellers -> Nat] /\ claimed \in [Sellers -> Nat]
      BY <1>2 DEF SalesTyped
<1>7. ReportRight'
  <2>1. lastAccepted[Reporter] \in Nat /\ claimed[Reporter] \in Nat
        BY <1>6 DEF SalesAssumption
  <2>2. QED
        BY <1>1, <1>2, <2>1, ReportStays
<1>8. EntryRight'
  <2>1. /\ writes \subseteq [n : Nat, payTo : Sellers]
        /\ \A v \in writes : v.n <= lastAccepted[v.payTo]
        /\ unlisted \in [Sellers -> Nat]
        /\ resource \in [payTo : Sellers \cup {NoPayTo}, payments : Nat]
        /\ resource.payTo = NoPayTo => resource.payments = 0
        /\ w.payTo \in Sellers /\ w.payTo # NoPayTo
        BY <1>2 DEF EntryRight, SalesAssumption
  <2>2. /\ resource' \in [payTo : Sellers \cup {NoPayTo}, payments : Nat]
        /\ resource'.payTo # NoPayTo \/ resource' = resource
        /\ resource.payTo \in {NoPayTo, w.payTo} =>
             resource'.payTo = w.payTo /\ resource'.payments = resource.payments + 1
        /\ resource.payTo \notin {NoPayTo, w.payTo} => resource' = resource
        BY <1>1, <2>1 DEF Upsert
  <2>3. /\ writes' \subseteq [n : Nat, payTo : Sellers] /\ IsFiniteSet(writes')
        /\ \A v \in writes' : v.n <= lastAccepted'[v.payTo]
        BY <1>1, <1>2, <2>1, OneWriteLess
  <2>4. ASSUME NEW s \in Sellers, resource'.payTo \in {NoPayTo, s}
        PROVE  resource'.payments = lastAccepted'[s] - unlisted'[s] - Cardinality(WritesOf(s)')
    <3>1. /\ Cardinality(WritesOf(s)') = IF w.payTo = s THEN Cardinality(WritesOf(s)) - 1
                                                        ELSE Cardinality(WritesOf(s))
          /\ Cardinality(WritesOf(s)) \in Nat
          BY <1>1, <1>2, OneWriteLess, WritesOfFinite
    <3>2. lastAccepted[s] \in Nat /\ unlisted[s] \in Nat /\ resource.payments \in Nat
          BY <1>6, <2>1
    <3>3. s # NoPayTo
          BY DEF SalesAssumption
    <3>4. resource.payTo \in {NoPayTo, s} =>
            resource.payments = lastAccepted[s] - unlisted[s] - Cardinality(WritesOf(s))
          BY <1>2 DEF EntryRight
    <3>5. CASE resource.payTo \in {NoPayTo, w.payTo}
      <4>1. s = w.payTo /\ resource'.payments = resource.payments + 1
            BY <2>1, <2>2, <2>4, <3>5
      <4>2. QED
            BY <1>1, <3>1, <3>2, <3>4, <3>5, <4>1
    <3>6. CASE resource.payTo \notin {NoPayTo, w.payTo}
      <4>1. resource' = resource /\ resource.payTo = s /\ w.payTo # s
            BY <2>2, <2>4, <3>6
      <4>2. QED
            BY <1>1, <3>1, <3>4, <4>1
    <3>7. QED
          BY <3>5, <3>6
  <2>5. resource'.payTo = NoPayTo => resource'.payments = 0
        BY <2>1, <2>2
  <2>6. QED
        BY <1>1, <2>1, <2>2, <2>3, <2>4, <2>5 DEF EntryRight
<1>9. QED
      BY <1>3, <1>5, <1>7, <1>8 DEF SalesInv

LEMMA SalesRecordFails ==
    ASSUME SalesAssumption, SalesInv, NEW w \in writes, RecordFails(w)
    PROVE  SalesInv'
<1>1. /\ writes' = writes \ {w} /\ unlisted' = [unlisted EXCEPT ![w.payTo] = @ + 1]
      /\ queued' = queued /\ inFlight' = inFlight /\ rows' = rows
      /\ lastAccepted' = lastAccepted /\ claimed' = claimed
      /\ report' = report /\ resource' = resource /\ wanted' = wanted
      BY DEF RecordFails, ledgerPart
<1>2. SalesTyped /\ BooksKept /\ ReportRight /\ EntryRight
      BY DEF SalesInv
<1>3. SalesTyped'
      BY <1>1, <1>2 DEF SalesTyped
<1>4. All' = All
      BY <1>1 DEF All
<1>5. BooksKept'
      BY <1>1, <1>2, <1>4, BooksStay
<1>6. lastAccepted \in [Sellers -> Nat] /\ claimed \in [Sellers -> Nat]
      BY <1>2 DEF SalesTyped
<1>7. ReportRight'
  <2>1. lastAccepted[Reporter] \in Nat /\ claimed[Reporter] \in Nat
        BY <1>6 DEF SalesAssumption
  <2>2. QED
        BY <1>1, <1>2, <2>1, ReportStays
<1>8. EntryRight'
  <2>1. /\ writes \subseteq [n : Nat, payTo : Sellers]
        /\ \A v \in writes : v.n <= lastAccepted[v.payTo]
        /\ unlisted \in [Sellers -> Nat] /\ w.payTo \in Sellers
        BY <1>2 DEF EntryRight
  <2>2. /\ unlisted' \in [Sellers -> Nat]
        /\ \A s \in Sellers : unlisted'[s] = IF s = w.payTo THEN unlisted[s] + 1 ELSE unlisted[s]
        BY <1>1, <2>1
  <2>3. /\ writes' \subseteq [n : Nat, payTo : Sellers] /\ IsFiniteSet(writes')
        /\ \A v \in writes' : v.n <= lastAccepted'[v.payTo]
        BY <1>1, <1>2, <2>1, OneWriteLess
  <2>4. ASSUME NEW s \in Sellers, resource.payTo \in {NoPayTo, s}
        PROVE  resource.payments = lastAccepted[s] - unlisted'[s] - Cardinality(WritesOf(s)')
    <3>1. /\ Cardinality(WritesOf(s)') = IF w.payTo = s THEN Cardinality(WritesOf(s)) - 1
                                                        ELSE Cardinality(WritesOf(s))
          /\ Cardinality(WritesOf(s)) \in Nat
          BY <1>1, <1>2, OneWriteLess, WritesOfFinite
    <3>2. /\ lastAccepted[s] \in Nat /\ unlisted[s] \in Nat
          /\ resource.payments = lastAccepted[s] - unlisted[s] - Cardinality(WritesOf(s))
          BY <1>2, <1>6, <2>1, <2>4 DEF EntryRight
    <3>3. QED
          BY <2>2, <3>1, <3>2
  <2>5. QED
        BY <1>1, <1>2, <2>2, <2>3, <2>4 DEF EntryRight
<1>9. QED
      BY <1>3, <1>5, <1>7, <1>8 DEF SalesInv

-----------------------------------------------------------------------------
(* The report.                                                              *)

LEMMA SalesAsked ==
    ASSUME SalesAssumption, SalesInv, ReportAsked
    PROVE  SalesInv'
<1>1. /\ report = NoReport
      /\ wanted' = [earned |-> lastAccepted[Reporter], settled |-> claimed[Reporter],
                    whole |-> inFlight = <<>>]
      /\ IF inFlight # <<>> \/ queued = <<>>
         THEN queued' = queued /\ inFlight' = inFlight
         ELSE inFlight' = queued /\ queued' = <<>>
      /\ report' = [NoReport EXCEPT !.at = IF inFlight' # <<>> THEN "flushing" ELSE "reading"]
      /\ lastAccepted' = lastAccepted /\ claimed' = claimed /\ rows' = rows
      /\ resource' = resource /\ writes' = writes /\ unlisted' = unlisted
      BY DEF ReportAsked
<1>2. SalesTyped /\ BooksKept /\ ReportRight /\ EntryRight
      BY DEF SalesInv
<1>3. /\ rows \in Seq(SaleEvents) /\ inFlight \in Seq(SaleEvents) /\ queued \in Seq(SaleEvents)
      /\ rows \o queued \in Seq(SaleEvents) /\ <<>> \in Seq(SaleEvents)
      BY <1>2, ConcatProperties, EmptySeq DEF SalesTyped
<1>4. /\ rows \o <<>> = rows /\ (rows \o queued) \o <<>> = rows \o queued
      BY <1>3, ConcatEmptySeq
<1>5. All' = All
      BY <1>1, <1>4 DEF All
<1>6. lastAccepted[Reporter] \in Nat /\ claimed[Reporter] \in Nat
      BY <1>2 DEF SalesTyped, SalesAssumption
<1>7. /\ wanted' \in [earned : Nat, settled : Nat, whole : BOOLEAN]
      /\ wanted'.earned = lastAccepted[Reporter] /\ wanted'.settled = claimed[Reporter]
      /\ wanted'.whole => inFlight = <<>>
  <2>1. (inFlight = <<>>) \in BOOLEAN
        OBVIOUS
  <2>2. QED
        BY <1>1, <1>6, <2>1
<1>8. /\ report' \in [at : {"none", "flushing", "reading", "earnedRead", "settledRead",
                            "bothRead", "done"},
                      earned : Nat, settled : Nat, receivable : Int]
      /\ report'.at = IF inFlight' # <<>> THEN "flushing" ELSE "reading"
      BY <1>1 DEF NoReport
<1>9. queued' \in Seq(SaleEvents) /\ inFlight' \in Seq(SaleEvents)
      BY <1>1, <1>3
<1>10. SalesTyped'
      BY <1>1, <1>2, <1>7, <1>8, <1>9 DEF SalesTyped
<1>11. BooksKept'
      BY <1>1, <1>2, <1>5, BooksStay
<1>12. ReportRight'
  <2>1. ASSUME inFlight = <<>>
        PROVE  /\ rows \o inFlight' = All
               /\ report'.at # "flushing" => rows = All
    <3>1. CASE queued = <<>>
          BY <1>1, <1>4, <1>8, <2>1, <3>1 DEF All
    <3>2. CASE queued # <<>>
      <4>1. inFlight' = queued /\ report'.at = "flushing"
            BY <1>1, <1>8, <2>1, <3>2
      <4>2. QED
            BY <1>4, <2>1, <4>1 DEF All
    <3>3. QED
          BY <3>1, <3>2
  <2>2. /\ EarnedIn(All, Reporter) = lastAccepted[Reporter]
        /\ SettledIn(All, Reporter) = claimed[Reporter]
        BY <1>2 DEF BooksKept, SalesAssumption
  <2>3. wanted'.whole /\ report'.at = "flushing" => Has(rows \o inFlight)'
    <3> SUFFICES ASSUME wanted'.whole PROVE Has(rows \o inFlight)'
        OBVIOUS
    <3>1. (rows \o inFlight)' = All
          BY <1>1, <1>7, <2>1
    <3>2. /\ EarnedIn((rows \o inFlight)', Reporter) >= wanted'.earned
          /\ SettledIn((rows \o inFlight)', Reporter) >= wanted'.settled
          BY <1>6, <1>7, <2>2, <3>1
    <3>3. QED
          BY <3>2 DEF Has
  <2>4. wanted'.whole /\ report'.at # "flushing" => Has(rows)'
    <3> SUFFICES ASSUME wanted'.whole, report'.at # "flushing" PROVE Has(rows)'
        OBVIOUS
    <3>1. rows' = All
          BY <1>1, <1>7, <2>1
    <3>2. /\ EarnedIn(rows', Reporter) >= wanted'.earned
          /\ SettledIn(rows', Reporter) >= wanted'.settled
          BY <1>6, <1>7, <2>2, <3>1
    <3>3. QED
          BY <3>2 DEF Has
  <2>5. report'.at \in {"flushing", "reading"}
        BY <1>8
  <2>6. wanted'.earned <= lastAccepted'[Reporter] /\ wanted'.settled <= claimed'[Reporter]
        BY <1>1, <1>6, <1>7
  <2>7. QED
        BY <2>3, <2>4, <2>5, <2>6 DEF ReportRight
<1>13. EntryRight'
      BY <1>1, <1>2, EntryStays
<1>14. QED
      BY <1>10, <1>11, <1>12, <1>13 DEF SalesInv

(* The queries sum up what the table says of the seller.                    *)
LEMMA QueriesSayRows ==
    /\ Summed(Mine(AcceptedType)) = EarnedIn(rows, Reporter)
    /\ Summed(OneEach(Mine(ClaimType))) = SettledIn(rows, Reporter)
  BY DEF Summed, Mine, OneEach, EarnedIn, SettledIn, About, FirstsOf, AmountsIn

LEMMA SalesEarnedRead ==
    ASSUME SalesAssumption, SalesInv, EarnedRead
    PROVE  SalesInv'
<1> DEFINE sum == Summed(Mine(AcceptedType))
<1>1. /\ report.at \in {"reading", "settledRead"}
      /\ report' = [report EXCEPT !.earned = sum,
                                  !.at = IF @ = "reading" THEN "earnedRead" ELSE "bothRead"]
      /\ queued' = queued /\ inFlight' = inFlight /\ rows' = rows
      /\ lastAccepted' = lastAccepted /\ claimed' = claimed /\ writes' = writes
      /\ resource' = resource /\ unlisted' = unlisted /\ wanted' = wanted
      BY DEF EarnedRead, ledgerPart
<1>2. SalesTyped /\ BooksKept /\ ReportRight /\ EntryRight
      BY DEF SalesInv
<1>3. /\ sum \in Nat /\ sum <= lastAccepted[Reporter] /\ sum = EarnedIn(rows, Reporter)
      BY <1>2, RowsSayLess, QueriesSayRows
<1> HIDE DEF sum
<1>4. report \in [at : {"none", "flushing", "reading", "earnedRead", "settledRead",
                        "bothRead", "done"},
                  earned : Nat, settled : Nat, receivable : Int]
      BY <1>2 DEF SalesTyped
<1>5. /\ report' \in [at : {"none", "flushing", "reading", "earnedRead", "settledRead",
                            "bothRead", "done"},
                      earned : Nat, settled : Nat, receivable : Int]
      /\ report'.earned = sum /\ report'.settled = report.settled
      /\ report'.at = IF report.at = "reading" THEN "earnedRead" ELSE "bothRead"
      BY <1>1, <1>3, <1>4
<1>6. SalesTyped'
      BY <1>1, <1>2, <1>5 DEF SalesTyped
<1>7. All' = All
      BY <1>1 DEF All
<1>8. BooksKept'
      BY <1>1, <1>2, <1>7, BooksStay
<1>9. ReportRight'
  <2>1. wanted.whole => Has(rows)
        BY <1>1, <1>2 DEF ReportRight
  <2>2. wanted.whole => sum >= wanted.earned
        BY <1>3, <2>1 DEF Has
  <2>3. Has(rows)' = Has(rows)
        BY <1>1 DEF Has
  <2>4. /\ report'.at \in {"earnedRead", "bothRead"}
        /\ report'.at = "bothRead" => report.at = "settledRead"
        BY <1>1, <1>5
  <2>5. report'.at \in {"settledRead", "bothRead", "done"} =>
             /\ report'.settled <= claimed'[Reporter]
             /\ wanted'.whole => report'.settled >= wanted'.settled
    <3> SUFFICES ASSUME report'.at \in {"settledRead", "bothRead", "done"}
                 PROVE  /\ report'.settled <= claimed'[Reporter]
                        /\ wanted'.whole => report'.settled >= wanted'.settled
        OBVIOUS
    <3>1. report.at = "settledRead"
          BY <2>4
    <3>2. /\ report.settled <= claimed[Reporter]
          /\ wanted.whole => report.settled >= wanted.settled
          BY <1>2, <3>1 DEF ReportRight
    <3>3. report'.settled = report.settled /\ claimed' = claimed /\ wanted' = wanted
          BY <1>1, <1>5
    <3>4. QED
          BY <3>2, <3>3
  <2>6. /\ report'.earned <= lastAccepted'[Reporter]
        /\ wanted'.whole => report'.earned >= wanted'.earned
        BY <1>1, <1>3, <1>5, <2>2
  <2>7. wanted'.earned <= lastAccepted'[Reporter] /\ wanted'.settled <= claimed'[Reporter]
        BY <1>1, <1>2 DEF ReportRight
  <2>8. wanted'.whole => Has(rows)'
        BY <1>1, <2>1, <2>3
  <2>9. QED
        BY <2>4, <2>5, <2>6, <2>7, <2>8 DEF ReportRight
<1>10. EntryRight'
      BY <1>1, <1>2, EntryStays
<1>11. QED
      BY <1>6, <1>8, <1>9, <1>10 DEF SalesInv

LEMMA SalesSettledRead ==
    ASSUME SalesAssumption, SalesInv, SettledRead
    PROVE  SalesInv'
<1> DEFINE sum == Summed(OneEach(Mine(ClaimType)))
<1>1. /\ report.at \in {"reading", "earnedRead"}
      /\ report' = [report EXCEPT !.settled = sum,
                                  !.at = IF @ = "reading" THEN "settledRead" ELSE "bothRead"]
      /\ queued' = queued /\ inFlight' = inFlight /\ rows' = rows
      /\ lastAccepted' = lastAccepted /\ claimed' = claimed /\ writes' = writes
      /\ resource' = resource /\ unlisted' = unlisted /\ wanted' = wanted
      BY DEF SettledRead, ledgerPart
<1>2. SalesTyped /\ BooksKept /\ ReportRight /\ EntryRight
      BY DEF SalesInv
<1>3. /\ sum \in Nat /\ sum <= claimed[Reporter] /\ sum = SettledIn(rows, Reporter)
      BY <1>2, RowsSayLess, QueriesSayRows
<1> HIDE DEF sum
<1>4. report \in [at : {"none", "flushing", "reading", "earnedRead", "settledRead",
                        "bothRead", "done"},
                  earned : Nat, settled : Nat, receivable : Int]
      BY <1>2 DEF SalesTyped
<1>5. /\ report' \in [at : {"none", "flushing", "reading", "earnedRead", "settledRead",
                            "bothRead", "done"},
                      earned : Nat, settled : Nat, receivable : Int]
      /\ report'.settled = sum /\ report'.earned = report.earned
      /\ report'.at = IF report.at = "reading" THEN "settledRead" ELSE "bothRead"
      BY <1>1, <1>3, <1>4
<1>6. SalesTyped'
      BY <1>1, <1>2, <1>5 DEF SalesTyped
<1>7. All' = All
      BY <1>1 DEF All
<1>8. BooksKept'
      BY <1>1, <1>2, <1>7, BooksStay
<1>9. ReportRight'
  <2>1. wanted.whole => Has(rows)
        BY <1>1, <1>2 DEF ReportRight
  <2>2. wanted.whole => sum >= wanted.settled
        BY <1>3, <2>1 DEF Has
  <2>3. Has(rows)' = Has(rows)
        BY <1>1 DEF Has
  <2>4. /\ report'.at \in {"settledRead", "bothRead"}
        /\ report'.at = "bothRead" => report.at = "earnedRead"
        BY <1>1, <1>5
  <2>5. report'.at \in {"earnedRead", "bothRead", "done"} =>
             /\ report'.earned <= lastAccepted'[Reporter]
             /\ wanted'.whole => report'.earned >= wanted'.earned
    <3> SUFFICES ASSUME report'.at \in {"earnedRead", "bothRead", "done"}
                 PROVE  /\ report'.earned <= lastAccepted'[Reporter]
                        /\ wanted'.whole => report'.earned >= wanted'.earned
        OBVIOUS
    <3>1. report.at = "earnedRead"
          BY <2>4
    <3>2. /\ report.earned <= lastAccepted[Reporter]
          /\ wanted.whole => report.earned >= wanted.earned
          BY <1>2, <3>1 DEF ReportRight
    <3>3. report'.earned = report.earned /\ lastAccepted' = lastAccepted /\ wanted' = wanted
          BY <1>1, <1>5
    <3>4. QED
          BY <3>2, <3>3
  <2>6. /\ report'.settled <= claimed'[Reporter]
        /\ wanted'.whole => report'.settled >= wanted'.settled
        BY <1>1, <1>3, <1>5, <2>2
  <2>7. wanted'.earned <= lastAccepted'[Reporter] /\ wanted'.settled <= claimed'[Reporter]
        BY <1>1, <1>2 DEF ReportRight
  <2>8. wanted'.whole => Has(rows)'
        BY <1>1, <2>1, <2>3
  <2>9. QED
        BY <2>4, <2>5, <2>6, <2>7, <2>8 DEF ReportRight
<1>10. EntryRight'
      BY <1>1, <1>2, EntryStays
<1>11. QED
      BY <1>6, <1>8, <1>9, <1>10 DEF SalesInv

LEMMA SalesReported ==
    ASSUME SalesAssumption, SalesInv, Reported
    PROVE  SalesInv'
<1> DEFINE a == lastAccepted[Reporter]
           c == claimed[Reporter]
<1>1. /\ report.at = "bothRead"
      /\ report' = [report EXCEPT !.at = "done", !.receivable = a - c]
      /\ queued' = queued /\ inFlight' = inFlight /\ rows' = rows
      /\ lastAccepted' = lastAccepted /\ claimed' = claimed /\ writes' = writes
      /\ resource' = resource /\ unlisted' = unlisted /\ wanted' = wanted
      BY DEF Reported, ledgerPart
<1>2. SalesTyped /\ BooksKept /\ ReportRight /\ EntryRight
      BY DEF SalesInv
<1>3. a \in Nat /\ c \in Nat /\ wanted.earned <= a /\ wanted.settled <= c
      BY <1>2 DEF SalesTyped, SalesAssumption, ReportRight
<1>4. /\ report' \in [at : {"none", "flushing", "reading", "earnedRead", "settledRead",
                            "bothRead", "done"},
                      earned : Nat, settled : Nat, receivable : Int]
      /\ report'.earned = report.earned /\ report'.settled = report.settled
      /\ report'.at = "done" /\ report'.receivable = a - c
  <2>1. report \in [at : {"none", "flushing", "reading", "earnedRead", "settledRead",
                          "bothRead", "done"},
                    earned : Nat, settled : Nat, receivable : Int]
        BY <1>2 DEF SalesTyped
  <2>2. a - c \in Int
        BY <1>3
  <2> HIDE DEF a, c
  <2>3. QED
        BY <1>1, <2>1, <2>2
<1>5. SalesTyped'
      BY <1>1, <1>2, <1>4 DEF SalesTyped
<1>6. All' = All
      BY <1>1 DEF All
<1>7. BooksKept'
      BY <1>1, <1>2, <1>6, BooksStay
<1>8. ReportRight'
  <2>1. /\ report.earned <= a /\ report.settled <= c
        /\ wanted.whole => report.earned >= wanted.earned /\ report.settled >= wanted.settled
        BY <1>1, <1>2 DEF ReportRight
  <2>2. a = lastAccepted'[Reporter] /\ c = claimed'[Reporter] /\ wanted' = wanted
        BY <1>1
  <2> HIDE DEF a, c
  <2>3. \E x, y \in Nat : /\ report'.receivable = x - y
                          /\ wanted'.earned <= x /\ x <= a
                          /\ wanted'.settled <= y /\ y <= c
        BY <1>3, <1>4, <2>2
  <2>4. QED
        BY <1>3, <1>4, <2>1, <2>2, <2>3 DEF ReportRight
<1>9. EntryRight'
      BY <1>1, <1>2, EntryStays
<1>10. QED
      BY <1>5, <1>7, <1>8, <1>9 DEF SalesInv

-----------------------------------------------------------------------------
LEMMA SalesStart ==
    ASSUME SalesAssumption, SalesInit
    PROVE  SalesInv
<1>1. /\ lastAccepted = [s \in Sellers |-> 0] /\ claimed = lastAccepted
      /\ queued = <<>> /\ inFlight = <<>> /\ rows = <<>>
      /\ writes = {} /\ resource = [payTo |-> NoPayTo, payments |-> 0]
      /\ report = NoReport /\ unlisted = [s \in Sellers |-> 0]
      /\ wanted = [earned |-> 0, settled |-> 0, whole |-> FALSE]
      BY DEF SalesInit
<1>2. /\ <<>> \in Seq(SaleEvents) /\ <<>> \o <<>> = <<>> /\ (<<>> \o <<>>) \o <<>> = <<>>
      /\ DOMAIN <<>> = {}
      BY EmptySeq, ConcatEmptySeq
<1>3. \A s \in Sellers : lastAccepted[s] = 0 /\ claimed[s] = 0
      BY <1>1
<1>4. SalesTyped
  <2>1. report.at = "none" /\ report \in [at : {"none", "flushing", "reading", "earnedRead",
                   "settledRead", "bothRead", "done"},
                   earned : Nat, settled : Nat, receivable : Int]
        BY <1>1 DEF NoReport
  <2>2. wanted \in [earned : Nat, settled : Nat, whole : BOOLEAN]
        BY <1>1
  <2>3. lastAccepted \in [Sellers -> Nat] /\ claimed \in [Sellers -> Nat]
        BY <1>1
  <2>4. QED
        BY <1>1, <1>2, <1>3, <2>1, <2>2, <2>3 DEF SalesTyped
<1>5. All = <<>>
      BY <1>1, <1>2 DEF All
<1>6. BooksKept
  <2>1. \A s : EarnedIn(<<>>, s) = 0 /\ SettledIn(<<>>, s) = 0
    <3> SUFFICES ASSUME NEW s PROVE EarnedIn(<<>>, s) = 0 /\ SettledIn(<<>>, s) = 0
        OBVIOUS
    <3>1. About(<<>>, AcceptedType, s) = {} /\ About(<<>>, ClaimType, s) = {}
          BY <1>2 DEF About
    <3>2. FirstsOf(<<>>, {}) = {}
          BY DEF FirstsOf
    <3>3. QED
          BY <3>1, <3>2, SumOfNone DEF EarnedIn, SettledIn
  <2>2. Claims = 1..0
    <3>1. TxsIn(<<>>) = {}
          BY <1>2 DEF TxsIn
    <3>2. QED
          BY <1>5, <3>1, ClaimsAreTxs
  <2>3. QED
        BY <1>3, <1>5, <2>1, <2>2 DEF BooksKept
<1>7. ReportRight
  <2>1. report.at = "none" /\ wanted.earned = 0 /\ wanted.settled = 0 /\ ~wanted.whole
        BY <1>1 DEF NoReport
  <2>2. lastAccepted[Reporter] = 0 /\ claimed[Reporter] = 0
        BY <1>3 DEF SalesAssumption
  <2>3. QED
        BY <2>1, <2>2 DEF ReportRight
<1>8. EntryRight
  <2>1. \A s : WritesOf(s) = {}
        BY <1>1 DEF WritesOf
  <2>2. IsFiniteSet({}) /\ Cardinality({}) = 0
        BY FS_EmptySet
  <2>3. resource \in [payTo : Sellers \cup {NoPayTo}, payments : Nat] /\ resource.payments = 0
        BY <1>1
  <2>4. unlisted \in [Sellers -> Nat] /\ \A s \in Sellers : unlisted[s] = 0
        BY <1>1
  <2>5. \A s \in Sellers :
           resource.payments = lastAccepted[s] - unlisted[s] - Cardinality(WritesOf(s))
    <3>1. \A s \in Sellers :
             lastAccepted[s] = 0 /\ unlisted[s] = 0 /\ Cardinality(WritesOf(s)) = 0
          BY <1>3, <2>1, <2>2, <2>4
    <3>2. QED
          BY <2>3, <3>1
  <2>6. writes \subseteq [n : Nat, payTo : Sellers] /\ IsFiniteSet(writes) /\ writes = {}
        BY <1>1, <2>2
  <2>7. QED
        BY <2>3, <2>4, <2>5, <2>6 DEF EntryRight
<1>9. QED
      BY <1>4, <1>6, <1>7, <1>8 DEF SalesInv

LEMMA SalesSteps ==
    ASSUME SalesAssumption, SalesInv, [SalesNext]_salesVars
    PROVE  SalesInv'
<1>1. CASE \E s \in Sellers : Pays(s) \/ ClaimPaid(s)
      BY <1>1, SalesPays, SalesClaimPaid
<1>2. CASE \E e \in ToSet(rows) : ClaimedAgain(e)
      BY <1>2, SalesClaimedAgain
<1>3. CASE EventsFlushed \/ EventsWritten \/ EventsRefused
      BY <1>3, SalesFlushed, SalesWritten, SalesRefused
<1>4. CASE \E w \in writes : Recorded(w) \/ RecordFails(w)
      BY <1>4, SalesRecorded, SalesRecordFails
<1>5. CASE ReportAsked \/ EarnedRead \/ SettledRead \/ Reported
      BY <1>5, SalesAsked, SalesEarnedRead, SalesSettledRead, SalesReported
<1>6. CASE UNCHANGED salesVars
  <2>1. /\ queued' = queued /\ inFlight' = inFlight /\ rows' = rows
        /\ lastAccepted' = lastAccepted /\ claimed' = claimed /\ writes' = writes
        /\ resource' = resource /\ unlisted' = unlisted /\ wanted' = wanted /\ report' = report
        BY <1>6 DEF salesVars, ledgerPart
  <2>2. SalesTyped /\ BooksKept /\ ReportRight /\ EntryRight
        BY DEF SalesInv
  <2>3. SalesTyped'
        BY <2>1, <2>2 DEF SalesTyped
  <2>4. All' = All
        BY <2>1 DEF All
  <2>5. lastAccepted[Reporter] \in Nat /\ claimed[Reporter] \in Nat
        BY <2>2 DEF SalesTyped, SalesAssumption
  <2>6. BooksKept' /\ ReportRight' /\ EntryRight'
        BY <2>1, <2>2, <2>4, <2>5, BooksStay, ReportStays, EntryStays
  <2>7. QED
        BY <2>3, <2>6 DEF SalesInv
<1>7. QED
      BY <1>1, <1>2, <1>3, <1>4, <1>5, <1>6 DEF SalesNext

LEMMA SalesInvAddsUp ==
    ASSUME SalesAssumption, SalesInv
    PROVE  SalesAddUp
<1>1. SalesTyped /\ BooksKept /\ ReportRight /\ EntryRight
      BY DEF SalesInv
<1>2. EntryCounts
  <2> SUFFICES ASSUME resource.payTo # NoPayTo
      PROVE resource.payments = lastAccepted[resource.payTo] - unlisted[resource.payTo]
               - Cardinality(WritesOf(resource.payTo))
      BY DEF EntryCounts, WritesOf
  <2>1. resource.payTo \in Sellers
        BY <1>1 DEF EntryRight
  <2>2. QED
        BY <1>1, <2>1 DEF EntryRight
<1>3. (/\ report.at = "done" /\ wanted.whole
       /\ wanted.earned = lastAccepted[Reporter] /\ wanted.settled = claimed[Reporter])
          => report.earned - report.settled = report.receivable
  <2> SUFFICES ASSUME report.at = "done", wanted.whole,
                      wanted.earned = lastAccepted[Reporter], wanted.settled = claimed[Reporter]
               PROVE  report.earned - report.settled = report.receivable
      OBVIOUS
  <2>1. PICK a \in Nat, c \in Nat : /\ report.receivable = a - c
                               /\ wanted.earned <= a /\ a <= lastAccepted[Reporter]
                               /\ wanted.settled <= c /\ c <= claimed[Reporter]
        BY <1>1 DEF ReportRight
  <2>2. /\ report.earned <= lastAccepted[Reporter] /\ report.earned >= wanted.earned
        /\ report.settled <= claimed[Reporter] /\ report.settled >= wanted.settled
        BY <1>1 DEF ReportRight
  <2>3. /\ lastAccepted[Reporter] \in Nat /\ claimed[Reporter] \in Nat
        /\ report.earned \in Nat /\ report.settled \in Nat
        BY <1>1 DEF SalesTyped, SalesAssumption
  <2>4. report.earned = lastAccepted[Reporter] /\ report.settled = claimed[Reporter]
        BY <2>2, <2>3
  <2>5. a = lastAccepted[Reporter] /\ c = claimed[Reporter]
        BY <2>1, <2>3
  <2>6. QED
        BY <2>1, <2>4, <2>5
<1>4. ReportAddsUp
      BY <1>1, <1>3 DEF ReportAddsUp, ReportRight
<1>5. QED
      BY <1>2, <1>4 DEF SalesAddUp

(* What sellers read of their sales adds up (SalesAddUp): the report        *)
(* counts no sale twice, the row of an address counts its owner's payments. *)
THEOREM SalesAlwaysAddUp == SalesSpec => []SalesAddUp
<1> USE SalesAssumption
<1>1. SalesInit => SalesInv
      BY SalesStart
<1>2. SalesInv /\ [SalesNext]_salesVars => SalesInv'
      BY SalesSteps
<1>3. SalesInv => SalesAddUp
      BY SalesInvAddsUp
<1>4. QED
      BY <1>1, <1>2, <1>3, PTL DEF SalesSpec

(* What is reported to those outside the backend holds (ReportsHold).       *)
THEOREM ReportsAlwaysHold == DeskSpec /\ SalesSpec => []ReportsHold
<1>1. ToldOnce /\ SalesAddUp => ReportsHold
      BY DEF ReportsHold
<1>2. QED
      BY <1>1, AlwaysToldOnce, SalesAlwaysAddUp, PTL

-----------------------------------------------------------------------------
(* The order book: what divisions and roots that are rounded still promise.  *)

LEMMA Divides ==
    ASSUME NEW n \in Nat, NEW d \in Nat \ {0}
    PROVE  n \div d \in Nat /\ (n \div d) * d <= n /\ n < (n \div d + 1) * d
<1> DEFINE q == n \div d
<1>1. q \in Nat /\ n = d * q + (n % d) /\ n % d \in 0..(d - 1)
      OBVIOUS
<1>2. n % d \in Nat /\ n % d < d
      BY <1>1
<1> HIDE DEF q
<1>3. (q + 1) * d = d * q + d /\ q * d = d * q
      BY <1>1
<1>4. QED
      BY <1>1, <1>2, <1>3 DEF q

LEMMA DivBetween ==
    ASSUME NEW n \in Nat, NEW d \in Nat \ {0}, NEW q \in Nat, q * d <= n, n < (q + 1) * d
    PROVE  n \div d = q
<1>1. n \div d \in Nat /\ (n \div d) * d <= n /\ n < (n \div d + 1) * d
      BY Divides
<1>2. QED
      BY <1>1

(* Of products with the same factor. *)
LEMMA TimesMonotonic == \A a, b, c \in Nat : a <= b => a * c <= b * c /\ c * a <= c * b
  OBVIOUS

LEMMA SquaresDecide == \A a, b \in Nat : a * a < b * b => a < b
  OBVIOUS

LEMMA DivMonotonic ==
    ASSUME NEW m \in Nat, NEW n \in Nat, m <= n, NEW d \in Nat \ {0}
    PROVE  m \div d <= n \div d
  OBVIOUS

LEMMA DivAntitone ==
    ASSUME NEW n \in Nat, NEW c \in Nat \ {0}, NEW d \in Nat \ {0}, c <= d
    PROVE  n \div d <= n \div c
  OBVIOUS

LEMMA MeanIsAbove == \A x, q, r \in Nat : x + q + 1 <= 2 * r => (q + 1) * x <= r * r
  OBVIOUS

(* Every number has a root, and one only.                                   *)
LEMMA OneRoot ==
    ASSUME NEW n \in Nat
    PROVE  /\ \E r \in Nat : IsRoot(r, n) /\ r <= n /\ (n >= 1 => r >= 1)
           /\ \A r, s \in Nat : IsRoot(r, n) /\ IsRoot(s, n) => r = s
<1> DEFINE B == {m \in Nat : m * m > n}
<1>1. n + 1 \in B
      OBVIOUS
<1>2. PICK m \in B : \A k \in B : m <= k
      BY <1>1, LeastOf
<1>3. m \in Nat /\ m * m > n /\ m >= 1
      BY <1>2
<1>4. m - 1 \in Nat /\ m - 1 \notin B
      BY <1>2, <1>3
<1>5. (m - 1) * (m - 1) <= n /\ n < ((m - 1) + 1) * ((m - 1) + 1)
      BY <1>3, <1>4
<1>6. m - 1 <= n
  <2>1. m <= n + 1
        BY <1>1, <1>2
  <2>2. QED
        BY <1>3, <2>1
<1>7. n >= 1 => m - 1 >= 1
  <2>1. 1 * 1 = 1 /\ (n >= 1 => 1 \notin B)
        OBVIOUS
  <2>2. n >= 1 => m # 1
        BY <1>2, <2>1
  <2>3. QED
        BY <1>3, <2>2
<1>8. \E r \in Nat : IsRoot(r, n) /\ r <= n /\ (n >= 1 => r >= 1)
      BY <1>4, <1>5, <1>6, <1>7 DEF IsRoot
<1>9. \A r, s \in Nat : IsRoot(r, n) /\ IsRoot(s, n) => r = s
  <2> SUFFICES ASSUME NEW r \in Nat, NEW s \in Nat, IsRoot(r, n), IsRoot(s, n) PROVE r = s
      OBVIOUS
  <2>1. /\ r * r \in Nat /\ s * s \in Nat /\ (r + 1) * (r + 1) \in Nat /\ (s + 1) * (s + 1) \in Nat
        /\ r * r < (s + 1) * (s + 1) /\ s * s < (r + 1) * (r + 1)
        BY DEF IsRoot
  <2>2. r < s + 1 /\ s < r + 1
        BY <2>1, SquaresDecide
  <2>3. QED
        BY <2>2
<1>10. QED
      BY <1>8, <1>9

Adjusts(n, f) ==
    f = [r \in 0..n |-> IF r * r > n THEN f[r - 1]
                        ELSE IF (r + 1) * (r + 1) =< n THEN f[r + 1] ELSE r]

LEMMA FloorChosen == \A n, start : ToFloor(n, start) = (CHOOSE f : Adjusts(n, f))[start]
  BY DEF ToFloor, Adjusts

LEMMA FloorIsExact ==
    ASSUME NEW n \in Nat, NEW start \in 0..n
    PROVE  ToFloor(n, start) \in Nat /\ IsRoot(ToFloor(n, start), n)
<1>1. PICK r \in Nat : IsRoot(r, n) /\ r <= n
      BY OneRoot
<1>2. r * r <= n /\ n < (r + 1) * (r + 1) /\ r \in 0..n
      BY <1>1 DEF IsRoot
<1> DEFINE c == [x \in 0..n |-> r]
           f == CHOOSE g : Adjusts(n, g)
<1>3. ASSUME NEW x \in 0..n
      PROVE  /\ x * x > n => x > r /\ x - 1 \in 0..n
             /\ x > r => x * x > n
             /\ (x + 1) * (x + 1) <= n => x < r /\ x + 1 \in 0..n /\ ~(x * x > n)
             /\ x < r => (x + 1) * (x + 1) <= n /\ ~(x * x > n)
  <2>1. x \in Nat /\ x <= n /\ x * x \in Nat /\ (x + 1) * (x + 1) \in Nat /\ r * r \in Nat
        BY <1>3
  <2>2. x > r => (r + 1) * (r + 1) <= x * x
        BY <2>1
  <2>3. x <= r => x * x <= r * r
        BY <2>1
  <2>4. x < r => (x + 1) * (x + 1) <= r * r
        BY <2>1
  <2>5. x >= r => (r + 1) * (r + 1) <= (x + 1) * (x + 1)
        BY <2>1
  <2>6. (r + 1) * (r + 1) \in Nat
        BY <2>1
  <2>7. x > r <=> x * x > n
        BY <1>2, <2>1, <2>2, <2>3, <2>6
  <2>8. x < r <=> (x + 1) * (x + 1) <= n
        BY <1>2, <2>1, <2>4, <2>5, <2>6
  <2>9. x > r => x - 1 \in 0..n
        BY <2>1
  <2>10. x < r => x + 1 \in 0..n
        BY <1>2, <2>1
  <2>11. QED
        BY <2>1, <2>7, <2>8, <2>9, <2>10
<1>4. Adjusts(n, c)
  <2>1. \A x \in 0..n :
           c[x] = IF x * x > n THEN c[x - 1]
                  ELSE IF (x + 1) * (x + 1) =< n THEN c[x + 1] ELSE x
    <3> SUFFICES ASSUME NEW x \in 0..n
                 PROVE  c[x] = IF x * x > n THEN c[x - 1]
                               ELSE IF (x + 1) * (x + 1) =< n THEN c[x + 1] ELSE x
        OBVIOUS
    <3>1. x * x > n => x - 1 \in 0..n
          BY <1>3
    <3>2. (x + 1) * (x + 1) <= n => x + 1 \in 0..n
          BY <1>3
    <3>3. ~(x * x > n) /\ ~((x + 1) * (x + 1) <= n) => x = r
          BY <1>2, <1>3
    <3>4. QED
          BY <3>1, <3>2, <3>3
  <2>2. QED
        BY <2>1 DEF Adjusts
<1> HIDE DEF c
<1>5. Adjusts(n, f)
      BY <1>4
<1>6. ToFloor(n, start) = f[start]
      BY FloorChosen
<1> HIDE DEF f
<1>7. \A x \in 0..n : f[x] = IF x * x > n THEN f[x - 1]
                            ELSE IF (x + 1) * (x + 1) =< n THEN f[x + 1] ELSE x
      BY <1>5 DEF Adjusts
<1>8. f[r] = r
  <2>1. ~(r * r > n) /\ ~((r + 1) * (r + 1) <= n)
        BY <1>2, <1>3
  <2>2. QED
        BY <1>2, <1>7, <2>1
<1>9. ASSUME NEW x \in 0..n, x > r, f[x] # r PROVE FALSE
  <2> DEFINE U == {y \in 0..n : y > r /\ f[y] # r}
  <2>1. U \subseteq Nat /\ U # {}
        BY <1>9
  <2>2. PICK m \in U : \A y \in U : m <= y
        BY <2>1, LeastOf
  <2>3. m \in 0..n /\ m > r /\ f[m] # r
        BY <2>2
  <2>4. f[m] = f[m - 1] /\ m - 1 \in 0..n
        BY <1>3, <1>7, <2>3
  <2>5. m - 1 # r
        BY <1>8, <2>3, <2>4
  <2>6. m - 1 > r /\ ~(m <= m - 1)
        BY <2>3, <2>5
  <2>7. m - 1 \in U
        BY <2>3, <2>4, <2>6
  <2>8. QED
        BY <2>2, <2>6, <2>7
<1>10. ASSUME NEW x \in 0..n, x < r, f[x] # r PROVE FALSE
  <2> DEFINE D == {d \in 1..r : f[r - d] # r}
  <2>1. r - x \in D
    <3>1. x \in Nat /\ r - x \in 1..r /\ r - (r - x) = x
          BY <1>10
    <3>2. QED
          BY <1>10, <3>1
  <2>2. D \subseteq Nat
        OBVIOUS
  <2>3. PICK d \in D : \A k \in D : d <= k
        BY <2>1, <2>2, LeastOf
  <2>4. d \in 1..r /\ f[r - d] # r
        BY <2>3
  <2> DEFINE y == r - d
  <2>5. y \in 0..n /\ y < r /\ y + 1 = r - (d - 1) /\ f[y] # r
        BY <1>2, <2>4
  <2> HIDE DEF y
  <2>6. f[y] = f[y + 1]
        BY <1>3, <1>7, <2>5
  <2>7. d # 1
        BY <1>8, <2>4, <2>5, <2>6
  <2>8. d - 1 \in 1..r /\ ~(d <= d - 1)
        BY <2>4, <2>7
  <2>9. d - 1 \in D
        BY <2>5, <2>6, <2>8
  <2>10. QED
        BY <2>3, <2>8, <2>9
<1>11. f[start] = r
  <2>1. start \in Nat
        OBVIOUS
  <2>2. start < r \/ start = r \/ start > r
        BY <2>1
  <2>3. QED
        BY <1>8, <1>9, <1>10, <2>2
<1>12. QED
      BY <1>1, <1>6, <1>11

Step(n, x) == (x + n \div x) \div 2

Newtons(n, f) ==
    f = [x \in 1..n |-> IF Near(x, Step(n, x))
                        THEN ToFloor(n, IF Step(n, x) < x THEN Step(n, x) ELSE x)
                        ELSE f[Step(n, x)]]

LEMMA RootChosen ==
    \A n, first : isqrt(n, first) = IF n < 2 THEN n ELSE (CHOOSE f : Newtons(n, f))[first]
  BY DEF isqrt, Newtons, Step

(* A step never falls below the root, and above the root it goes down.      *)
LEMMA NewtonGoesDown ==
    ASSUME NEW n \in Nat, n >= 2, NEW r \in Nat, IsRoot(r, n), NEW x \in 1..n
    PROVE  /\ Step(n, x) \in 1..n /\ Step(n, x) >= r
           /\ x > r => Step(n, x) < x
           /\ x = r => Step(n, x) \in {x, x + 1}
<1> DEFINE q == n \div x
<1>1. x \in Nat \ {0} /\ q \in Nat /\ q * x <= n /\ n < (q + 1) * x
      BY Divides
<1> HIDE DEF q
<1>2. Step(n, x) = (x + q) \div 2
      BY DEF Step, q
<1>3. r * r <= n /\ n < (r + 1) * (r + 1) /\ r * r \in Nat /\ (r + 1) * (r + 1) \in Nat
      BY DEF IsRoot
<1>4. x + q >= 2 * r
  <2> SUFFICES ASSUME x + q < 2 * r PROVE FALSE
      BY <1>1
  <2>1. x + q + 1 <= 2 * r
        BY <1>1
  <2>2. (q + 1) * x <= r * r
        BY <1>1, <2>1, MeanIsAbove
  <2>3. (q + 1) * x \in Nat
        BY <1>1
  <2>4. QED
        BY <1>1, <1>3, <2>2, <2>3
<1>5. (x + q) \div 2 >= r
      BY <1>1, <1>4
<1>6. x > r => q < x
  <2> SUFFICES ASSUME x > r, q >= x PROVE FALSE
      BY <1>1
  <2>1. x * x <= q * x /\ x * x \in Nat /\ q * x \in Nat
        BY <1>1, TimesMonotonic
  <2>2. (r + 1) * (r + 1) <= x * x
        BY <1>1
  <2>3. QED
        BY <1>1, <1>3, <2>1, <2>2
<1>7. x > r => (x + q) \div 2 < x
      BY <1>1, <1>6
<1>8. x = r => q <= x + 2 /\ q >= x
  <2> SUFFICES ASSUME x = r PROVE q <= x + 2 /\ q >= x
      OBVIOUS
  <2>1. ASSUME q >= r + 3 PROVE FALSE
    <3>1. (r + 3) * r <= q * r /\ (r + 3) * r \in Nat /\ q * r \in Nat
          BY <1>1, <2>1, TimesMonotonic
    <3>2. (r + 3) * r = r * r + 3 * r /\ (r + 1) * (r + 1) = r * r + 2 * r + 1 /\ r >= 1
          BY <1>1
    <3>3. QED
          BY <1>1, <1>3, <3>1, <3>2
  <2>2. ASSUME q < r PROVE FALSE
    <3>1. q + 1 <= r /\ (q + 1) * r <= r * r /\ (q + 1) * r \in Nat
          BY <1>1, <2>2, TimesMonotonic
    <3>2. QED
          BY <1>1, <1>3, <3>1
  <2>3. QED
        BY <1>1, <2>1, <2>2
<1>9. x = r => (x + q) \div 2 \in {x, x + 1}
      BY <1>1, <1>8
<1>10. q <= n
  <2>1. q * 1 <= q * x
        BY <1>1, TimesMonotonic
  <2>2. q * x \in Nat
        BY <1>1
  <2>3. QED
        BY <1>1, <2>1, <2>2
<1>11. q >= 1
  <2> SUFFICES ASSUME q = 0 PROVE FALSE
      BY <1>1
  <2>1. n < 1 * x
        BY <1>1
  <2>2. QED
        BY <2>1
<1>12. (x + q) \div 2 \in 1..n
  <2>1. x \in Nat /\ q \in Nat /\ x >= 1 /\ x <= n /\ q >= 1 /\ q <= n
        BY <1>1, <1>10, <1>11
  <2>2. QED
        BY <2>1
<1>13. QED
      BY <1>2, <1>5, <1>7, <1>9, <1>12

LEMMA RootIsExact ==
    ASSUME NEW n \in Nat, NEW first, n >= 2 => first \in 1..n
    PROVE  isqrt(n, first) \in Nat /\ IsRoot(isqrt(n, first), n)
<1>1. CASE n < 2
  <2>1. isqrt(n, first) = n
        BY <1>1, RootChosen
  <2>2. n * n <= n /\ n < (n + 1) * (n + 1)
    <3>1. n = 0 \/ n = 1
          BY <1>1
    <3>2. QED
          BY <3>1
  <2>3. QED
        BY <2>1, <2>2 DEF IsRoot
<1>2. CASE n >= 2
  <2>1. PICK r \in Nat : IsRoot(r, n) /\ r <= n /\ r >= 1
        BY <1>2, OneRoot
  <2>2. r \in 1..n /\ first \in 1..n
        BY <1>2, <2>1
  <2> DEFINE c == [x \in 1..n |-> r]
             f == CHOOSE g : Newtons(n, g)
             Low(x) == IF Step(n, x) < x THEN Step(n, x) ELSE x
  <2>3. \A x \in 1..n : /\ Step(n, x) \in 1..n /\ Step(n, x) >= r
                        /\ x > r => Step(n, x) < x
                        /\ x = r => Step(n, x) \in {x, x + 1}
        BY <1>2, <2>1, NewtonGoesDown
  <2>4. ASSUME NEW x \in 1..n PROVE ToFloor(n, Low(x)) = r
    <3>1. Low(x) \in 0..n
          BY <2>3
    <3> HIDE DEF Low
    <3>2. ToFloor(n, Low(x)) \in Nat /\ IsRoot(ToFloor(n, Low(x)), n)
          BY <3>1, FloorIsExact
    <3>3. QED
          BY <2>1, <3>2, OneRoot
  <2> HIDE DEF Low
  <2>5. Newtons(n, c)
    <3>1. \A x \in 1..n : c[x] = IF Near(x, Step(n, x)) THEN ToFloor(n, Low(x)) ELSE c[Step(n, x)]
          BY <2>3, <2>4
    <3>2. QED
          BY <3>1 DEF Newtons, Low
  <2> HIDE DEF c
  <2>6. Newtons(n, f)
        BY <2>5
  <2>7. isqrt(n, first) = f[first]
        BY <1>2, RootChosen
  <2> HIDE DEF f
  <2>8. \A x \in 1..n : f[x] = IF Near(x, Step(n, x)) THEN ToFloor(n, Low(x)) ELSE f[Step(n, x)]
        BY <2>6 DEF Newtons, Low
  <2>9. f[r] = r
    <3>1. Near(r, Step(n, r))
          BY <2>2, <2>3 DEF Near
    <3>2. QED
          BY <2>2, <2>4, <2>8, <3>1
  <2>10. ASSUME NEW x \in 1..n, x >= r, f[x] # r PROVE FALSE
    <3> DEFINE B == {y \in 1..n : y >= r /\ f[y] # r}
    <3>1. B \subseteq Nat /\ B # {}
          BY <2>10
    <3>2. PICK m \in B : \A y \in B : m <= y
          BY <3>1, LeastOf
    <3>3. m \in 1..n /\ m >= r /\ f[m] # r
          BY <3>2
    <3>4. m > r
          BY <2>9, <3>3
    <3>5. Step(n, m) \in 1..n /\ Step(n, m) >= r /\ Step(n, m) < m
          BY <2>3, <3>3, <3>4
    <3>6. f[Step(n, m)] # r
          BY <2>4, <2>8, <3>3
    <3>7. Step(n, m) \in B /\ ~(m <= Step(n, m))
          BY <3>3, <3>5, <3>6
    <3>8. QED
          BY <3>2, <3>7
  <2>11. f[first] = r
    <3>1. CASE Near(first, Step(n, first))
          BY <2>2, <2>4, <2>8, <3>1
    <3>2. CASE ~Near(first, Step(n, first))
      <4>1. f[first] = f[Step(n, first)]
            BY <2>2, <2>8, <3>2
      <4>2. Step(n, first) \in 1..n /\ Step(n, first) >= r
            BY <2>2, <2>3
      <4>3. QED
            BY <2>10, <4>1, <4>2
    <3>3. QED
          BY <3>1, <3>2
  <2>12. QED
        BY <2>1, <2>7, <2>11
<1>3. QED
      BY <1>1, <1>2

LEMMA RootOfIsExact ==
    ASSUME NEW n \in Nat
    PROVE  Root(n) \in Nat /\ IsRoot(Root(n), n)
<1> DEFINE first == IF n < 2 THEN 1 ELSE CHOOSE r \in 1..n : IsRoot(r, n)
<1>1. n >= 2 => first \in 1..n
  <2>1. n >= 2 => \E r \in 1..n : IsRoot(r, n)
        BY OneRoot
  <2>2. QED
        BY <2>1
<1>2. Root(n) = isqrt(n, first)
      BY DEF Root
<1> HIDE DEF first
<1>3. QED
      BY <1>1, <1>2, RootIsExact

(* A greater number has no smaller root.                                    *)
LEMMA RootsGrow ==
    ASSUME NEW m \in Nat, NEW n \in Nat, m <= n
    PROVE  Root(m) <= Root(n)
<1>1. Root(m) \in Nat /\ IsRoot(Root(m), m) /\ Root(n) \in Nat /\ IsRoot(Root(n), n)
      BY RootOfIsExact
<1> DEFINE a == Root(m)
           b == Root(n)
<1>2. a \in Nat /\ b \in Nat /\ a * a <= m /\ n < (b + 1) * (b + 1)
      BY <1>1 DEF IsRoot
<1> HIDE DEF a, b
<1>3. a * a \in Nat /\ (b + 1) * (b + 1) \in Nat
      BY <1>2
<1>4. a * a < (b + 1) * (b + 1)
      BY <1>2, <1>3
<1>5. a < b + 1
      BY <1>2, <1>4, SquaresDecide
<1>6. QED
      BY <1>2, <1>5 DEF a, b

-----------------------------------------------------------------------------
(* The book of a pair.                                                      *)

PairTyped == reserveUsdc \in Nat \ {0} /\ reserveXlm \in Nat \ {0}

(* The lowest price of the book is a unit at least.                         *)
Priced == Down(LEVELS) > 0

Curve == reserveUsdc * reserveXlm * SCALE

LEMMA CurveIsNat ==
    ASSUME PairTyped, BookAssumption
    PROVE  Curve \in Nat /\ Mid \in Nat
<1>1. SCALE \in Nat \ {0} /\ reserveUsdc \in Nat \ {0} /\ reserveXlm \in Nat \ {0}
      BY DEF PairTyped, BookAssumption
<1>2. reserveUsdc * reserveXlm \in Nat /\ reserveUsdc * SCALE \in Nat
      BY <1>1
<1>3. QED
      BY <1>1, <1>2, Divides DEF Curve, Mid

LEMMA StepsOfLevels ==
    ASSUME BookAssumption, NEW i \in 0..LEVELS, NEW j \in 0..LEVELS, i <= j
    PROVE  /\ STEP_BPS * i \in Nat /\ STEP_BPS * j \in Nat
           /\ STEP_BPS * i <= STEP_BPS * j /\ STEP_BPS * j < 10000
<1>1. STEP_BPS \in Nat /\ LEVELS \in Nat /\ LEVELS * STEP_BPS < 10000
      BY DEF BookAssumption
<1>2. i \in Nat /\ j \in Nat /\ j <= LEVELS
      BY <1>1
<1>3. STEP_BPS * i \in Nat /\ STEP_BPS * j \in Nat /\ STEP_BPS * LEVELS = LEVELS * STEP_BPS
      BY <1>1, <1>2
<1>4. STEP_BPS * i <= STEP_BPS * j /\ STEP_BPS * j <= STEP_BPS * LEVELS
      BY <1>1, <1>2, TimesMonotonic
<1>5. STEP_BPS * LEVELS \in Nat
      BY <1>1
<1>6. QED
      BY <1>1, <1>3, <1>4, <1>5

LEMMA LevelsAscend ==
    ASSUME PairTyped, BookAssumption, NEW i \in 0..LEVELS, NEW j \in 0..LEVELS, i <= j
    PROVE  /\ Up(i) \in Nat /\ Up(j) \in Nat /\ Up(i) <= Up(j)
           /\ Down(i) \in Nat /\ Down(j) \in Nat /\ Down(j) <= Down(i)
<1> DEFINE a == STEP_BPS * i
           b == STEP_BPS * j
<1>1. a \in Nat /\ b \in Nat /\ a <= b /\ b < 10000
      BY StepsOfLevels
<1>2. /\ Up(i) = (Mid * (10000 + a)) \div 10000 /\ Up(j) = (Mid * (10000 + b)) \div 10000
      /\ Down(i) = (Mid * (10000 - a)) \div 10000 /\ Down(j) = (Mid * (10000 - b)) \div 10000
      BY DEF Up, Down
<1> HIDE DEF a, b
<1>3. Mid \in Nat
      BY CurveIsNat
<1>4. /\ 10000 + a \in Nat /\ 10000 + b \in Nat /\ 10000 + a <= 10000 + b
      /\ 10000 - a \in Nat /\ 10000 - b \in Nat /\ 10000 - b <= 10000 - a
      BY <1>1
<1>5. /\ Mid * (10000 + a) <= Mid * (10000 + b) /\ Mid * (10000 - b) <= Mid * (10000 - a)
      BY <1>3, <1>4, TimesMonotonic
<1>6. /\ Mid * (10000 + a) \in Nat /\ Mid * (10000 + b) \in Nat
      /\ Mid * (10000 - a) \in Nat /\ Mid * (10000 - b) \in Nat
      BY <1>3, <1>4
<1>7. QED
      BY <1>2, <1>5, <1>6, Divides, DivMonotonic

LEMMA MidIsLevelZero ==
    ASSUME PairTyped, BookAssumption
    PROVE  0 \in 0..LEVELS /\ Up(0) = Mid /\ Down(0) = Mid
<1>1. LEVELS \in Nat /\ STEP_BPS \in Nat
      BY DEF BookAssumption
<1>2. STEP_BPS * 0 = 0
      BY <1>1
<1>3. Up(0) = (Mid * 10000) \div 10000 /\ Down(0) = (Mid * 10000) \div 10000
      BY <1>2 DEF Up, Down
<1>4. Mid \in Nat
      BY CurveIsNat
<1>5. QED
      BY <1>1, <1>3, <1>4

(* Where prices are positive, less is held at a higher one.                 *)
LEMMA LessIsHeldAbove ==
    ASSUME PairTyped, BookAssumption, NEW p \in Nat \ {0}, NEW q \in Nat \ {0}, p <= q
    PROVE  xAt(p) \in Nat /\ xAt(q) \in Nat /\ xAt(q) <= xAt(p)
<1>1. Curve \in Nat
      BY CurveIsNat
<1> DEFINE k == Curve
<1> HIDE DEF k
<1>2. k \in Nat
      BY <1>1 DEF k
<1>5. k \div q <= k \div p
      BY <1>2
<1>6. k \div p \in Nat /\ k \div q \in Nat
      BY <1>2
<1>3. xAt(p) = Root(k \div p) /\ xAt(q) = Root(k \div q)
      BY DEF xAt, Curve, k
<1>4. QED
      BY <1>5, <1>6, <1>3, RootOfIsExact, RootsGrow

LEMMA HeldIsOnTheCurve ==
    ASSUME PairTyped, BookAssumption, NEW p \in Nat \ {0}
    PROVE  /\ xAt(p) * xAt(p) * p <= Curve
           /\ (xAt(p) + 1) * (xAt(p) + 1) * p > Curve
<1> DEFINE d == Curve \div p
           h == xAt(p)
<1>1. Curve \in Nat
      BY CurveIsNat
<1>2. d \in Nat /\ d * p <= Curve /\ Curve < (d + 1) * p
      BY <1>1, Divides
<1>3. h = Root(d)
      BY DEF xAt, Curve
<1> HIDE DEF d
<1>4. h \in Nat /\ h * h <= d /\ d < (h + 1) * (h + 1)
      BY <1>2, <1>3, RootOfIsExact DEF IsRoot
<1> HIDE DEF h
<1> DEFINE s == h * h
           t == (h + 1) * (h + 1)
<1>5. s \in Nat /\ t \in Nat /\ s <= d /\ d + 1 <= t
      BY <1>2, <1>4
<1> HIDE DEF s, t
<1>6. s * p <= d * p /\ (d + 1) * p <= t * p
      BY <1>2, <1>5, TimesMonotonic
<1>7. s * p \in Nat /\ d * p \in Nat /\ (d + 1) * p \in Nat /\ t * p \in Nat
      BY <1>2, <1>5
<1>8. s * p <= Curve /\ t * p > Curve
      BY <1>1, <1>2, <1>6, <1>7
<1>9. QED
      BY <1>8 DEF s, t, h

(* The fee takes from what is sold and adds to what is bought.              *)
LEMMA FeesWiden ==
    ASSUME BookAssumption, NEW p \in Nat, NEW q \in Nat, p <= q
    PROVE  /\ (p * FEE_NUM) \div FEE_DEN <= (q * FEE_NUM) \div FEE_DEN
           /\ (p * FEE_DEN) \div FEE_NUM <= (q * FEE_DEN) \div FEE_NUM
           /\ (p * FEE_NUM) \div FEE_DEN <= p /\ p <= (p * FEE_DEN) \div FEE_NUM
<1>1. FEE_NUM \in Nat \ {0} /\ FEE_DEN \in Nat \ {0} /\ FEE_NUM < FEE_DEN
      BY DEF BookAssumption
<1>2. /\ p * FEE_NUM <= q * FEE_NUM /\ p * FEE_DEN <= q * FEE_DEN
      /\ p * FEE_NUM <= p * FEE_DEN
      BY <1>1, TimesMonotonic
<1>3. /\ p * FEE_NUM \in Nat /\ q * FEE_NUM \in Nat /\ p * FEE_DEN \in Nat /\ q * FEE_DEN \in Nat
      BY <1>1
<1>4. /\ (p * FEE_NUM) \div FEE_DEN <= (q * FEE_NUM) \div FEE_DEN
      /\ (p * FEE_DEN) \div FEE_NUM <= (q * FEE_DEN) \div FEE_NUM
      BY <1>1, <1>2, <1>3, DivMonotonic
<1>5. (p * FEE_NUM) \div FEE_DEN <= (p * FEE_DEN) \div FEE_DEN
      BY <1>1, <1>2, <1>3, DivMonotonic
<1>6. (p * FEE_NUM) \div FEE_NUM <= (p * FEE_DEN) \div FEE_NUM
      BY <1>1, <1>2, <1>3, DivMonotonic
<1>7. (p * FEE_DEN) \div FEE_DEN = p /\ (p * FEE_NUM) \div FEE_NUM = p
  <2>1. \A d \in Nat \ {0} : p * d <= p * d /\ p * d < (p + 1) * d /\ p * d \in Nat
        OBVIOUS
  <2>2. \A d \in Nat \ {0} : (p * d) \div d = p
        BY <2>1, DivBetween
  <2>3. QED
        BY <1>1, <2>2
<1>8. QED
      BY <1>4, <1>5, <1>6, <1>7

RootsAreExact == LET n == reserveXlm IN \A first \in 1..n : IsRoot(isqrt(n, first), n)

LEMMA BookReads ==
    ASSUME PairTyped, Priced, BookAssumption
    PROVE  Readable
<1>1. LEVELS \in Nat /\ 0 \in 0..LEVELS /\ LEVELS \in 0..LEVELS
      BY DEF BookAssumption
<1>2. Mid \in Nat /\ Up(0) = Mid /\ Down(0) = Mid
      BY CurveIsNat, MidIsLevelZero
<1>3. Quote.bid <= Quote.mid /\ Quote.mid <= Quote.ask
      BY <1>2, FeesWiden DEF Quote
<1>4. ASSUME NEW i \in 0..LEVELS
      PROVE  /\ Up(i) \in Nat \ {0} /\ Down(i) \in Nat \ {0}
             /\ Mid <= Up(i) /\ Down(i) <= Mid
  <2>1. 0 <= i /\ i <= LEVELS
        BY <1>1
  <2>2. Mid <= Up(i) /\ Down(i) <= Mid /\ Up(i) \in Nat /\ Down(i) \in Nat
        BY <1>1, <1>2, <2>1, LevelsAscend
  <2>3. Down(LEVELS) <= Down(i) /\ Down(LEVELS) \in Nat
        BY <1>1, <2>1, LevelsAscend
  <2>4. Down(i) > 0
        BY <2>2, <2>3 DEF Priced
  <2>5. QED
        BY <1>2, <2>2, <2>4
<1>5. ASSUME NEW i \in 1..LEVELS
      PROVE  /\ Quote.ask <= Asks[i].price /\ Bids[i].price <= Quote.bid
             /\ Asks[i].amount >= 0 /\ Bids[i].amount >= 0
  <2>1. i \in 0..LEVELS /\ i - 1 \in 0..LEVELS /\ i - 1 <= i
        BY <1>1
  <2>2. /\ Up(i) \in Nat \ {0} /\ Down(i) \in Nat \ {0} /\ Mid <= Up(i) /\ Down(i) <= Mid
        /\ Up(i - 1) \in Nat \ {0} /\ Down(i - 1) \in Nat \ {0}
        BY <1>4, <2>1
  <2>3. Up(i - 1) <= Up(i) /\ Down(i) <= Down(i - 1)
        BY <2>1, LevelsAscend
  <2>4. Quote.ask <= Asks[i].price
    <3>1. (Mid * FEE_DEN) \div FEE_NUM <= (Up(i) * FEE_DEN) \div FEE_NUM
          BY <1>2, <2>2, FeesWiden
    <3>2. QED
          BY <3>1 DEF Quote, Asks
  <2>5. Bids[i].price <= Quote.bid
    <3>1. (Down(i) * FEE_NUM) \div FEE_DEN <= (Mid * FEE_NUM) \div FEE_DEN
          BY <1>2, <2>2, FeesWiden
    <3>2. QED
          BY <3>1 DEF Quote, Bids
  <2>6. Asks[i].amount >= 0
    <3>1. /\ xAt(Up(i - 1)) \in Nat /\ xAt(Up(i)) \in Nat
          /\ xAt(Up(i)) <= xAt(Up(i - 1))
          BY <2>2, <2>3, LessIsHeldAbove
    <3>2. Asks[i].amount = xAt(Up(i - 1)) - xAt(Up(i))
          BY DEF Asks
    <3>3. QED
          BY <3>1, <3>2
  <2>7. Bids[i].amount >= 0
    <3>1. /\ xAt(Down(i - 1)) \in Nat /\ xAt(Down(i)) \in Nat
          /\ xAt(Down(i - 1)) <= xAt(Down(i))
          BY <2>2, <2>3, LessIsHeldAbove
    <3>2. Bids[i].amount = xAt(Down(i)) - xAt(Down(i - 1))
          BY DEF Bids
    <3>3. QED
          BY <3>1, <3>2
  <2>8. QED
        BY <2>4, <2>5, <2>6, <2>7
<1>6. ASSUME NEW i \in 1..LEVELS, NEW j \in 1..LEVELS, i < j
      PROVE  Asks[i].price <= Asks[j].price /\ Bids[i].price >= Bids[j].price
  <2>1. i \in 0..LEVELS /\ j \in 0..LEVELS /\ i <= j
        BY <1>1, <1>6
  <2>2. /\ Up(i) \in Nat /\ Up(j) \in Nat /\ Up(i) <= Up(j)
        /\ Down(i) \in Nat /\ Down(j) \in Nat /\ Down(j) <= Down(i)
        BY <2>1, LevelsAscend
  <2>3. /\ (Up(i) * FEE_DEN) \div FEE_NUM <= (Up(j) * FEE_DEN) \div FEE_NUM
        /\ (Down(j) * FEE_NUM) \div FEE_DEN <= (Down(i) * FEE_NUM) \div FEE_DEN
        BY <2>2, FeesWiden
  <2>4. /\ Asks[i].price = (Up(i) * FEE_DEN) \div FEE_NUM
        /\ Asks[j].price = (Up(j) * FEE_DEN) \div FEE_NUM
        /\ Bids[i].price = (Down(i) * FEE_NUM) \div FEE_DEN
        /\ Bids[j].price = (Down(j) * FEE_NUM) \div FEE_DEN
        BY DEF Asks, Bids
  <2>5. \A x, y : x <= y => y >= x
        OBVIOUS
  <2>6. QED
        BY <2>3, <2>4, <2>5
<1>7. QED
      BY <1>3, <1>5, <1>6 DEF Readable

LEMMA BookFollowsCurve ==
    ASSUME PairTyped, Priced, BookAssumption
    PROVE  OnTheCurve /\ RootsAreExact
<1>1. LEVELS \in Nat /\ 0 \in 0..LEVELS
      BY DEF BookAssumption
<1>2. ASSUME NEW i \in 1..LEVELS PROVE Up(i) \in Nat \ {0}
  <2>1. i \in 0..LEVELS /\ 0 <= i /\ i <= LEVELS /\ LEVELS \in 0..LEVELS
        BY <1>1
  <2>2. Up(0) <= Up(i) /\ Up(i) \in Nat /\ Up(0) \in Nat
        BY <1>1, <2>1, LevelsAscend
  <2>3. Down(LEVELS) <= Down(0) /\ Down(LEVELS) \in Nat /\ Down(0) \in Nat
        BY <1>1, <2>1, LevelsAscend
  <2>4. Up(0) = Down(0)
        BY MidIsLevelZero
  <2>5. QED
        BY <2>2, <2>3, <2>4 DEF Priced
<1>3. ASSUME NEW i \in 1..LEVELS
      PROVE  LET held == xAt(Up(i)) IN
             /\ held * held * Up(i) =< reserveUsdc * reserveXlm * SCALE
             /\ (held + 1) * (held + 1) * Up(i) > reserveUsdc * reserveXlm * SCALE
      BY <1>2, HeldIsOnTheCurve DEF Curve
<1>4. RootsAreExact
  <2>1. reserveXlm \in Nat
        BY DEF PairTyped
  <2>2. QED
        BY <2>1, RootIsExact DEF RootsAreExact
<1>5. QED
      BY <1>3, <1>4 DEF OnTheCurve

(* Whatever the fee, the levels and the swaps, the book is readable, fits   *)
(* the curve, and its roots are exact from every first guess (BookIsFair),  *)
(* while its lowest price is a unit at least.                               *)
THEOREM BookAlwaysFair == BookSpec /\ []Priced => BookIsFair
<1>1. BookInit => PairTyped
      BY BookAssumption DEF BookInit, PairTyped
<1>2. PairTyped /\ [BookNext]_bookVars => PairTyped'
  <2>1. BookNext => PairTyped'
        BY BookAssumption DEF BookNext, PairTyped
  <2>2. PairTyped /\ UNCHANGED bookVars => PairTyped'
        BY DEF PairTyped, bookVars
  <2>3. QED
        BY <2>1, <2>2
<1> DEFINE Fair == Readable /\ OnTheCurve /\ RootsAreExact
<1>3. PairTyped /\ Priced => Fair
      BY BookAssumption, BookReads, BookFollowsCurve
<1>4. Fair' => [BookNext => /\ Readable' /\ OnTheCurve'
                            /\ LET n == reserveXlm' IN
                               \A first \in 1..n : IsRoot(isqrt(n, first), n)]_bookVars
      BY DEF RootsAreExact
<1> HIDE DEF Fair
<1>5. QED
      BY <1>1, <1>2, <1>3, <1>4, PTL DEF BookSpec, BookIsFair

=============================================================================
