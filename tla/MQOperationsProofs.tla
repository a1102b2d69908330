------------------------- MODULE MQOperationsProofs -------------------------
(***************************************************************************)
(* What the operations of MQOperations preserve.  Each one takes a         *)
(* consistent manager to a consistent manager; the lemma for an operation  *)
(* says who is registered afterwards.  getNextMessage finds a client.  The *)
(* last section is about which games the queues hold, and in which order.  *)
(***************************************************************************)
EXTENDS MQOperations, DataTheorems, SequenceTheorems, TLAPS

-----------------------------------------------------------------------------
(* Sequences that enumerate a set *)

\* Enumerates in terms of positions: every member has one, and only one.
LEMMA EnumeratesMeans ==
    ASSUME NEW F, NEW s \in Seq(F)
    PROVE  Enumerates(s, F) <=> /\ \A x \in F : \E k \in 1 .. Len(s) : s[k] = x
                                /\ \A j, k \in 1 .. Len(s) : s[j] = s[k] => j = k
<1>1. DOMAIN s = 1 .. Len(s) /\ \A k \in 1 .. Len(s) : s[k] \in F
  OBVIOUS
<1>2. IsInjective(s) <=> \A j, k \in 1 .. Len(s) : s[j] = s[k] => j = k
  BY <1>1 DEF IsInjective
<1>3. ToSet(s) = F <=> \A x \in F : \E k \in 1 .. Len(s) : s[k] = x
  BY <1>1 DEF ToSet
<1> QED BY <1>2, <1>3 DEF Enumerates

\* The schedule of a manager without clients.
LEMMA EmptyEnumerates == Enumerates(<<>>, {})
<1>1. ToSet(<<>>) = {}
  BY DEF ToSet
<1>2. IsInjective(<<>>)
  BY DEF IsInjective
<1> QED BY <1>1, <1>2 DEF Enumerates

\* Rotate by i: what was at i+1 comes first, the first i come last
\* (the loop of MQManager::getNextMessage).
LEMMA RotateProperties ==
    ASSUME NEW F, NEW s \in Seq(F), NEW i \in 0 .. Len(s)
    PROVE  /\ Rotate(s, i) \in Seq(F)
           /\ Len(Rotate(s, i)) = Len(s)
           /\ \A k \in 1 .. Len(s) :
                Rotate(s, i)[k] = IF k <= Len(s) - i THEN s[k + i] ELSE s[k - (Len(s) - i)]
<1> DEFINE n == Len(s)  a == SubSeq(s, i + 1, n)  b == SubSeq(s, 1, i)
<1>0. n \in Nat /\ i \in Nat /\ i <= n /\ \A k \in 1 .. n : s[k] \in F
  OBVIOUS
<1>1. /\ a \in Seq(F)
      /\ Len(a) = n - i
      /\ \A k \in 1 .. n - i : a[k] = s[k + i]
  <2>1. \A k \in i + 1 .. n : s[k] \in F
    BY <1>0
  <2>2. /\ a \in Seq(F)
        /\ Len(a) = IF i + 1 <= n THEN n - (i + 1) + 1 ELSE 0
        /\ \A k \in 1 .. n - (i + 1) + 1 : a[k] = s[(i + 1) + k - 1]
    BY <1>0, <2>1, SubSeqProperties
  <2> HIDE DEF n, a
  <2> QED  BY <1>0, <2>2
<1>2. /\ b \in Seq(F)
      /\ Len(b) = i
      /\ \A k \in 1 .. i : b[k] = s[k]
  <2>1. \A k \in 1 .. i : s[k] \in F
    BY <1>0
  <2>2. /\ b \in Seq(F)
        /\ Len(b) = IF 1 <= i THEN i - 1 + 1 ELSE 0
        /\ \A k \in 1 .. i - 1 + 1 : b[k] = s[1 + k - 1]
    BY <1>0, <2>1, SubSeqProperties
  <2> HIDE DEF n, b
  <2> QED  BY <1>0, <2>2
<1> HIDE DEF n, a, b
<1>3. /\ a \o b \in Seq(F)
      /\ Len(a \o b) = n
      /\ \A k \in 1 .. n : (a \o b)[k] = IF k <= n - i THEN a[k] ELSE b[k - (n - i)]
  <2>1. /\ a \o b \in Seq(F)
        /\ Len(a \o b) = Len(a) + Len(b)
        /\ \A k \in 1 .. Len(a) + Len(b) :
             (a \o b)[k] = IF k <= Len(a) THEN a[k] ELSE b[k - Len(a)]
    BY <1>1, <1>2, ConcatProperties
  <2> QED BY <2>1, <1>0, <1>1, <1>2
<1>4. \A k \in 1 .. n : (a \o b)[k] = IF k <= n - i THEN s[k + i] ELSE s[k - (n - i)]
  BY <1>0, <1>1, <1>2, <1>3
<1>5. Rotate(s, i) = a \o b
  BY DEF Rotate, a, b, n
<1> QED  BY <1>3, <1>4, <1>5 DEF n

\* Rotating keeps everybody in the schedule, once.
LEMMA RotateEnumerates ==
    ASSUME NEW F, NEW s \in Seq(F), NEW i \in 0 .. Len(s), Enumerates(s, F)
    PROVE  Rotate(s, i) \in Seq(F) /\ Enumerates(Rotate(s, i), F)
<1> DEFINE r == Rotate(s, i)  n == Len(s)
<1>1. /\ r \in Seq(F)
      /\ Len(r) = n
      /\ \A k \in 1 .. n : r[k] = IF k <= n - i THEN s[k + i] ELSE s[k - (n - i)]
  BY RotateProperties
<1>2. /\ \A x \in F : \E k \in 1 .. n : s[k] = x
      /\ \A j, k \in 1 .. n : s[j] = s[k] => j = k
  BY EnumeratesMeans
<1>3. n \in Nat /\ i \in 0 .. n
  OBVIOUS
<1> HIDE DEF r, n
<1>4. ASSUME NEW x \in F PROVE \E k \in 1 .. n : r[k] = x
  <2>1. PICK k \in 1 .. n : s[k] = x
    BY <1>2
  <2>2. CASE k <= i
    <3>1. k + (n - i) \in 1 .. n /\ ~(k + (n - i) <= n - i) /\ k + (n - i) - (n - i) = k
      BY <2>2, <1>3
    <3> QED  BY <1>1, <2>1, <3>1
  <2>3. CASE k > i
    <3>1. k - i \in 1 .. n /\ k - i <= n - i /\ (k - i) + i = k
      BY <2>3, <1>3
    <3> QED  BY <1>1, <2>1, <3>1
  <2> QED  BY <2>2, <2>3, <1>3
<1>5. ASSUME NEW j \in 1 .. n, NEW k \in 1 .. n, r[j] = r[k] PROVE j = k
  <2> DEFINE at(x) == IF x <= n - i THEN x + i ELSE x - (n - i)
  <2>1. r[j] = s[at(j)] /\ r[k] = s[at(k)] /\ at(j) \in 1 .. n /\ at(k) \in 1 .. n
    BY <1>1, <1>3
  <2>2. at(j) = at(k)
    BY <1>2, <1>5, <2>1
  <2> QED  BY <2>2, <1>3
<1>6. Enumerates(r, F)
  BY <1>1, <1>4, <1>5, EnumeratesMeans
<1> QED  BY <1>1, <1>6 DEF r

\* r is the sequence s over F without its element at position p.
ClosesGap(F, r, s, p) ==
    /\ r \in Seq(F)
    /\ Len(r) = Len(s) - 1
    /\ \A k \in 1 .. Len(s) - 1 : r[k] = IF k < p THEN s[k] ELSE s[k + 1]

\* Removing a member closes the gap at its position (MQManager::dropQueue).
LEMMA RemoveFirstProperties ==
    ASSUME NEW F, NEW s \in Seq(F), NEW f \in F, Enumerates(s, F)
    PROVE  \E p \in 1 .. Len(s) : s[p] = f /\ ClosesGap(F, RemoveFirst(s, f), s, p)
<1> DEFINE n == Len(s)  I == {k \in 1 .. n : s[k] = f}  p == Min(I)
           a == SubSeq(s, 1, p - 1)  b == SubSeq(s, p + 1, n)
<1>0. n \in Nat /\ \A k \in 1 .. n : s[k] \in F
  OBVIOUS
<1>1. \E k \in 1 .. n : s[k] = f
  BY EnumeratesMeans
<1>2. p \in 1 .. n /\ s[p] = f
  <2>1. I \in SUBSET Nat /\ I # {}
    BY <1>0, <1>1
  <2> HIDE DEF I
  <2>2. p \in I
    BY <2>1, LeastOfNaturals
  <2> QED  BY <2>2 DEF I
<1>3. RemoveFirst(s, f) = a \o b
  BY <1>1, <1>2 DEF RemoveFirst, RemoveAt, SelectInSeq
<1> HIDE DEF p
<1>4. /\ a \in Seq(F)
      /\ Len(a) = p - 1
      /\ \A k \in 1 .. p - 1 : a[k] = s[k]
  <2>1. \A k \in 1 .. p - 1 : s[k] \in F
    BY <1>0, <1>2
  <2>2. /\ a \in Seq(F)
        /\ Len(a) = IF 1 <= p - 1 THEN (p - 1) - 1 + 1 ELSE 0
        /\ \A k \in 1 .. (p - 1) - 1 + 1 : a[k] = s[1 + k - 1]
    BY <1>0, <1>2, <2>1, SubSeqProperties
  <2> HIDE DEF n, a
  <2> QED  BY <1>0, <1>2, <2>2
<1>5. /\ b \in Seq(F)
      /\ Len(b) = n - p
      /\ \A k \in 1 .. n - p : b[k] = s[k + p]
  <2>1. \A k \in p + 1 .. n : s[k] \in F
    BY <1>0, <1>2
  <2>2. /\ b \in Seq(F)
        /\ Len(b) = IF p + 1 <= n THEN n - (p + 1) + 1 ELSE 0
        /\ \A k \in 1 .. n - (p + 1) + 1 : b[k] = s[(p + 1) + k - 1]
    BY <1>0, <1>2, <2>1, SubSeqProperties
  <2> HIDE DEF n, b
  <2>3. (IF p + 1 <= n THEN n - (p + 1) + 1 ELSE 0) = n - p /\ n - (p + 1) + 1 = n - p
    BY <1>0, <1>2
  <2>4. \A k \in 1 .. n - p : (p + 1) + k - 1 = k + p
    BY <1>0, <1>2
  <2> QED  BY <2>2, <2>3, <2>4
<1> HIDE DEF n, a, b
<1>6. /\ a \o b \in Seq(F)
      /\ Len(a \o b) = n - 1
      /\ \A k \in 1 .. n - 1 : (a \o b)[k] = IF k < p THEN s[k] ELSE s[k + 1]
  <2>1. /\ a \o b \in Seq(F)
        /\ Len(a \o b) = Len(a) + Len(b)
        /\ \A k \in 1 .. Len(a) + Len(b) :
             (a \o b)[k] = IF k <= Len(a) THEN a[k] ELSE b[k - Len(a)]
    BY <1>4, <1>5, ConcatProperties
  <2>2. Len(a) + Len(b) = n - 1
    BY <1>0, <1>2, <1>4, <1>5
  <2>3. ASSUME NEW k \in 1 .. n - 1 PROVE (a \o b)[k] = IF k < p THEN s[k] ELSE s[k + 1]
    <3>1. CASE k < p
      BY <3>1, <2>1, <2>2, <1>0, <1>2, <1>4
    <3>2. CASE ~(k < p)
      <4>1. k - (p - 1) \in 1 .. n - p /\ k - (p - 1) + p = k + 1
        BY <3>2, <1>0, <1>2
      <4>2. (a \o b)[k] = b[k - (p - 1)]
        BY <3>2, <2>1, <2>2, <1>0, <1>2, <1>4
      <4> QED  BY <3>2, <4>1, <4>2, <1>5
    <3> QED  BY <3>1, <3>2
  <2> QED  BY <2>1, <2>2, <2>3
<1>7. ClosesGap(F, RemoveFirst(s, f), s, p)
  BY <1>3, <1>6 DEF n, ClosesGap
<1> QED  BY <1>2, <1>7 DEF n

\* What is left enumerates the other members.
LEMMA RemoveFirstEnumerates ==
    ASSUME NEW F, NEW s \in Seq(F), NEW f \in F, Enumerates(s, F)
    PROVE  /\ RemoveFirst(s, f) \in Seq(F \ {f})
           /\ Enumerates(RemoveFirst(s, f), F \ {f})
<1>0. PICK p \in 1 .. Len(s) : s[p] = f /\ ClosesGap(F, RemoveFirst(s, f), s, p)
  BY RemoveFirstProperties
<1> DEFINE r == RemoveFirst(s, f)  n == Len(s)
<1>1. /\ s[p] = f
      /\ r \in Seq(F)
      /\ Len(r) = n - 1
      /\ \A k \in 1 .. n - 1 : r[k] = IF k < p THEN s[k] ELSE s[k + 1]
  BY <1>0 DEF ClosesGap
<1>2. /\ \A x \in F : \E k \in 1 .. n : s[k] = x
      /\ \A j, k \in 1 .. n : s[j] = s[k] => j = k
  BY EnumeratesMeans
<1>3. n \in Nat /\ p \in 1 .. n /\ \A k \in 1 .. n : s[k] \in F
  BY <1>0
<1> HIDE DEF r, n
<1>4. ASSUME NEW k \in 1 .. n - 1 PROVE r[k] \in F \ {f}
  <2>1. CASE k < p
    <3>1. k \in 1 .. n /\ k # p
      BY <2>1, <1>3
    <3> QED  BY <2>1, <3>1, <1>1, <1>2, <1>3
  <2>2. CASE ~(k < p)
    <3>1. k + 1 \in 1 .. n /\ k + 1 # p
      BY <2>2, <1>3
    <3> QED  BY <2>2, <3>1, <1>1, <1>2, <1>3
  <2> QED  BY <2>1, <2>2
<1>5. r \in Seq(F \ {f})
  <2>1. DOMAIN r = 1 .. n - 1 /\ r = [k \in 1 .. n - 1 |-> r[k]] /\ n - 1 \in Nat
    BY <1>1, <1>3
  <2> QED  BY <1>4, <2>1, IsASeq
<1>6. ASSUME NEW x \in F \ {f} PROVE \E k \in 1 .. n - 1 : r[k] = x
  <2>1. PICK k \in 1 .. n : s[k] = x
    BY <1>2
  <2>2. CASE k < p
    <3>1. k \in 1 .. n - 1
      BY <2>2, <1>3
    <3> QED  BY <1>1, <2>1, <2>2, <3>1
  <2>3. CASE k > p
    <3>1. k - 1 \in 1 .. n - 1 /\ ~(k - 1 < p) /\ (k - 1) + 1 = k
      BY <2>3, <1>3
    <3> QED  BY <1>1, <2>1, <3>1
  <2> QED  BY <1>1, <2>1, <2>2, <2>3, <1>3
<1>7. ASSUME NEW j \in 1 .. n - 1, NEW k \in 1 .. n - 1, r[j] = r[k] PROVE j = k
  <2> DEFINE at(x) == IF x < p THEN x ELSE x + 1
  <2>1. r[j] = s[at(j)] /\ r[k] = s[at(k)] /\ at(j) \in 1 .. n /\ at(k) \in 1 .. n
    BY <1>1, <1>3
  <2>2. at(j) = at(k)
    BY <1>2, <1>7, <2>1
  <2> QED  BY <2>2, <1>3
<1>8. Enumerates(r, F \ {f})
  BY <1>1, <1>5, <1>6, <1>7, EnumeratesMeans
<1> QED  BY <1>5, <1>8 DEF r

\* A newcomer goes to the end (MQManager::addQueue).
LEMMA AppendEnumerates ==
    ASSUME NEW F, NEW s \in Seq(F), NEW f, f \notin F, Enumerates(s, F)
    PROVE  /\ Append(s, f) \in Seq(F \cup {f})
           /\ Enumerates(Append(s, f), F \cup {f})
<1> DEFINE r == Append(s, f)  n == Len(s)
<1>1. /\ r \in Seq(F \cup {f})
      /\ Len(r) = n + 1
      /\ \A k \in 1 .. n : r[k] = s[k]
      /\ r[n + 1] = f
  <2>1. s \in Seq(F \cup {f})
    OBVIOUS
  <2> QED  BY <2>1, AppendProperties
<1>2. /\ \A x \in F : \E k \in 1 .. n : s[k] = x
      /\ \A j, k \in 1 .. n : s[j] = s[k] => j = k
  BY EnumeratesMeans
<1>3. n \in Nat /\ \A k \in 1 .. n : s[k] \in F
  OBVIOUS
<1> HIDE DEF r, n
<1>4. \A x \in F \cup {f} : \E k \in 1 .. n + 1 : r[k] = x
  BY <1>1, <1>2, <1>3
<1>5. \A j, k \in 1 .. n + 1 : r[j] = r[k] => j = k
  BY <1>1, <1>2, <1>3
<1>6. Enumerates(r, F \cup {f})
  BY <1>1, <1>4, <1>5, EnumeratesMeans
<1> QED  BY <1>1, <1>6 DEF r

-----------------------------------------------------------------------------
(* The operations *)

\* A manager as constructed has nobody registered.
LEMMA NewManagerConsistent ==
    ASSUME NEW GameIds, NEW Data, NEW id \in GameIds
    PROVE  /\ NewMQManager(id) \in ManagerOf({}, GameIds, Data)
           /\ Consistent(NewMQManager(id))
<1>1. EmptyMap \in [{} -> Nat] /\ DOMAIN EmptyMap = {}
  BY DEF EmptyMap
<1> QED  BY <1>1, EmptyEnumerates DEF NewMQManager, ManagerOf, Consistent, QueuesInRange

\* MQManager::schedule registers nobody and moves no queue.
LEMMA ScheduleConsistent ==
    ASSUME NEW F, NEW GameIds, NEW Data, NEW mq \in ManagerOf(F, GameIds, Data),
           NEW id \in GameIds, NEW event \in Data, Consistent(mq)
    PROVE  /\ Schedule(mq, id, event) \in ManagerOf(F, GameIds, Data)
           /\ Consistent(Schedule(mq, id, event))
<1> DEFINE waiting == SelectInSeq(mq.nextGames, LAMBDA g : g.id = id)
           I == {i \in 1 .. Len(mq.nextGames) : mq.nextGames[i].id = id}
           Game == WaitingGame(GameIds, Data)
           games == mq.nextGames
           m == Schedule(mq, id, event)
<1>1. /\ games \in Seq(Game)
      /\ mq.currentGameEvents \in Seq(NumberedEvent(Data))
      /\ mq.queues \in [F -> Nat]
  BY DEF ManagerOf
<1>2. CASE id = mq.currentlyBroadcastedGameId
  <2> DEFINE events == Append(mq.currentGameEvents,
                              [no |-> Len(mq.currentGameEvents), data |-> event])
  <2>1. m = [mq EXCEPT !.currentGameEvents = events]
    BY <1>2 DEF Schedule
  <2>2. [no |-> Len(mq.currentGameEvents), data |-> event] \in NumberedEvent(Data)
    BY <1>1 DEF NumberedEvent
  <2>3. events \in Seq(NumberedEvent(Data)) /\ Len(events) = Len(mq.currentGameEvents) + 1
    BY <1>1, <2>2
  <2> HIDE DEF events, m
  <2>4. m \in ManagerOf(F, GameIds, Data)
    BY <2>1, <2>3 DEF ManagerOf
  <2>5. /\ m.queues = mq.queues
        /\ m.currentGameEvents = events
        /\ m.clientsToServeSchedule = mq.clientsToServeSchedule
    BY <2>1 DEF ManagerOf
  <2>6. \A f \in F : mq.queues[f] <= Len(mq.currentGameEvents) + 1
    BY <1>1 DEF Consistent, QueuesInRange
  <2> QED  BY <1>1, <2>3, <2>4, <2>5, <2>6 DEF Consistent, QueuesInRange, m
<1>3. ASSUME NEW later \in Seq(Game), m = [mq EXCEPT !.nextGames = later]
      PROVE  m \in ManagerOf(F, GameIds, Data) /\ Consistent(m)
  <2> HIDE DEF m
  <2> QED  BY <1>3 DEF ManagerOf, Consistent, QueuesInRange
<1>4. CASE id # mq.currentlyBroadcastedGameId /\ waiting # 0
  <2>1. waiting \in 1 .. Len(games)
    <3>1. I \in SUBSET Nat
      OBVIOUS
    <3>2. I # {} /\ waiting = Min(I)
      BY <1>4 DEF SelectInSeq
    <3> HIDE DEF I, waiting
    <3>3. waiting \in I
      BY <3>1, <3>2, LeastOfNaturals
    <3> QED  BY <3>3 DEF I
  <2> DEFINE later == [games EXCEPT ![waiting] = [games[waiting] EXCEPT !.events = Append(@, event)]]
  <2>2. m = [mq EXCEPT !.nextGames = later]
    BY <1>4 DEF Schedule
  <2> HIDE DEF waiting
  <2>3. games[waiting] \in Game
    <3> HIDE DEF games, Game
    <3> QED  BY <1>1, <2>1, ElementOfSeq
  <2>4. [games[waiting] EXCEPT !.events = Append(@, event)] \in Game
    <3> DEFINE g == games[waiting]
    <3> HIDE DEF g
    <3>1. g \in Game
      BY <2>3 DEF g
    <3>2. g.events \in Seq(Data)
      BY <3>1 DEF WaitingGame
    <3>3. Append(g.events, event) \in Seq(Data) \ {<<>>}
      BY <3>2
    <3>4. [g EXCEPT !.events = Append(g.events, event)] \in Game
      BY <3>1, <3>3 DEF WaitingGame
    <3> QED  BY <3>4 DEF g
  <2>5. later \in Seq(Game)
    BY <1>1, <2>1, <2>4, ExceptSeq
  <2> HIDE DEF later, m, games
  <2> QED  BY <1>3, <2>2, <2>5 DEF m
<1>5. CASE id # mq.currentlyBroadcastedGameId /\ waiting = 0
  <2> DEFINE later == Append(games, [id |-> id, events |-> <<event>>])
  <2>1. m = [mq EXCEPT !.nextGames = later]
    BY <1>5 DEF Schedule
  <2>2. [id |-> id, events |-> <<event>>] \in Game
    BY <<event>> # <<>> DEF WaitingGame
  <2>3. later \in Seq(Game)
    <3> HIDE DEF Game, games
    <3> QED  BY <1>1, <2>2
  <2> HIDE DEF later, m, games
  <2> QED  BY <1>3, <2>1, <2>3 DEF m
<1> QED  BY <1>2, <1>4, <1>5

\* MQManager::ack keeps the queue within the events there are.
LEMMA AckConsistent ==
    ASSUME NEW F, NEW GameIds, NEW Data, NEW mq \in ManagerOf(F, GameIds, Data),
           NEW f \in F, NEW n \in Nat, Consistent(mq)
    PROVE  /\ Ack(mq, f, n) \in ManagerOf(F, GameIds, Data)
           /\ Consistent(Ack(mq, f, n))
<1> DEFINE cursor == Least(Len(mq.currentGameEvents), n)
<1>1. mq.queues \in [F -> Nat] /\ Len(mq.currentGameEvents) \in Nat
  BY DEF ManagerOf
<1>2. cursor \in Nat /\ cursor <= Len(mq.currentGameEvents)
  BY <1>1 DEF Least
<1> HIDE DEF cursor
<1>3. CASE mq.nextGames = <<>>
  <2>1. Ack(mq, f, n) = [mq EXCEPT !.queues = [mq.queues EXCEPT ![f] = cursor]]
    BY <1>3 DEF Ack, cursor
  <2>2. [mq.queues EXCEPT ![f] = cursor] \in [F -> Nat]
    BY <1>1, <1>2
  <2>3. Ack(mq, f, n) \in ManagerOf(F, GameIds, Data)
    BY <2>1, <2>2 DEF ManagerOf
  <2>4. /\ Ack(mq, f, n).queues = [mq.queues EXCEPT ![f] = cursor]
        /\ Ack(mq, f, n).currentGameEvents = mq.currentGameEvents
        /\ Ack(mq, f, n).clientsToServeSchedule = mq.clientsToServeSchedule
    BY <2>1 DEF ManagerOf
  <2> QED BY <1>1, <1>2, <2>3, <2>4 DEF Consistent, QueuesInRange
<1>4. CASE mq.nextGames # <<>>
  BY <1>4 DEF Ack
<1> QED BY <1>3, <1>4

\* MQManager::dropQueue removes the client from both places.
LEMMA DropQueueConsistent ==
    ASSUME NEW F, NEW GameIds, NEW Data, NEW mq \in ManagerOf(F, GameIds, Data),
           NEW f, Consistent(mq)
    PROVE  /\ DropQueue(mq, f) \in ManagerOf(F \ {f}, GameIds, Data)
           /\ Consistent(DropQueue(mq, f))
<1>1. DOMAIN mq.queues = F /\ mq.clientsToServeSchedule \in Seq(F)
  BY DEF ManagerOf
<1>2. CASE f \in F
  <2>1. /\ RemoveFirst(mq.clientsToServeSchedule, f) \in Seq(F \ {f})
        /\ Enumerates(RemoveFirst(mq.clientsToServeSchedule, f), F \ {f})
    BY <1>1, <1>2, RemoveFirstEnumerates DEF Consistent
  <2> QED  BY <1>1, <2>1 DEF DropQueue, ManagerOf, Consistent, QueuesInRange, Without
<1>3. CASE f \notin F
  <2>1. Without(mq.queues, {f}) = mq.queues
    BY <1>1, <1>3 DEF Without, ManagerOf
  <2>2. RemoveFirst(mq.clientsToServeSchedule, f) = mq.clientsToServeSchedule
    BY <1>1, <1>3 DEF RemoveFirst
  <2>3. DropQueue(mq, f) = mq /\ F \ {f} = F
    BY <2>1, <2>2, <1>3 DEF DropQueue, ManagerOf
  <2> QED  BY <2>3
<1> QED  BY <1>2, <1>3

\* MQManager::addQueue of a client that is not registered yet.
LEMMA AddNewQueueConsistent ==
    ASSUME NEW F, NEW GameIds, NEW Data, NEW mq \in ManagerOf(F, GameIds, Data),
           NEW f, NEW n \in Nat, Consistent(mq), f \notin F
    PROVE  /\ AddQueue(mq, f, n) \in ManagerOf(F \cup {f}, GameIds, Data)
           /\ Consistent(AddQueue(mq, f, n))
<1>1. /\ DOMAIN mq.queues = F /\ mq.queues \in [F -> Nat]
      /\ mq.clientsToServeSchedule \in Seq(F) /\ Len(mq.currentGameEvents) \in Nat
  BY DEF ManagerOf
<1> DEFINE cursor == Least(Len(mq.currentGameEvents), n)
           q == [x \in F \cup {f} |-> IF x = f THEN cursor ELSE mq.queues[x]]
<1>2. cursor \in Nat /\ cursor <= Len(mq.currentGameEvents)
  BY <1>1 DEF Least
<1> HIDE DEF cursor
<1>3. q \in [F \cup {f} -> Nat] /\ \A x \in F \cup {f} : q[x] <= Len(mq.currentGameEvents)
  BY <1>1, <1>2 DEF Consistent, QueuesInRange
<1>4. /\ Append(mq.clientsToServeSchedule, f) \in Seq(F \cup {f})
      /\ Enumerates(Append(mq.clientsToServeSchedule, f), F \cup {f})
    BY <1>1, AppendEnumerates DEF Consistent
<1>5. AddQueue(mq, f, n) = [mq EXCEPT !.queues = q,
                    !.clientsToServeSchedule = Append(mq.clientsToServeSchedule, f)]
  BY <1>1 DEF AddQueue, With, cursor
<1> HIDE DEF q
<1>6. AddQueue(mq, f, n) \in ManagerOf(F \cup {f}, GameIds, Data)
  BY <1>3, <1>4, <1>5 DEF ManagerOf
  <1>7. /\ AddQueue(mq, f, n).queues = q
        /\ AddQueue(mq, f, n).currentGameEvents = mq.currentGameEvents
        /\ AddQueue(mq, f, n).clientsToServeSchedule = Append(mq.clientsToServeSchedule, f)
    BY <1>5 DEF ManagerOf
<1> QED  BY <1>3, <1>4, <1>6, <1>7 DEF Consistent, QueuesInRange, ManagerOf

\* MQManager::addQueue registers the client in both places, at most once.
LEMMA AddQueueConsistent ==
    ASSUME NEW F, NEW GameIds, NEW Data, NEW mq \in ManagerOf(F, GameIds, Data),
           NEW f, NEW n \in Nat, Consistent(mq)
    PROVE  /\ AddQueue(mq, f, n) \in ManagerOf(F \cup {f}, GameIds, Data)
           /\ Consistent(AddQueue(mq, f, n))
<1>1. DOMAIN mq.queues = F /\ mq.clientsToServeSchedule \in Seq(F)
  BY DEF ManagerOf
<1>2. CASE f \in F
  BY <1>1, <1>2, F \cup {f} = F DEF AddQueue
<1>3. CASE f \notin F
  BY <1>3, AddNewQueueConsistent
<1> QED  BY <1>2, <1>3

\* A change of game puts every queue to the first of the new events.
LEMMA AdvanceGameConsistent ==
    ASSUME NEW F, NEW GameIds, NEW Data, NEW mq \in ManagerOf(F, GameIds, Data), Consistent(mq)
    PROVE  /\ AdvanceGame(mq) \in ManagerOf(F, GameIds, Data)
           /\ Consistent(AdvanceGame(mq))
<1>1. CASE ~HasPendingMessages(mq) /\ mq.nextGames # <<>>
  <2> DEFINE Game == WaitingGame(GameIds, Data)
             e == Head(mq.nextGames).events
  <2>1. mq.nextGames \in Seq(Game)
    BY DEF ManagerOf
  <2> HIDE DEF Game
  <2>2. Head(mq.nextGames) \in Game /\ Tail(mq.nextGames) \in Seq(Game)
    BY <1>1, <2>1, HeadTailProperties
  <2>3. Numbered(e) \in Seq(NumberedEvent(Data))
    <3>1. e \in Seq(Data)
      BY <2>2 DEF Game, WaitingGame
    <3> HIDE DEF e
    <3>2. DOMAIN e = 1 .. Len(e) /\ Len(e) \in Nat /\ \A i \in 1 .. Len(e) : e[i] \in Data
      BY <3>1
    <3>3. \A i \in 1 .. Len(e) : [no |-> i - 1, data |-> e[i]] \in NumberedEvent(Data)
      BY <3>2 DEF NumberedEvent
    <3> QED  BY <3>2, <3>3, IsASeq DEF Numbered
  <2>4. Head(mq.nextGames).id \in GameIds
    BY <2>2 DEF Game, WaitingGame
  <2> QED  BY <1>1, <2>2, <2>3, <2>4 DEF AdvanceGame, ManagerOf, Consistent, QueuesInRange, Game
<1>2. CASE ~(~HasPendingMessages(mq) /\ mq.nextGames # <<>>)
  BY <1>2 DEF AdvanceGame
<1> QED  BY <1>1, <1>2

\* The loop of getNextMessage ends at the first client in the schedule that is
\* behind, whenever somebody is.
LEMMA TurnFound ==
    ASSUME NEW F, NEW GameIds, NEW Data, NEW mq \in ManagerOf(F, GameIds, Data), Consistent(mq),
           HasPendingMessages(mq)
    PROVE  /\ TurnOf(mq) \in 1 .. Len(mq.clientsToServeSchedule)
           /\ mq.clientsToServeSchedule[TurnOf(mq)] \in F
           /\ IsPending(mq, mq.clientsToServeSchedule[TurnOf(mq)])
           /\ \A i \in 1 .. TurnOf(mq) - 1 : ~IsPending(mq, mq.clientsToServeSchedule[i])
<1> DEFINE s == mq.clientsToServeSchedule
           I == {i \in 1 .. Len(s) : IsPending(mq, s[i])}
<1>1. s \in Seq(F) /\ DOMAIN mq.queues = F
  BY DEF ManagerOf
<1>2. I # {}
  <2>1. PICK f \in F : IsPending(mq, f)
    BY <1>1 DEF HasPendingMessages
  <2>2. Enumerates(s, F)
    BY <1>1 DEF Consistent
  <2>3. \E k \in 1 .. Len(s) : s[k] = f
    BY <1>1, <2>2, EnumeratesMeans
  <2> QED  BY <2>1, <2>3
<1>3. I \in SUBSET Nat
  OBVIOUS
<1>4. TurnOf(mq) = Min(I)
  BY <1>2 DEF TurnOf, SelectInSeq
<1> HIDE DEF I
<1>5. TurnOf(mq) \in I /\ \A j \in I : TurnOf(mq) <= j
  BY <1>2, <1>3, <1>4, LeastOfNaturals
<1> DEFINE t == TurnOf(mq)
<1> HIDE DEF t
<1>6. t \in 1 .. Len(s) /\ IsPending(mq, s[t])
  BY <1>5 DEF I, t
<1>7. s[t] \in F
  BY <1>1, <1>6
<1>8. ASSUME NEW i \in 1 .. t - 1 PROVE ~IsPending(mq, s[i])
  <2>1. i \in 1 .. Len(s) /\ ~(t <= i)
    BY <1>6
  <2> QED BY <2>1, <1>5 DEF I, t
<1> QED  BY <1>6, <1>7, <1>8 DEF t

\* Sending: getNextMessage, and then the server's own acknowledgement of the datagram, or
\* none when sendto failed.  Both leave the manager consistent.
LEMMA SendConsistent ==
    ASSUME NEW F, NEW GameIds, NEW Data, NEW mq \in ManagerOf(F, GameIds, Data), Consistent(mq),
           ~IsEmpty(mq), F # {}
    PROVE  /\ TurnOf(AdvanceGame(mq)) # 0
           /\ AfterGetNextMessage(mq) \in ManagerOf(F, GameIds, Data)
           /\ Consistent(AfterGetNextMessage(mq))
           /\ \A m \in NextMessages(mq) : /\ m.to \in F
                                          /\ m.gameId \in GameIds
                                          /\ m.events \in Seq(NumberedEvent(Data))
                                          /\ m.ack \in Nat
                                          /\ Ack(AfterGetNextMessage(mq), m.to, m.ack)
                                                \in ManagerOf(F, GameIds, Data)
                                          /\ Consistent(Ack(AfterGetNextMessage(mq), m.to, m.ack))
<1> DEFINE a == AdvanceGame(mq)  s == a.clientsToServeSchedule  t == TurnOf(a)
<1>1. a \in ManagerOf(F, GameIds, Data) /\ Consistent(a)
  BY AdvanceGameConsistent
<1>2. HasPendingMessages(a)
  <2>1. CASE HasPendingMessages(mq)
    BY <2>1 DEF AdvanceGame
  <2>2. CASE ~HasPendingMessages(mq)
    <3> DEFINE g == Head(mq.nextGames)
    <3>1. mq.nextGames # <<>>
      BY <2>2 DEF IsEmpty
    <3>2. g \in WaitingGame(GameIds, Data)
      BY <3>1, HeadTailProperties DEF ManagerOf
    <3>3. a.queues = [f \in F |-> 0] /\ a.currentGameEvents = Numbered(g.events)
      BY <2>2, <3>1 DEF AdvanceGame, ManagerOf
    <3> HIDE DEF g, a
    <3>4. g.events \in Seq(Data) /\ g.events # <<>>
      BY <3>2 DEF WaitingGame
    <3>5. Len(g.events) \in Nat /\ Len(g.events) # 0 /\ DOMAIN g.events = 1 .. Len(g.events)
      BY <3>4
    <3>6. Len(a.currentGameEvents) = Len(g.events)
      BY <3>3, <3>5 DEF Numbered
    <3> QED  BY <3>3, <3>5, <3>6 DEF HasPendingMessages, IsPending
  <2> QED  BY <2>1, <2>2
<1>3. t \in 1 .. Len(s) /\ s[t] \in F
  BY <1>1, <1>2, TurnFound
<1>4. s \in Seq(F) /\ Enumerates(s, F)
  BY <1>1 DEF ManagerOf, Consistent
<1>5. Rotate(s, t) \in Seq(F) /\ Enumerates(Rotate(s, t), F)
  BY <1>3, <1>4, RotateEnumerates
<1>6. AfterGetNextMessage(mq) = [a EXCEPT !.clientsToServeSchedule = Rotate(s, t)]
  BY DEF AfterGetNextMessage
<1>7. AfterGetNextMessage(mq) \in ManagerOf(F, GameIds, Data) /\ Consistent(AfterGetNextMessage(mq))
  <2> HIDE DEF a, t
  <2> QED  BY <1>1, <1>5, <1>6 DEF ManagerOf, Consistent, QueuesInRange
<1>8. ASSUME NEW m \in NextMessages(mq)
      PROVE  /\ m.to \in F
             /\ m.gameId \in GameIds
             /\ m.events \in Seq(NumberedEvent(Data))
             /\ m.ack \in Nat
  <2> DEFINE first == a.queues[s[t]]
  <2>1. PICK upTo \in (first + 1) .. Len(a.currentGameEvents) :
          m = [to |-> s[t], gameId |-> a.currentlyBroadcastedGameId,
               events |-> SubSeq(a.currentGameEvents, first + 1, upTo), ack |-> upTo]
    BY DEF NextMessages, Recipient
  <2> HIDE DEF a, t
  <2>2. /\ first \in Nat
        /\ a.currentGameEvents \in Seq(NumberedEvent(Data))
        /\ a.currentlyBroadcastedGameId \in GameIds
    BY <1>1, <1>3 DEF ManagerOf
  <2>3. upTo \in Nat /\ first + 1 \in Int /\ upTo \in Int
    BY <2>2
  <2>4. \A i \in first + 1 .. upTo : a.currentGameEvents[i] \in NumberedEvent(Data)
    BY <2>2, <2>3
  <2>5. SubSeq(a.currentGameEvents, first + 1, upTo) \in Seq(NumberedEvent(Data))
    BY <2>3, <2>4, SubSeqProperties
  <2> QED  BY <1>3, <2>1, <2>2, <2>3, <2>5
<1>9. ASSUME NEW m \in NextMessages(mq)
      PROVE  /\ Ack(AfterGetNextMessage(mq), m.to, m.ack) \in ManagerOf(F, GameIds, Data)
             /\ Consistent(Ack(AfterGetNextMessage(mq), m.to, m.ack))
  BY <1>7, <1>8, AckConsistent
<1> QED
  <2> HIDE DEF a, s, t
  <2> QED  BY <1>3, <1>7, <1>8, <1>9 DEF a, s, t
-----------------------------------------------------------------------------
(* Which games the queues hold when events come in the order in which      *)
(* GameManager publishes them: events of the latest game, or the first     *)
(* event of the next one.  Games are numbered from one on; says[g][i] is   *)
(* what the i-th event of the game g says.                                 *)

\* The first n events of game g, as scheduled and as broadcast
GameOf(says, g, n) == [i \in 1 .. n |-> says[g][i]]
NumberedGame(says, g, n) == [i \in 1 .. n |-> [no |-> i - 1, data |-> says[g][i]]]

Counts == Seq(Nat \ {0})

CountOf(p, g) == IF g = 0 THEN 0 ELSE p[g]

\* The manager m holds the games of p from the a-th on, which is on air.
IsFeed(m, a, p, says, max) ==
    /\ a \in 0 .. Len(p)
    /\ m.currentGameEvents = NumberedGame(says, a, CountOf(p, a))
    /\ Len(m.nextGames) = Len(p) - a
    /\ \A k \in 1 .. Len(p) - a : m.nextGames[k] = [id |-> a + k, events |-> GameOf(says, a + k, p[a + k])]
    /\ a # 0 => m.currentlyBroadcastedGameId = a
    /\ a = 0 => m.currentlyBroadcastedGameId \notin (1 .. Len(p)) \cup (2 .. max)

\* The rest of a manager does not matter.
LEMMA SameFeed ==
  ASSUME NEW says, NEW max, NEW m, NEW n, NEW a, NEW p, IsFeed(m, a, p, says, max),
         n.currentGameEvents = m.currentGameEvents, n.nextGames = m.nextGames,
         n.currentlyBroadcastedGameId = m.currentlyBroadcastedGameId
  PROVE  IsFeed(n, a, p, says, max)
BY DEF IsFeed

LEMMA WaitingGameIs ==
  ASSUME NEW says, NEW max, NEW m, NEW a, NEW p, IsFeed(m, a, p, says, max), NEW k \in 1 .. Len(p) - a
  PROVE  m.nextGames[k].id = a + k /\ m.nextGames[k].events = GameOf(says, a + k, p[a + k])
<1>1. m.nextGames[k] = [id |-> a + k, events |-> GameOf(says, a + k, p[a + k])]
  BY DEF IsFeed
<1> QED BY ONLY <1>1

LEMMA NumberedGameIs ==
  ASSUME NEW says, NEW g, NEW n \in Nat
  PROVE  /\ Numbered(GameOf(says, g, n)) = NumberedGame(says, g, n)
         /\ Len(GameOf(says, g, n)) = n /\ Len(NumberedGame(says, g, n)) = n
BY DEF Numbered, GameOf, NumberedGame

\* The events from the (p+1)-th to the upTo-th, as getNextMessage cuts them
SliceOf(says, g, p, upTo) == [k \in 1 .. upTo - p |-> [no |-> p + k - 1, data |-> says[g][p + k]]]

LEMMA SliceIs ==
  ASSUME NEW says, NEW g, NEW n \in Nat, NEW p \in Nat, NEW upTo \in Nat, p < upTo, upTo <= n
  PROVE  SubSeq(NumberedGame(says, g, n), p + 1, upTo) = SliceOf(says, g, p, upTo)
<1> DEFINE e == NumberedGame(says, g, n)  sub == SubSeq(e, p + 1, upTo)
           Item == {e[k] : k \in 1 .. n}
<1>1. \A k \in p + 1 .. upTo : e[k] \in Item
  OBVIOUS
<1>2. \A k \in 1 .. upTo - p : e[p + k] = [no |-> p + k - 1, data |-> says[g][p + k]]
  BY DEF NumberedGame
<1> HIDE DEF e, Item
<1>3. /\ sub \in Seq(Item)
      /\ Len(sub) = IF p + 1 <= upTo THEN upTo - (p + 1) + 1 ELSE 0
      /\ \A k \in 1 .. upTo - (p + 1) + 1 : sub[k] = e[(p + 1) + k - 1]
  BY <1>1, SubSeqProperties
<1> HIDE DEF sub
<1>4. Len(sub) = upTo - p /\ \A k \in 1 .. upTo - p : sub[k] = e[p + k]
  <2>1. p + 1 <= upTo /\ upTo - (p + 1) + 1 = upTo - p
    OBVIOUS
  <2>2. \A k \in 1 .. upTo - p : (p + 1) + k - 1 = p + k
    OBVIOUS
  <2> QED BY <1>3, <2>1, <2>2
<1>5. sub = [k \in 1 .. Len(sub) |-> sub[k]]
  BY <1>3
<1>6. sub = [k \in 1 .. upTo - p |-> [no |-> p + k - 1, data |-> says[g][p + k]]]
  BY <1>2, <1>4, <1>5
<1> QED BY <1>6 DEF sub, e, SliceOf

\* One more event
LEMMA LongerGame ==
  ASSUME NEW says, NEW g, NEW n \in Nat
  PROVE  /\ Append(GameOf(says, g, n), says[g][n + 1]) = GameOf(says, g, n + 1)
         /\ Append(NumberedGame(says, g, n), [no |-> n, data |-> says[g][n + 1]]) = NumberedGame(says, g, n + 1)
<1> DEFINE Data == {says[g][i] : i \in Nat}
<1>1. GameOf(says, g, n) \in Seq(Data) /\ Len(GameOf(says, g, n)) = n
  <2>1. \A i \in 1 .. n : says[g][i] \in Data
    OBVIOUS
  <2> HIDE DEF Data
  <2> QED BY <2>1, IsASeq DEF GameOf
<1>2. NumberedGame(says, g, n) \in Seq(NumberedEvent(Data)) /\ Len(NumberedGame(says, g, n)) = n
  <2>1. \A i \in 1 .. n : [no |-> i - 1, data |-> says[g][i]] \in NumberedEvent(Data)
    BY DEF NumberedEvent
  <2> DEFINE s == NumberedGame(says, g, n)  S == NumberedEvent(Data)
  <2>2. s = [i \in 1 .. n |-> s[i]] /\ \A i \in 1 .. n : s[i] \in S
    BY <2>1 DEF NumberedGame
  <2> HIDE DEF s, S
  <2>3. s \in Seq(S) /\ Len(s) = n
    BY ONLY <2>2, n \in Nat
  <2> QED BY <2>3 DEF s, S
<1>3. Append(GameOf(says, g, n), says[g][n + 1]) = GameOf(says, g, n + 1)
  <2> DEFINE e == says[g][n + 1]  s == GameOf(says, g, n)
  <2>1. Append(s, e) = [i \in 1 .. n + 1 |-> IF i = n + 1 THEN e ELSE s[i]]
    BY <1>1
  <2>2. \A i \in 1 .. n + 1 : (IF i = n + 1 THEN e ELSE s[i]) = says[g][i]
    BY DEF GameOf
  <2> HIDE DEF e, s
  <2>3. Append(s, e) = [i \in 1 .. n + 1 |-> says[g][i]]
    BY <2>1, <2>2
  <2> QED BY <2>3 DEF GameOf, e, s
<1>4. Append(NumberedGame(says, g, n), [no |-> n, data |-> says[g][n + 1]]) = NumberedGame(says, g, n + 1)
  <2> DEFINE e == [no |-> n, data |-> says[g][n + 1]]  s == NumberedGame(says, g, n)
             item(i) == [no |-> i - 1, data |-> says[g][i]]
  <2>1. Append(s, e) = [i \in 1 .. n + 1 |-> IF i = n + 1 THEN e ELSE s[i]]
    BY <1>2
  <2>2. \A i \in 1 .. n + 1 : (IF i = n + 1 THEN e ELSE s[i]) = item(i)
    <3>1. \A i \in 1 .. n : s[i] = item(i)
      BY DEF NumberedGame
    <3>2. e = item(n + 1)
      OBVIOUS
    <3> HIDE DEF e, s, item
    <3> QED BY <3>1, <3>2
  <2>3. NumberedGame(says, g, n + 1) = [i \in 1 .. n + 1 |-> item(i)]
    BY DEF NumberedGame
  <2> HIDE DEF e, s, item
  <2> QED BY <2>1, <2>2, <2>3 DEF e, s
<1> QED BY <1>3, <1>4

-----------------------------------------------------------------------------
(* The operations *)

\* The first event of a new game opens a game that waits, or the one on air when its
\* identifier happens to be there already.
LEMMA ScheduleNewFeed ==
  ASSUME NEW Data, NEW says, NEW max \in Nat,
         NEW F, NEW m \in ManagerOf(F, Nat, Data), NEW p \in Counts, NEW a,
         IsFeed(m, a, p, says, max), Len(p) + 1 <= max,
         NEW g, g = Len(p) + 1, says[g][1] \in Data
  PROVE  \/ IsFeed(Schedule(m, g, says[g][1]), a, Append(p, 1), says, max)
         \/ a = 0 /\ IsFeed(Schedule(m, g, says[g][1]), 1, Append(p, 1), says, max)
<1> DEFINE n == Schedule(m, g, says[g][1])  q == Append(p, 1)  id == m.currentlyBroadcastedGameId
           waiting == SelectInSeq(m.nextGames, LAMBDA x : x.id = g)
<1>1. /\ Len(p) \in Nat /\ a \in 0 .. Len(p) /\ g \in Nat /\ g # 0
      /\ Len(q) = g /\ q[g] = 1 /\ \A k \in 1 .. Len(p) : q[k] = p[k]
  BY DEF Counts, IsFeed
<1>2. GameOf(says, g, 1) = <<says[g][1]>> /\ NumberedGame(says, g, 1) = <<[no |-> 0, data |-> says[g][1]]>>
  BY DEF GameOf, NumberedGame
<1>3. CASE id = g
  <2>1. a = 0 /\ p = <<>> /\ g = 1
    BY <1>1, <1>3 DEF IsFeed, Counts
  <2>2. m.currentGameEvents = <<>> /\ m.nextGames = <<>>
    BY <2>1 DEF IsFeed, NumberedGame, CountOf, ManagerOf
  <2>3. n = [m EXCEPT !.currentGameEvents = <<[no |-> 0, data |-> says[g][1]]>>]
    BY <1>3, <2>2 DEF Schedule
  <2>4. /\ n.currentGameEvents = NumberedGame(says, 1, 1) /\ n.nextGames = <<>>
        /\ n.currentlyBroadcastedGameId = 1
    BY <1>2, <1>3, <2>1, <2>2, <2>3 DEF ManagerOf
  <2> HIDE DEF n, q
  <2>5. IsFeed(n, 1, q, says, max)
    BY <1>1, <2>1, <2>4 DEF IsFeed, CountOf
  <2> QED BY <2>1, <2>5 DEF n, q
<1>4. CASE id # g
  <2>1. waiting = 0
    <3>1. ASSUME NEW k \in 1 .. Len(m.nextGames) PROVE m.nextGames[k].id # g
      <4>1. k \in 1 .. Len(p) - a
        BY DEF IsFeed
      <4>2. m.nextGames[k].id = a + k
        BY <4>1, WaitingGameIs
      <4> QED BY <1>1, <4>1, <4>2
    <3> QED BY <3>1 DEF SelectInSeq
  <2> DEFINE game == [id |-> g, events |-> <<says[g][1]>>]
             len == Len(m.nextGames)
  <2>2. n = [m EXCEPT !.nextGames = Append(m.nextGames, game)]
    BY <1>4, <2>1 DEF Schedule
  <2>3. len = Len(p) - a /\ len \in Nat
    BY <1>1 DEF IsFeed
  <2>4. m.nextGames \in Seq(WaitingGame(Nat, Data))
    BY DEF ManagerOf
  <2>5. game \in WaitingGame(Nat, Data)
    <3>1. <<says[g][1]>> \in Seq(Data) /\ <<says[g][1]>> # <<>>
      BY <1>1
    <3> QED BY <1>1, <3>1 DEF WaitingGame
  <2>6. /\ n.nextGames = Append(m.nextGames, game)
        /\ n.currentGameEvents = m.currentGameEvents
        /\ n.currentlyBroadcastedGameId = id
    BY <2>2 DEF ManagerOf
  <2> HIDE DEF game, len, n, q, waiting
  <2>7. /\ Len(n.nextGames) = len + 1
        /\ \A k \in 1 .. len : n.nextGames[k] = m.nextGames[k]
        /\ n.nextGames[len + 1] = game
    BY <2>4, <2>5, <2>6, AppendProperties DEF len
  <2>8. \A k \in 1 .. len + 1 : n.nextGames[k] = [id |-> a + k, events |-> GameOf(says, a + k, q[a + k])]
    <3>1. n.nextGames[len + 1] = [id |-> a + (len + 1), events |-> GameOf(says, a + (len + 1), q[a + (len + 1)])]
      <4>1. a + (len + 1) = g
        BY <1>1, <2>3
      <4> QED BY <1>1, <1>2, <2>7, <4>1 DEF game
    <3>2. ASSUME NEW k \in 1 .. len
          PROVE  n.nextGames[k] = [id |-> a + k, events |-> GameOf(says, a + k, q[a + k])]
      <4>1. k \in 1 .. Len(p) - a /\ a + k \in 1 .. Len(p)
        BY <1>1, <2>3
      <4> QED BY <1>1, <2>7, <4>1 DEF IsFeed
    <3> QED BY <2>3, <3>1, <3>2
  <2>9. a \in 0 .. Len(q) /\ Len(n.nextGames) = Len(q) - a /\ Len(q) - a = len + 1
    BY <1>1, <2>3, <2>7
  <2>10. n.currentGameEvents = NumberedGame(says, a, CountOf(q, a))
    <3>1. CountOf(q, a) = CountOf(p, a)
      BY <1>1 DEF CountOf
    <3> QED BY <2>6, <3>1 DEF IsFeed
  <2>11. /\ a # 0 => n.currentlyBroadcastedGameId = a
         /\ a = 0 => n.currentlyBroadcastedGameId \notin (1 .. Len(q)) \cup (2 .. max)
    BY <1>1, <1>4, <2>6 DEF IsFeed
  <2>12. IsFeed(n, a, q, says, max)
    BY <2>8, <2>9, <2>10, <2>11 DEF IsFeed
  <2> QED BY <2>12 DEF n, q
<1> QED BY <1>3, <1>4

\* A further event goes to the end of the latest game, wherever that is.
LEMMA ScheduleFeed ==
  ASSUME NEW Data, NEW says, NEW max,
         NEW F, NEW m \in ManagerOf(F, Nat, Data), NEW p \in Counts, NEW a,
         IsFeed(m, a, p, says, max), Len(p) # 0, NEW g, g = Len(p)
  PROVE  IsFeed(Schedule(m, g, says[g][p[g] + 1]), a, [p EXCEPT ![g] = @ + 1], says, max)
<1> DEFINE e == says[g][p[g] + 1]
           n == Schedule(m, g, e)  q == [p EXCEPT ![g] = @ + 1]  id == m.currentlyBroadcastedGameId
           I == {k \in 1 .. Len(m.nextGames) : m.nextGames[k].id = g}
           waiting == SelectInSeq(m.nextGames, LAMBDA x : x.id = g)
<1>1. /\ g \in Nat /\ g # 0 /\ a \in 0 .. g /\ p[g] \in Nat
      /\ Len(q) = g /\ q[g] = p[g] + 1 /\ \A k \in 1 .. g - 1 : q[k] = p[k]
  BY DEF Counts, IsFeed
<1>2. CASE id = g
  <2>1. a = g
    BY <1>1, <1>2 DEF IsFeed
  <2>2. m.currentGameEvents = NumberedGame(says, g, p[g]) /\ Len(m.currentGameEvents) = p[g]
    BY <1>1, <2>1, NumberedGameIs DEF IsFeed, CountOf
  <2>3. n = [m EXCEPT !.currentGameEvents = Append(@, [no |-> p[g], data |-> e])]
    BY <1>2, <2>2 DEF Schedule
  <2>4. /\ n.currentGameEvents = NumberedGame(says, g, p[g] + 1)
        /\ n.nextGames = m.nextGames /\ n.currentlyBroadcastedGameId = g
    <3>1. Append(m.currentGameEvents, [no |-> p[g], data |-> e]) = NumberedGame(says, g, p[g] + 1)
      <4>1. p[g] \in Nat
        BY <1>1
      <4>2. Append(NumberedGame(says, g, p[g]), [no |-> p[g], data |-> e])
              = NumberedGame(says, g, p[g] + 1)
        BY ONLY <4>1, LongerGame
      <4> HIDE DEF e
      <4> QED BY ONLY <2>2, <4>2
    <3> HIDE DEF e, n
    <3> QED BY <1>2, <2>3, <3>1 DEF ManagerOf
  <2>5. Len(m.nextGames) = 0
    BY <1>1, <2>1 DEF IsFeed
  <2> HIDE DEF n, q, e
  <2>6. a \in 0 .. Len(q) /\ Len(q) - a = 0 /\ a # 0 /\ CountOf(q, a) = p[g] + 1
    BY <1>1, <2>1 DEF CountOf
  <2>7. IsFeed(n, a, q, says, max)
    BY <2>1, <2>4, <2>5, <2>6 DEF IsFeed
  <2> QED BY <2>7 DEF n, q, e
<1>3. CASE id # g
  <2>1. a < g
    BY <1>1, <1>3 DEF IsFeed
  <2>2. I = {g - a} /\ Len(m.nextGames) = g - a
    <3>1. Len(m.nextGames) = g - a
      BY DEF IsFeed
    <3>2. ASSUME NEW k \in 1 .. g - a PROVE m.nextGames[k].id = a + k
      BY WaitingGameIs
    <3>3. \A k \in 1 .. g - a : a + k = g <=> k = g - a
      BY <1>1
    <3>4. g - a \in 1 .. g - a
      BY <1>1, <2>1
    <3> QED BY <3>1, <3>2, <3>3, <3>4
  <2>3. waiting = g - a
    <3>1. I # {} /\ I \in SUBSET Nat
      BY <1>1, <2>1, <2>2
    <3>2. waiting = Min(I)
      BY <3>1 DEF SelectInSeq
    <3> HIDE DEF I, waiting
    <3>3. Min(I) \in I
      BY <3>1, LeastOfNaturals
    <3>4. Min(I) \in {g - a}
      BY <2>2, <3>3
    <3> QED BY <3>2, <3>4
  <2> DEFINE last == [id |-> g, events |-> GameOf(says, g, p[g] + 1)]
  <2>4. m.nextGames[g - a] = [id |-> g, events |-> GameOf(says, g, p[g])]
    <3>1. g - a \in 1 .. Len(p) - a /\ a + (g - a) = g
      BY <1>1, <2>1
    <3> QED BY <3>1 DEF IsFeed
  <2>5. [m.nextGames[g - a] EXCEPT !.events = Append(@, e)] = last
    <3>1. Append(GameOf(says, g, p[g]), e) = GameOf(says, g, p[g] + 1)
      BY <1>1, LongerGame
    <3> DEFINE r == m.nextGames[g - a]  s == GameOf(says, g, p[g])  t == GameOf(says, g, p[g] + 1)
    <3> HIDE DEF e, r, s, t
    <3>2. r = [id |-> g, events |-> s] /\ Append(s, e) = t
      BY <2>4, <3>1 DEF r, s, t
    <3>3. [r EXCEPT !.events = Append(@, e)] = [r EXCEPT !.events = t]
      BY ONLY <3>2
    <3>4. [[id |-> g, events |-> s] EXCEPT !.events = t] = [id |-> g, events |-> t]
      OBVIOUS
    <3> QED BY <3>2, <3>3, <3>4 DEF r, t
  <2>6. n = [m EXCEPT !.nextGames[waiting].events = Append(@, e)]
    BY <1>1, <1>3, <2>1, <2>3 DEF Schedule
  <2>7. n.nextGames = [m.nextGames EXCEPT ![g - a] = last]
    <3> HIDE DEF e, last, waiting
    <3>1. n.nextGames = [m.nextGames EXCEPT ![g - a] = [m.nextGames[g - a] EXCEPT !.events = Append(@, e)]]
      BY <2>3, <2>6 DEF ManagerOf
    <3> QED BY <2>5, <3>1
  <2>8. n.currentGameEvents = m.currentGameEvents /\ n.currentlyBroadcastedGameId = id
    <3> HIDE DEF e, waiting
    <3> QED BY <2>6 DEF ManagerOf
  <2>9. m.nextGames \in Seq(WaitingGame(Nat, Data))
    BY DEF ManagerOf
  <2> HIDE DEF n, q, e, last
  <2>10. /\ Len(n.nextGames) = g - a
         /\ \A k \in 1 .. g - a : n.nextGames[k] = IF k = g - a THEN last ELSE m.nextGames[k]
    BY <2>2, <2>7, <2>9
  <2>11. \A k \in 1 .. g - a : n.nextGames[k] = [id |-> a + k, events |-> GameOf(says, a + k, q[a + k])]
    <3>1. n.nextGames[g - a] = [id |-> a + (g - a), events |-> GameOf(says, a + (g - a), q[a + (g - a)])]
      <4>1. a + (g - a) = g /\ g - a \in 1 .. g - a
        BY <1>1, <2>1
      <4> QED BY <1>1, <2>10, <4>1 DEF last
    <3>2. ASSUME NEW k \in 1 .. g - a, k # g - a
          PROVE  n.nextGames[k] = [id |-> a + k, events |-> GameOf(says, a + k, q[a + k])]
      <4>1. k \in 1 .. Len(p) - a /\ a + k \in 1 .. g - 1
        BY <1>1, <2>1, <3>2
      <4> QED BY <1>1, <2>10, <3>2, <4>1 DEF IsFeed
    <3> QED BY <3>1, <3>2
  <2>12. CountOf(q, a) = CountOf(p, a)
    BY <1>1, <2>1 DEF CountOf
  <2>13. IsFeed(n, a, q, says, max)
    BY <1>1, <2>8, <2>10, <2>11, <2>12 DEF IsFeed
  <2> QED BY <2>13 DEF n, q, e
<1> QED BY <1>2, <1>3

\* MQManager::schedule moves no queue.
LEMMA ScheduleKeepsQueues ==
  ASSUME NEW Data, NEW F, NEW m \in ManagerOf(F, Nat, Data), NEW id, NEW event
  PROVE  Schedule(m, id, event).queues = m.queues
<1> DEFINE waiting == SelectInSeq(m.nextGames, LAMBDA g : g.id = id)
<1> HIDE DEF waiting
<1>1. Schedule(m, id, event) =
        CASE id = m.currentlyBroadcastedGameId ->
               [m EXCEPT !.currentGameEvents = Append(@, [no |-> Len(@), data |-> event])]
          [] id # m.currentlyBroadcastedGameId /\ waiting # 0 ->
               [m EXCEPT !.nextGames[waiting].events = Append(@, event)]
          [] OTHER -> [m EXCEPT !.nextGames = Append(@, [id |-> id, events |-> <<event>>])]
  BY DEF Schedule, waiting
<1> QED BY <1>1 DEF ManagerOf

\* When nobody is behind the next game goes on air; otherwise nothing changes.
LEMMA AdvanceFeed ==
  ASSUME NEW Data, NEW says, NEW max,
         NEW F, NEW m \in ManagerOf(F, Nat, Data), NEW p \in Counts, NEW a,
         IsFeed(m, a, p, says, max), ~IsEmpty(m),
         NEW b, b = IF HasPendingMessages(m) THEN a ELSE a + 1
  PROVE  /\ IsFeed(AdvanceGame(m), b, p, says, max) /\ b \in 1 .. Len(p)
         /\ AdvanceGame(m).currentlyBroadcastedGameId = b
         /\ AdvanceGame(m).queues =
              [f \in F |-> IF HasPendingMessages(m) THEN m.queues[f] ELSE 0]
<1> DEFINE n == AdvanceGame(m)
<1>1. Len(p) \in Nat /\ a \in 0 .. Len(p) /\ m.queues \in [F -> Nat]
  BY DEF Counts, IsFeed, ManagerOf
<1>2. CASE HasPendingMessages(m)
  <2>1. n = m /\ b = a
    BY <1>2 DEF AdvanceGame
  <2>2. a # 0
    <3>1. Len(m.currentGameEvents) # 0
      <4>1. PICK f \in F : m.queues[f] < Len(m.currentGameEvents)
        BY <1>1, <1>2 DEF HasPendingMessages, IsPending
      <4> QED BY <1>1, <4>1
    <3>2. ASSUME a = 0 PROVE FALSE
      <4>1. m.currentGameEvents = NumberedGame(says, 0, 0)
        BY <3>2 DEF IsFeed, CountOf
      <4> QED BY <3>1, <4>1, NumberedGameIs
    <3> QED BY <3>2
  <2>3. m.queues = [f \in F |-> m.queues[f]]
    BY <1>1
  <2>4. m.currentlyBroadcastedGameId = a
    BY <2>2 DEF IsFeed
  <2> HIDE DEF n
  <2> QED BY <1>1, <1>2, <2>1, <2>2, <2>3, <2>4 DEF n
<1>3. CASE ~HasPendingMessages(m)
  <2> DEFINE g == a + 1
  <2>1. m.nextGames # <<>> /\ m.nextGames \in Seq(WaitingGame(Nat, Data))
    BY <1>3 DEF IsEmpty, ManagerOf
  <2>2. Len(m.nextGames) = Len(p) - a
    BY DEF IsFeed
  <2>3. g \in 1 .. Len(p) /\ p[g] \in Nat
    <3>1. Len(m.nextGames) # 0 /\ Len(m.nextGames) \in Nat
      BY <2>1
    <3>2. g \in 1 .. Len(p)
      BY <1>1, <2>2, <3>1
    <3> QED BY <3>2 DEF Counts
  <2>4. m.nextGames[1].id = g /\ m.nextGames[1].events = GameOf(says, g, p[g])
    <3>1. 1 \in 1 .. Len(p) - a
      BY <1>1, <2>3
    <3> QED BY <3>1, WaitingGameIs
  <2>5. /\ n.nextGames = Tail(m.nextGames)
        /\ n.queues = [f \in F |-> 0]
        /\ n.currentGameEvents = Numbered(m.nextGames[1].events)
        /\ n.currentlyBroadcastedGameId = m.nextGames[1].id
    BY <1>1, <1>3, <2>1 DEF AdvanceGame
  <2>6. n.currentGameEvents = NumberedGame(says, g, p[g])
    BY <2>3, <2>4, <2>5, NumberedGameIs
  <2> HIDE DEF n, g
  <2>7. /\ Len(n.nextGames) = Len(p) - g
        /\ \A k \in 1 .. Len(p) - g : n.nextGames[k] = m.nextGames[k + 1]
    <3>1. /\ Len(Tail(m.nextGames)) = Len(m.nextGames) - 1
          /\ \A k \in 1 .. Len(m.nextGames) - 1 : Tail(m.nextGames)[k] = m.nextGames[k + 1]
      BY <2>1, HeadTailProperties
    <3>2. Len(m.nextGames) - 1 = Len(p) - g
      BY <1>1, <2>2 DEF g
    <3> QED BY <2>5, <3>1, <3>2
  <2>8. \A k \in 1 .. Len(p) - g : n.nextGames[k] = [id |-> g + k, events |-> GameOf(says, g + k, p[g + k])]
    <3>1. ASSUME NEW k \in 1 .. Len(p) - g
          PROVE  n.nextGames[k] = [id |-> g + k, events |-> GameOf(says, g + k, p[g + k])]
      <4>1. k + 1 \in 1 .. Len(p) - a /\ a + (k + 1) = g + k
        BY <1>1, <2>3 DEF g
      <4>2. m.nextGames[k + 1] = [id |-> a + (k + 1), events |-> GameOf(says, a + (k + 1), p[a + (k + 1)])]
        BY <4>1 DEF IsFeed
      <4> QED BY <2>7, <4>1, <4>2
    <3> QED BY <3>1
  <2>9. g # 0 /\ n.currentlyBroadcastedGameId = g /\ g \in 0 .. Len(p) /\ CountOf(p, g) = p[g]
    BY <2>3, <2>4, <2>5 DEF CountOf
  <2>10. IsFeed(n, g, p, says, max)
    BY <2>6, <2>7, <2>8, <2>9 DEF IsFeed
  <2>11. b = g
    BY <1>3 DEF g
  <2> QED BY <1>3, <2>3, <2>5, <2>9, <2>10, <2>11 DEF n
<1> QED BY <1>2, <1>3
=============================================================================
