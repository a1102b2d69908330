--------------------------- MODULE MessagesProofs ---------------------------
(***************************************************************************)
(* All the invariants of Messages, for any counts and names of players,    *)
(* runs of events, damaged lengths and number of damages: datagrams are    *)
(* full and not overfull, and decoded as they were sent.                   *)
(*                                                                         *)
(* The offsets that Written counts rise from event to event (OffsetsRise), *)
(* so that the decoder, which stands at an offset, finds one record there: *)
(* ReadInv, the invariant of its loop, says that it stands behind the last *)
(* record it has decoded.  Between the processes, BufferInv says that the  *)
(* datagram on its way carries the events that follow those the client     *)
(* has (GotInv), but for records that were damaged.                        *)
(***************************************************************************)
EXTENDS Messages, DataTheorems

-----------------------------------------------------------------------------
(* Events and their sizes *)

Openings == {NewGame(n, length) : n \in PlayerCounts, length \in NameLengths}

Others == {Pixel, PlayerEliminated, GameOver}

SomeEvent == Openings \cup Others

\* Every event fits into a datagram of its own; the largest NEW_GAME just does.
LEMMA EventFits ==
  ASSUME NEW e \in SomeEvent
  PROVE  /\ e.dataSize \in Nat /\ EncodedSize(e) \in Nat /\ EncodedSize(e) = e.dataSize + 13
         /\ EncodedSize(e) >= 13 /\ 4 + EncodedSize(e) <= MAX_UDP_DATA_FIELD_SIZE
<1>1. CASE e \in Others
  BY <1>1 DEF Others, Pixel, PlayerEliminated, GameOver, EncodedSize, MAX_UDP_DATA_FIELD_SIZE
<1>2. CASE e \in Openings
  <2>1. PICK n \in 1 .. 25, k \in 1 .. 20 : e = NewGame(n, k)
    BY <1>2, CountsAssumption DEF Openings, MAX_PLAYERS, MAX_PLAYER_NAME_LENGTH
  <2>2. n * (k + 1) \in Nat /\ n * (k + 1) <= 25 * (k + 1) /\ 25 * (k + 1) <= 525
    OBVIOUS
  <2> DEFINE x == n * (k + 1)
  <2>3. e.dataSize = 8 + x
    BY <2>1 DEF NewGame
  <2>4. x \in Nat /\ x <= 525
    BY <2>2
  <2> HIDE DEF x
  <2> QED BY <2>3, <2>4 DEF EncodedSize, MAX_UDP_DATA_FIELD_SIZE
<1> QED BY <1>1, <1>2 DEF SomeEvent

\* What Written returns
LEMMA Offsets ==
  ASSUME NEW events \in Seq(SomeEvent)
  PROVE  /\ Written(events)[0] = 4
         /\ \A n \in 1 .. Len(events) :
               Written(events)[n] = Written(events)[n - 1] + EncodedSize(events[n])
         /\ \A n \in 0 .. Len(events) : Written(events)[n] \in Nat
<1> DEFINE k == Len(events)
           f == CHOOSE f : f = [n \in 0 .. k |-> IF n = 0 THEN 4 ELSE f[n - 1] + EncodedSize(events[n])]
           G == [p \in (1 .. k) \X Nat |-> p[2] + EncodedSize(events[p[1]])]
<1>1. k \in Nat /\ \A n \in 1 .. k : EncodedSize(events[n]) \in Nat
  <2>1. \A n \in 1 .. k : events[n] \in SomeEvent
    OBVIOUS
  <2> QED BY <2>1, EventFits
<1>2. \A n \in 1 .. k : \A s \in Nat : G[<<n, s>>] \in Nat /\ G[<<n, s>>] = s + EncodedSize(events[n])
  BY <1>1
<1> HIDE DEF G, k
<1>3. PICK g : g \in [0 .. k -> Nat] /\ IsRecursive(g, k, 4, G)
  <2>1. 4 \in Nat /\ StaysIn(Nat, k, G)
    BY <1>2 DEF StaysIn
  <2> QED BY <1>1, <2>1, RecursionIn
<1>a. g[0] = 4 /\ \A n \in 1 .. k : g[n] = G[<<n, g[n - 1]>>]
  BY <1>1, <1>3 DEF IsRecursive
<1>4. \A n \in 0 .. k : g[n] = IF n = 0 THEN 4 ELSE g[n - 1] + EncodedSize(events[n])
  <2>1. ASSUME NEW n \in 1 .. k PROVE g[n] = g[n - 1] + EncodedSize(events[n])
    <3>1. g[n - 1] \in Nat
      BY <1>1, <1>3
    <3>2. g[n] = G[<<n, g[n - 1]>>]
      BY <1>a
    <3>3. G[<<n, g[n - 1]>>] = g[n - 1] + EncodedSize(events[n])
      BY <1>2, <3>1, Zenon
    <3> QED BY <3>2, <3>3, Zenon
  <2> QED BY <1>1, <1>a, <2>1
<1>5. g = [n \in 0 .. k |-> IF n = 0 THEN 4 ELSE g[n - 1] + EncodedSize(events[n])]
  BY <1>3, <1>4
<1>6. f = [n \in 0 .. k |-> IF n = 0 THEN 4 ELSE f[n - 1] + EncodedSize(events[n])]
  BY <1>5
<1>7. Written(events) = f
  BY DEF Written, k
<1> HIDE DEF f
<1> DEFINE I == {n \in 0 .. k : f[n] \in Nat}
<1>8. 0 \in I /\ f[0] = 4
  BY <1>1, <1>6
<1>9. ASSUME NEW n \in 1 .. k, n - 1 \in I PROVE n \in I
  <2>1. f[n] = f[n - 1] + EncodedSize(events[n]) /\ f[n - 1] \in Nat
    BY <1>1, <1>6, <1>9
  <2> QED BY <1>1, <2>1
<1>10. \A n \in 0 .. k : n \in I
  <2> HIDE DEF I
  <2> QED BY <1>1, <1>8, <1>9, InductionTo
<1>11. \A n \in 1 .. k : f[n] = f[n - 1] + EncodedSize(events[n])
  BY <1>1, <1>6
<1> QED BY <1>7, <1>8, <1>10, <1>11 DEF k

\* They rise, by 13 at least.
LEMMA OffsetsRise ==
  ASSUME NEW events \in Seq(SomeEvent), NEW n \in 0 .. Len(events), NEW m \in 0 .. n
  PROVE  /\ Written(events)[m] <= Written(events)[n]
         /\ m < n => Written(events)[m] < Written(events)[n]
<1> DEFINE w == Written(events)
           I == {i \in 0 .. n : m <= i => w[m] <= w[i] /\ (m < i => w[m] < w[i])}
<1>1. Len(events) \in Nat /\ n \in Nat
  OBVIOUS
<1>2. ASSUME NEW i \in 1 .. n
      PROVE  w[i] \in Nat /\ w[i - 1] \in Nat /\ w[i - 1] < w[i]
  <2>1. events[i] \in SomeEvent /\ i \in 1 .. Len(events) /\ i - 1 \in 0 .. Len(events)
        /\ i \in 0 .. Len(events)
    BY <1>1
  <2>2. EncodedSize(events[i]) \in Nat /\ EncodedSize(events[i]) >= 13
    BY <2>1, EventFits
  <2>3. w[i] = w[i - 1] + EncodedSize(events[i]) /\ w[i - 1] \in Nat
    BY <2>1, Offsets
  <2> HIDE DEF w
  <2> QED BY <2>2, <2>3
<1>3. w[m] \in Nat
  BY <1>1, Offsets
<1> HIDE DEF w
<1>4. 0 \in I
  BY <1>1, <1>3
<1>5. ASSUME NEW i \in 1 .. n, i - 1 \in I PROVE i \in I
  BY <1>2, <1>3, <1>5
<1>6. \A i \in 0 .. n : i \in I
  <2> HIDE DEF I
  <2> QED BY <1>1, <1>4, <1>5, InductionTo
<1> QED BY <1>1, <1>6 DEF w

\* The offsets of the first events do not depend on those behind them.
LEMMA OffsetsOfFront ==
  ASSUME NEW events \in Seq(SomeEvent), NEW k \in 0 .. Len(events), NEW front,
         front = SubSeq(events, 1, k)
  PROVE  /\ front \in Seq(SomeEvent) /\ Len(front) = k
         /\ \A n \in 1 .. k : front[n] = events[n]
         /\ \A n \in 0 .. k : Written(front)[n] = Written(events)[n]
<1>1. k \in Nat /\ Len(events) \in Nat
  OBVIOUS
<1>2. front \in Seq(SomeEvent) /\ Len(front) = k /\ \A n \in 1 .. k : front[n] = events[n]
  BY <1>1
<1> DEFINE w == Written(front)  v == Written(events)
           I == {n \in 0 .. k : w[n] = v[n]}
<1>3. /\ w[0] = 4 /\ \A n \in 1 .. k : w[n] = w[n - 1] + EncodedSize(front[n])
      /\ v[0] = 4 /\ \A n \in 1 .. Len(events) : v[n] = v[n - 1] + EncodedSize(events[n])
  BY <1>2, Offsets
<1> HIDE DEF w, v
<1>4. 0 \in I
  BY <1>1, <1>3
<1>5. ASSUME NEW n \in 1 .. k, n - 1 \in I PROVE n \in I
  <2>1. w[n - 1] = v[n - 1] /\ n \in 0 .. k /\ n \in 1 .. Len(events)
    BY <1>1, <1>5
  <2>2. w[n] = v[n]
    BY <1>2, <1>3, <2>1
  <2> QED BY <2>1, <2>2
<1>6. \A n \in 0 .. k : n \in I
  <2> HIDE DEF I
  <2> QED BY <1>1, <1>4, <1>5, InductionTo
<1> QED BY <1>2, <1>6 DEF w, v

\* What fromEvents picks: as many as the limit allows, one at least
LEMMA Picks ==
  ASSUME NEW events \in Seq(SomeEvent), NEW k, k = FromEvents(events)
  PROVE  /\ k \in 0 .. Len(events)
         /\ Written(events)[k] <= MAX_UDP_DATA_FIELD_SIZE
         /\ k = Len(events) \/ Written(events)[k + 1] > MAX_UDP_DATA_FIELD_SIZE
         /\ Len(events) # 0 => k # 0
<1> DEFINE all == Len(events)  w == Written(events)  limit == MAX_UDP_DATA_FIELD_SIZE
           f == CHOOSE f : f = [n \in 0 .. all |->
                   IF n = 0 THEN 0
                   ELSE IF f[n - 1] = n - 1 /\ w[n] <= limit THEN n ELSE f[n - 1]]
           G == [p \in (1 .. all) \X Nat |-> IF p[2] = p[1] - 1 /\ w[p[1]] <= limit THEN p[1] ELSE p[2]]
<1>1. all \in Nat
  OBVIOUS
<1>2. w[0] = 4 /\ \A n \in 0 .. all : w[n] \in Nat
  BY Offsets
<1>3. FromEvents(events) = f[all]
  BY DEF FromEvents
<1> HIDE DEF w, all
<1>4. \A n \in 1 .. all : \A s \in Nat :
         G[<<n, s>>] \in Nat /\ G[<<n, s>>] = IF s = n - 1 /\ w[n] <= limit THEN n ELSE s
  OBVIOUS
<1> HIDE DEF G, limit
<1>5. PICK g : g \in [0 .. all -> Nat] /\ IsRecursive(g, all, 0, G)
  <2>1. 0 \in Nat /\ StaysIn(Nat, all, G)
    BY <1>4 DEF StaysIn
  <2> QED BY <1>1, <2>1, RecursionIn
<1>6. g[0] = 0 /\ \A n \in 1 .. all : g[n] = G[<<n, g[n - 1]>>]
  BY <1>1, <1>5 DEF IsRecursive
<1>7. \A n \in 1 .. all : g[n] = IF g[n - 1] = n - 1 /\ w[n] <= limit THEN n ELSE g[n - 1]
  <2>1. ASSUME NEW n \in 1 .. all
        PROVE  g[n] = IF g[n - 1] = n - 1 /\ w[n] <= limit THEN n ELSE g[n - 1]
    <3>1. g[n - 1] \in Nat
      BY <1>1, <1>5
    <3>2. g[n] = G[<<n, g[n - 1]>>]
      BY <1>6
    <3> QED BY <1>4, <3>1, <3>2, Zenon
  <2> QED BY <2>1
<1>8. g = [n \in 0 .. all |->
             IF n = 0 THEN 0 ELSE IF g[n - 1] = n - 1 /\ w[n] <= limit THEN n ELSE g[n - 1]]
  BY <1>1, <1>5, <1>6, <1>7
<1>9. f = [n \in 0 .. all |->
             IF n = 0 THEN 0 ELSE IF f[n - 1] = n - 1 /\ w[n] <= limit THEN n ELSE f[n - 1]]
  BY <1>8
<1> HIDE DEF f
<1>10. f[0] = 0 /\ \A n \in 1 .. all : f[n] = IF f[n - 1] = n - 1 /\ w[n] <= limit THEN n ELSE f[n - 1]
  BY <1>1, <1>9
<1> DEFINE I == {n \in 0 .. all : f[n] \in 0 .. n /\ w[f[n]] <= limit /\ (f[n] # n => w[f[n] + 1] > limit)}
<1>11. 0 \in I
  BY <1>1, <1>2, <1>10 DEF limit, MAX_UDP_DATA_FIELD_SIZE
<1>12. ASSUME NEW n \in 1 .. all, n - 1 \in I PROVE n \in I
  <2>1. /\ f[n - 1] \in 0 .. n - 1 /\ w[f[n - 1]] <= limit
        /\ f[n - 1] # n - 1 => w[f[n - 1] + 1] > limit
        /\ n \in 0 .. all
    BY <1>1, <1>12
  <2>2. CASE f[n - 1] = n - 1 /\ w[n] <= limit
    <3>1. f[n] = n
      BY <1>10, <2>2
    <3> QED BY <2>1, <2>2, <3>1
  <2>3. CASE f[n - 1] = n - 1 /\ ~(w[n] <= limit)
    <3>1. f[n] = n - 1 /\ (n - 1) + 1 = n
      BY <1>10, <2>3
    <3>2. w[n] > limit
      BY <1>2, <2>1, <2>3 DEF limit, MAX_UDP_DATA_FIELD_SIZE
    <3> QED BY <2>1, <2>3, <3>1, <3>2
  <2>4. CASE f[n - 1] # n - 1
    <3>1. f[n] = f[n - 1]
      BY <1>10, <2>4
    <3> QED BY <2>1, <2>4, <3>1
  <2> QED BY <2>2, <2>3, <2>4
<1>13. \A n \in 0 .. all : n \in I
  <2> HIDE DEF I
  <2> QED BY <1>1, <1>11, <1>12, InductionTo
<1>14. k \in 0 .. all /\ w[k] <= limit /\ (k # all => w[k + 1] > limit)
  BY <1>1, <1>3, <1>13
<1>15. ASSUME all # 0, k = 0 PROVE FALSE
  <2>1. events[1] \in SomeEvent /\ 1 \in 1 .. all
    BY <1>1, <1>15 DEF all
  <2>2. w[1] = w[1 - 1] + EncodedSize(events[1])
    BY <2>1, Offsets DEF w, all
  <2>3. 4 + EncodedSize(events[1]) <= limit /\ EncodedSize(events[1]) \in Nat
    BY <2>1, EventFits DEF limit
  <2>4. w[1] <= limit
    BY <1>2, <2>2, <2>3
  <2>5. w[1] > limit
    BY <1>14, <1>15
  <2> QED BY <1>2, <2>1, <2>4, <2>5 DEF limit, MAX_UDP_DATA_FIELD_SIZE
<1> QED BY <1>14, <1>15 DEF all, w, limit

\* SizeOf counts the same bytes kind by kind.
LEMMA SizeIsWritten ==
  ASSUME NEW events \in Seq(SomeEvent), \A i \in 2 .. Len(events) : events[i] \in Others
  PROVE  \A n \in 0 .. Len(events) : SizeOf(SubSeq(events, 1, n)) = Written(events)[n]
<1> DEFINE all == Len(events)  w == Written(events)
           OfType(type, n) == {i \in 1 .. n : events[i].type = type}
           First(n) == IF n # 0 /\ events[1].type = "NEW_GAME" THEN events[1].dataSize ELSE 0
           Size(n) == 4 + 13 * n + 9 * Cardinality(OfType("PIXEL", n))
                        + Cardinality(OfType("PLAYER_ELIMINATED", n)) + First(n)
<1>1. all \in Nat
  OBVIOUS
<1>2. /\ w[0] = 4
      /\ \A n \in 1 .. all : w[n] = w[n - 1] + EncodedSize(events[n]) /\ events[n] \in SomeEvent
      /\ \A n \in 0 .. all : w[n] \in Nat
  BY Offsets
<1>3. ASSUME NEW n \in 0 .. all PROVE SizeOf(SubSeq(events, 1, n)) = Size(n)
  <2> DEFINE s == SubSeq(events, 1, n)
  <2>1. Len(s) = n /\ DOMAIN s = 1 .. n /\ \A i \in 1 .. n : s[i] = events[i]
    BY <1>1
  <2>2. s # <<>> <=> n # 0
    BY <1>1, <2>1
  <2>3. n # 0 => s[1] = events[1]
    BY <1>1, <2>1
  <2> HIDE DEF s
  <2>4. \A type : {i \in DOMAIN s : s[i].type = type} = OfType(type, n)
    BY <2>1
  <2> HIDE DEF OfType
  <2> QED BY <2>1, <2>2, <2>3, <2>4 DEF SizeOf, s
<1>4. \A type, n : OfType(type, n) \subseteq 1 .. n
  OBVIOUS
<1>5. ASSUME NEW type, NEW n \in 1 .. all
      PROVE  /\ Cardinality(OfType(type, n - 1)) \in Nat
             /\ Cardinality(OfType(type, n)) =
                   Cardinality(OfType(type, n - 1)) + IF events[n].type = type THEN 1 ELSE 0
  <2>1. n \in Int /\ n - 1 \in Int /\ 1 \in Int
    BY <1>1
  <2>2. IsFiniteSet(1 .. n - 1)
    BY <2>1, FS_Interval
  <2>3. IsFiniteSet(OfType(type, n - 1))
    BY <1>4, <2>2, FS_Subset
  <2>4. OfType(type, n) = OfType(type, n - 1) \cup (IF events[n].type = type THEN {n} ELSE {})
    BY <1>1
  <2>5. n \notin OfType(type, n - 1)
    BY <1>1
  <2> HIDE DEF OfType
  <2>6. CASE events[n].type = type
    BY <2>3, <2>4, <2>5, <2>6, FS_AddElement, FS_CardinalityType
  <2>7. CASE events[n].type # type
    <3>1. OfType(type, n) = OfType(type, n - 1)
      BY <2>4, <2>7
    <3>2. Cardinality(OfType(type, n - 1)) \in Nat
      BY <2>3, FS_CardinalityType
    <3> QED BY <2>7, <3>1, <3>2
  <2> QED BY <2>6, <2>7
<1> DEFINE I == {n \in 0 .. all : Size(n) = w[n]}
<1>6. 0 \in I
  <2>1. \A type : OfType(type, 0) = {}
    OBVIOUS
  <2> HIDE DEF OfType, w
  <2>2. Cardinality(OfType("PIXEL", 0)) = 0 /\ Cardinality(OfType("PLAYER_ELIMINATED", 0)) = 0
    BY <2>1, FS_EmptySet
  <2> QED BY <1>1, <1>2, <2>2
<1>7. ASSUME NEW n \in 1 .. all, n - 1 \in I PROVE n \in I
  <2> DEFINE e == events[n]
             p == Cardinality(OfType("PIXEL", n - 1))
             q == Cardinality(OfType("PLAYER_ELIMINATED", n - 1))
  <2>1. /\ p \in Nat /\ q \in Nat
        /\ Cardinality(OfType("PIXEL", n)) = p + IF e.type = "PIXEL" THEN 1 ELSE 0
        /\ Cardinality(OfType("PLAYER_ELIMINATED", n)) = q + IF e.type = "PLAYER_ELIMINATED" THEN 1 ELSE 0
    BY <1>5
  <2>2. w[n - 1] = 4 + 13 * (n - 1) + 9 * p + q + First(n - 1)
    BY <1>7
  <2>3. First(n - 1) \in Nat /\ First(n) \in Nat
    <3>1. events[1] \in SomeEvent
      BY <1>1, <1>2
    <3> QED BY <3>1, EventFits
  <2>4. e \in SomeEvent /\ w[n] = w[n - 1] + EncodedSize(e)
    BY <1>2
  <2>5. Size(n) = 4 + 13 * n + 9 * (p + IF e.type = "PIXEL" THEN 1 ELSE 0)
                    + (q + IF e.type = "PLAYER_ELIMINATED" THEN 1 ELSE 0) + First(n)
    BY <2>1
  <2>6. e \in Openings => n = 1
    BY <1>1, <2>4 DEF Openings, Others, NewGame, Pixel, PlayerEliminated, GameOver
  <2>7. First(n) = First(n - 1) + IF e \in Openings THEN e.dataSize ELSE 0
    <3>1. CASE n = 1
      <4>1. First(n - 1) = 0 /\ First(n) = IF e.type = "NEW_GAME" THEN e.dataSize ELSE 0
        BY <3>1
      <4>2. e.type = "NEW_GAME" <=> e \in Openings
        BY <2>4 DEF SomeEvent, Openings, Others, NewGame, Pixel, PlayerEliminated, GameOver
      <4> HIDE DEF First, e
      <4> QED BY <2>3, <2>4, <4>1, <4>2, EventFits
    <3>2. CASE n # 1
      <4>1. First(n - 1) = First(n)
        BY <3>2
      <4> HIDE DEF First, e
      <4> QED BY <2>3, <2>6, <3>2, <4>1
    <3> QED BY <3>1, <3>2
  <2> HIDE DEF e, p, q, First
  <2>8. EncodedSize(e) = 13 + (IF e.type = "PIXEL" THEN 9 ELSE 0)
                            + (IF e.type = "PLAYER_ELIMINATED" THEN 1 ELSE 0)
                            + (IF e \in Openings THEN e.dataSize ELSE 0)
    BY <2>4, EventFits
       DEF SomeEvent, Openings, Others, NewGame, Pixel, PlayerEliminated, GameOver
  <2>9. e \in Openings => e.dataSize \in Nat
    BY <2>4, EventFits
  <2>10. Size(n) = w[n]
    <3> DEFINE a == IF e.type = "PIXEL" THEN 1 ELSE 0
               b == IF e.type = "PLAYER_ELIMINATED" THEN 1 ELSE 0
               c == IF e \in Openings THEN e.dataSize ELSE 0
               before == w[n - 1]  f == First(n - 1)
    <3>1. a \in Nat /\ b \in Nat /\ c \in Nat /\ f \in Nat /\ n \in Nat
      BY <1>1, <2>3, <2>9
    <3>2. w[n] = before + (13 + 9 * a + b + c)
      BY <2>4, <2>8
    <3>3. before = 4 + 13 * (n - 1) + 9 * p + q + f
      BY <2>2
    <3>4. Size(n) = 4 + 13 * n + 9 * (p + a) + (q + b) + (f + c)
      BY <2>5, <2>7
    <3>5. p \in Nat /\ q \in Nat
      BY <2>1
    <3> HIDE DEF a, b, c, before, f, Size, w
    <3> QED BY <3>1, <3>2, <3>3, <3>4, <3>5
  <2> QED BY <1>1, <2>10
<1>8. \A n \in 0 .. all : n \in I
  <2> HIDE DEF I
  <2> QED BY <1>1, <1>6, <1>7, InductionTo
<1> QED BY <1>3, <1>8

-----------------------------------------------------------------------------
(* What a datagram carries and what the decoder makes of it *)

SomeRecord == [at : Nat, len : Nat, eventNo : Nat, event : SomeEvent, intact : BOOLEAN]

Decoded == [eventNo : Nat, event : SomeEvent]

\* b is the encoding of events, numbered from first on, but for damaged records.
Carries(b, events, first) ==
    /\ b \in [size : Nat, records : Seq(SomeRecord)]
    /\ b.size = Written(events)[Len(events)]
    /\ Len(b.records) = Len(events)
    /\ \A n \in 1 .. Len(events) :
         /\ b.records[n].at = Written(events)[n - 1]
         /\ b.records[n].eventNo = first + n - 1
         /\ b.records[n].event = events[n]
         /\ b.records[n].intact => b.records[n].len = EncodedSize(events[n]) - 8

\* A datagram as it is encoded carries its events, undamaged.
LEMMA EncodeCarries ==
  ASSUME NEW events \in Seq(SomeEvent), NEW first \in Nat
  PROVE  /\ Carries(Encode(events, first), events, first)
         /\ \A n \in 1 .. Len(events) : Encode(events, first).records[n].intact
<1> DEFINE k == Len(events)  w == Written(events)
           record(n) == Record(events[n], first + n - 1, w[n - 1])
           records == [n \in 1 .. k |-> record(n)]
<1>1. k \in Nat /\ \A n \in 0 .. k : w[n] \in Nat
  BY Offsets
<1>2. ASSUME NEW n \in 1 .. k
      PROVE  /\ record(n) \in SomeRecord
             /\ record(n).at = w[n - 1] /\ record(n).eventNo = first + n - 1
             /\ record(n).event = events[n] /\ record(n).len = EncodedSize(events[n]) - 8
             /\ record(n).intact
  <2>1. events[n] \in SomeEvent
    OBVIOUS
  <2>2. EncodedSize(events[n]) \in Nat /\ EncodedSize(events[n]) >= 13
    BY <2>1, EventFits
  <2>3. w[n - 1] \in Nat /\ first + n - 1 \in Nat /\ EncodedSize(events[n]) - 8 \in Nat
    BY <1>1, <2>2
  <2> HIDE DEF w
  <2> QED BY <2>1, <2>3 DEF Record, SomeRecord
<1> HIDE DEF record, w
<1>3. records \in Seq(SomeRecord) /\ Len(records) = k /\ \A n \in 1 .. k : records[n] = record(n)
  BY <1>1, <1>2
<1>4. Encode(events, first) = [size |-> w[k], records |-> records]
  BY DEF Encode, record, w
<1>5. w[k] \in Nat
  BY <1>1
<1> HIDE DEF records, k
<1> QED BY <1>2, <1>3, <1>4, <1>5 DEF Carries, k, w

\* The decoder's state after any number of rounds
DecoderState ==
    [bytesRead : Nat, events : Seq(Decoded),
     throws : BOOLEAN, outside : BOOLEAN, stopped : BOOLEAN]

\* It stands behind the m-th record and has decoded those before it; and it has thrown, or
\* left the buffer, only over a record whose length was damaged.
ReadInv(b, events, first, d) ==
    /\ \E m \in 0 .. Len(events) :
         /\ d.bytesRead = Written(events)[m]
         /\ Len(d.events) = m
         /\ \A i \in 1 .. m : d.events[i] = [eventNo |-> first + i - 1, event |-> events[i]]
    /\ d.throws \/ d.outside =>
          \E n \in 1 .. Len(events) : b.records[n].len # EncodedSize(events[n]) - 8

\* A round reads whole records, whatever the state it begins in.
LEMMA ReadKeepsTypes ==
  ASSUME NEW events, NEW first, NEW b, Carries(b, events, first),
         NEW d \in DecoderState
  PROVE  ReadEvent(b, d) \in DecoderState
<1> DEFINE here == {n \in DOMAIN b.records : b.records[n].at = d.bytesRead}
<1>1. CASE d.stopped \/ d.bytesRead >= b.size \/ here = {}
  BY <1>1 DEF ReadEvent, DecoderState
<1>2. CASE ~(d.stopped \/ d.bytesRead >= b.size) /\ here # {}
  <2> DEFINE record == b.records[CHOOSE n \in here : TRUE]
             more == [eventNo |-> record.eventNo, event |-> record.event]
  <2>1. record \in SomeRecord
    <3>1. (CHOOSE n \in here : TRUE) \in DOMAIN b.records
      BY <1>2
    <3>2. b.records \in Seq(SomeRecord)
      BY DEF Carries
    <3> HIDE DEF here
    <3> QED BY <3>1, <3>2
  <2> HIDE DEF record
  <2>2. record.len \in Nat /\ more \in Decoded
    BY <2>1 DEF SomeRecord, Decoded
  <2> HIDE DEF more
  <2>3. d.bytesRead + record.len + 8 \in Nat /\ Append(d.events, more) \in Seq(Decoded)
    BY <2>2 DEF DecoderState
  <2>4. ReadEvent(b, d) = IF IsImpossible(record, b.size - d.bytesRead)
                          THEN [d EXCEPT !.throws = TRUE, !.stopped = TRUE]
                          ELSE IF record.len + 8 > b.size - d.bytesRead
                          THEN [d EXCEPT !.outside = TRUE, !.stopped = TRUE]
                          ELSE IF ~record.intact
                          THEN [d EXCEPT !.stopped = TRUE]
                          ELSE [d EXCEPT !.bytesRead = d.bytesRead + record.len + 8,
                                         !.events = Append(d.events, more)]
    BY <1>2 DEF ReadEvent, record, more
  <2>5. [d EXCEPT !.bytesRead = d.bytesRead + record.len + 8,
                  !.events = Append(d.events, more)] \in DecoderState
    BY <2>3 DEF DecoderState
  <2>6. [d EXCEPT !.throws = TRUE, !.stopped = TRUE] \in DecoderState
        /\ [d EXCEPT !.outside = TRUE, !.stopped = TRUE] \in DecoderState
        /\ [d EXCEPT !.stopped = TRUE] \in DecoderState
    BY DEF DecoderState
  <2> QED BY <2>4, <2>5, <2>6, Zenon
<1> QED BY <1>1, <1>2

\* One round of the loop keeps ReadInv.
LEMMA ReadKeeps ==
  ASSUME NEW events \in Seq(SomeEvent), NEW first \in Nat, NEW b, Carries(b, events, first),
         b.size <= MAX_UDP_DATA_FIELD_SIZE,
         NEW d \in DecoderState, ReadInv(b, events, first, d)
  PROVE  ReadInv(b, events, first, ReadEvent(b, d))
<1> DEFINE k == Len(events)  w == Written(events)
           e(i) == [eventNo |-> first + i - 1, event |-> events[i]]
           here == {n \in DOMAIN b.records : b.records[n].at = d.bytesRead}
<1>1. PICK m \in 0 .. k : /\ d.bytesRead = w[m] /\ Len(d.events) = m
                          /\ \A i \in 1 .. m : d.events[i] = e(i)
  BY DEF ReadInv
<1>2. CASE d.stopped \/ d.bytesRead >= b.size
  BY <1>2 DEF ReadEvent
<1>3. CASE ~(d.stopped \/ d.bytesRead >= b.size)
  <2>1. b.size = w[k] /\ DOMAIN b.records = 1 .. k /\ k \in Nat
    BY DEF Carries
  <2>2. m < k
    BY <1>1, <1>3, <2>1, Offsets
  <2>3. m + 1 \in 1 .. k /\ m \in 0 .. k /\ (m + 1) - 1 = m /\ m \in Nat
    BY <2>1, <2>2
  <2>4. here = {m + 1}
    <3>1. \A n \in 1 .. k : b.records[n].at = w[n - 1]
      BY DEF Carries
    <3>2. ASSUME NEW n \in 1 .. k, w[n - 1] = w[m] PROVE n = m + 1
      <4>1. n - 1 \in 0 .. k /\ n - 1 \in Nat
        BY <2>1
      <4>2. w[n - 1] \in Nat /\ w[m] \in Nat
        BY <2>3, <4>1, Offsets
      <4>3. CASE n - 1 < m
        <5>1. n - 1 \in 0 .. m
          BY <2>3, <4>1, <4>3
        <5> QED BY <2>3, <3>2, <4>2, <4>3, <5>1, OffsetsRise
      <4>4. CASE m < n - 1
        <5>1. m \in 0 .. n - 1
          BY <2>3, <4>1, <4>4
        <5> QED BY <3>2, <4>1, <4>2, <4>4, <5>1, OffsetsRise
      <4> QED BY <2>1, <2>3, <4>3, <4>4
    <3> HIDE DEF w, k
    <3> QED BY <1>1, <2>1, <2>3, <3>1, <3>2
  <2> DEFINE record == b.records[m + 1]  more == [eventNo |-> record.eventNo, event |-> record.event]
             next == ReadEvent(b, d)
  <2>5. /\ record.eventNo = first + m /\ record.event = events[m + 1]
        /\ record.intact \in BOOLEAN /\ record.len \in Nat
        /\ record.intact => record.len = EncodedSize(events[m + 1]) - 8
    <3>1. b.records \in Seq(SomeRecord)
      BY DEF Carries
    <3>2. record \in SomeRecord
      BY <2>1, <2>3, <3>1
    <3>3. first + (m + 1) - 1 = first + m
      BY <2>3
    <3> QED BY <2>3, <3>2, <3>3 DEF Carries, SomeRecord
  <2>6. more = e(m + 1)
    <3>1. first + (m + 1) - 1 = first + m
      BY <2>3
    <3> QED BY <2>5, <3>1
  <2>7. next = IF IsImpossible(record, b.size - d.bytesRead)
               THEN [d EXCEPT !.throws = TRUE, !.stopped = TRUE]
               ELSE IF record.len + 8 > b.size - d.bytesRead
               THEN [d EXCEPT !.outside = TRUE, !.stopped = TRUE]
               ELSE IF ~record.intact
               THEN [d EXCEPT !.stopped = TRUE]
               ELSE [d EXCEPT !.bytesRead = d.bytesRead + record.len + 8,
                              !.events = Append(d.events, more)]
    <3>1. here # {} /\ (CHOOSE n \in here : TRUE) = m + 1
      BY <2>4
    <3> HIDE DEF here
    <3> QED BY <1>3, <3>1 DEF ReadEvent, here
  <2>8. CASE record.len # EncodedSize(events[m + 1]) - 8
    <3>1. \E n \in 1 .. k : b.records[n].len # EncodedSize(events[n]) - 8
      BY <2>3, <2>8
    <3>2. next.bytesRead = d.bytesRead /\ next.events = d.events
      BY <2>5, <2>7, <2>8 DEF DecoderState
    <3> HIDE DEF next, record
    <3> QED BY <1>1, <3>1, <3>2 DEF ReadInv, next
  <2>9. ASSUME record.len = EncodedSize(events[m + 1]) - 8
        PROVE  /\ ~IsImpossible(record, b.size - d.bytesRead)
               /\ ~(record.len + 8 > b.size - d.bytesRead)
               /\ d.bytesRead + record.len + 8 = w[m + 1]
    <3>1. events[m + 1] \in SomeEvent
      BY <2>3
    <3>2. EncodedSize(events[m + 1]) \in Nat /\ EncodedSize(events[m + 1]) >= 13
      BY <3>1, EventFits
    <3>3. w[m + 1] = w[m] + EncodedSize(events[m + 1]) /\ w[m] \in Nat /\ w[m + 1] \in Nat /\ w[k] \in Nat
      <4>1. m + 1 \in 0 .. k /\ k \in 0 .. k
        BY <2>3
      <4>2. \A n \in 1 .. k : w[n] = w[n - 1] + EncodedSize(events[n])
        BY Offsets
      <4>3. \A n \in 0 .. k : w[n] \in Nat
        BY Offsets
      <4> HIDE DEF w, k
      <4> QED BY <2>3, <4>1, <4>2, <4>3
    <3>4. w[m + 1] <= w[k]
      <4>1. k \in 0 .. k /\ m + 1 \in 0 .. k
        BY <2>1, <2>3
      <4> QED BY <4>1, OffsetsRise
    <3> DEFINE len == record.len  s == EncodedSize(events[m + 1])
               before == w[m]  after == w[m + 1]  last == w[k]
    <3>5. s \in Nat /\ s >= 13 /\ len = s - 8
      BY <2>9, <3>2
    <3>6. before \in Nat /\ after \in Nat /\ last \in Nat /\ after = before + s /\ after <= last
      BY <3>3, <3>4
    <3>7. last <= MAX_UDP_DATA_FIELD_SIZE
      BY <2>1
    <3> HIDE DEF len, s, before, after, last
    <3>8. ~(len < 5) /\ ~(len + 8 > last - before) /\ before + len + 8 = after
      BY <3>5, <3>6
    <3>9. (len + 4) % WordSize = len + 4
      <4>1. len + 4 \in 0 .. WordSize - 1 /\ WordSize \in Nat \ {0}
        BY <3>5, <3>6, <3>7, WordAssumption DEF MAX_UDP_DATA_FIELD_SIZE
      <4> DEFINE r == len + 4
      <4> HIDE DEF r
      <4>2. (WordSize * 0 + r) % WordSize = r
        BY <4>1, RemainderIs DEF r
      <4>3. WordSize * 0 + r = r
        BY <4>1 DEF r
      <4> QED BY <4>2, <4>3 DEF r
    <3>10. ((len + 4) % WordSize) + 4 = len + 8
      BY <3>5, <3>9
    <3> QED BY <1>1, <2>1, <3>8, <3>10 DEF IsImpossible, len, before, after, last
  <2>10. CASE record.len = EncodedSize(events[m + 1]) - 8 /\ ~record.intact
    <3>1. next.bytesRead = d.bytesRead /\ next.events = d.events
          /\ next.throws = d.throws /\ next.outside = d.outside
      <4> HIDE DEF more, next, record, w
      <4> QED BY <2>7, <2>9, <2>10 DEF DecoderState
    <3> HIDE DEF next, record
    <3> QED BY <1>1, <3>1 DEF ReadInv, next
  <2>11. CASE record.len = EncodedSize(events[m + 1]) - 8 /\ record.intact
    <3>1. /\ next.bytesRead = w[m + 1] /\ next.events = Append(d.events, more)
          /\ next.throws = d.throws /\ next.outside = d.outside
      <4> HIDE DEF more, next, record, w
      <4> QED BY <2>7, <2>9, <2>11 DEF DecoderState
    <3>2. Len(next.events) = m + 1 /\ \A i \in 1 .. m + 1 : next.events[i] = e(i)
      <4> HIDE DEF more, next, e
      <4>1. d.events \in Seq(Decoded)
        BY DEF DecoderState
      <4>2. Len(Append(d.events, more)) = m + 1
        BY <1>1, <4>1
      <4>3. \A i \in 1 .. m : Append(d.events, more)[i] = d.events[i]
        BY <1>1, <4>1
      <4>4. Append(d.events, more)[m + 1] = more
        BY <1>1, <4>1
      <4>5. \A i \in 1 .. m + 1 : i = m + 1 \/ i \in 1 .. m
        BY <2>3
      <4> QED BY <1>1, <2>6, <3>1, <4>2, <4>3, <4>4, <4>5
    <3>3. m + 1 \in 0 .. k
      BY <2>3
    <3> HIDE DEF next, more, record
    <3> QED BY <3>1, <3>2, <3>3 DEF ReadInv, next
  <2> QED BY <2>5, <2>8, <2>10, <2>11
<1> QED BY <1>2, <1>3

\* So the decoder returns the first of the events it was sent, as they are, and it
\* throws over no datagram whose lengths are undamaged.
LEMMA DecodeReturns ==
  ASSUME NEW events \in Seq(SomeEvent), NEW first \in Nat, NEW b, Carries(b, events, first),
         b.size <= MAX_UDP_DATA_FIELD_SIZE
  PROVE  Decode(b) \in DecoderState /\ ReadInv(b, events, first, Decode(b))
<1> DEFINE k == Len(events)  all == Len(b.records) + 1
           start == [bytesRead |-> 4, events |-> <<>>,
                     throws |-> FALSE, outside |-> FALSE, stopped |-> FALSE]
           f == CHOOSE f : f = [n \in 0 .. all |-> IF n = 0 THEN start ELSE ReadEvent(b, f[n - 1])]
           G == [p \in (1 .. all) \X DecoderState |-> ReadEvent(b, p[2])]
<1>1. all \in Nat
  BY DEF Carries
<1>2. start \in DecoderState
  BY DEF DecoderState
<1>3. ReadInv(b, events, first, start)
  <2>1. Written(events)[0] = 4 /\ 0 \in 0 .. k
    BY Offsets
  <2> QED BY <2>1 DEF ReadInv
<1>4. Decode(b) = f[all]
  BY DEF Decode
<1> HIDE DEF start, all
<1>5. \A n \in 1 .. all : \A s \in DecoderState :
         G[<<n, s>>] \in DecoderState /\ G[<<n, s>>] = ReadEvent(b, s)
  BY ReadKeepsTypes
<1> HIDE DEF G
<1>6. PICK g : g \in [0 .. all -> DecoderState] /\ IsRecursive(g, all, start, G)
  <2>1. StaysIn(DecoderState, all, G)
    BY <1>5 DEF StaysIn
  <2> QED BY <1>1, <1>2, <2>1, RecursionIn
<1>7. g[0] = start /\ \A n \in 1 .. all : g[n] = ReadEvent(b, g[n - 1])
  <2>1. g[0] = start /\ \A n \in 1 .. all : g[n] = G[<<n, g[n - 1]>>]
    BY <1>1, <1>6 DEF IsRecursive
  <2>2. \A n \in 1 .. all : g[n - 1] \in DecoderState
    BY <1>1, <1>6
  <2> QED BY <1>5, <2>1, <2>2, Zenon
<1>8. g = [n \in 0 .. all |-> IF n = 0 THEN start ELSE ReadEvent(b, g[n - 1])]
  BY <1>1, <1>6, <1>7
<1>9. f = [n \in 0 .. all |-> IF n = 0 THEN start ELSE ReadEvent(b, f[n - 1])]
  BY <1>8
<1> HIDE DEF f
<1>10. f[0] = start /\ \A n \in 1 .. all : f[n] = ReadEvent(b, f[n - 1])
  BY <1>1, <1>9
<1> DEFINE I == {n \in 0 .. all : f[n] \in DecoderState /\ ReadInv(b, events, first, f[n])}
<1>11. 0 \in I
  BY <1>1, <1>2, <1>3, <1>10
<1>12. ASSUME NEW n \in 1 .. all, n - 1 \in I PROVE n \in I
  <2>1. f[n - 1] \in DecoderState /\ ReadInv(b, events, first, f[n - 1]) /\ f[n] = ReadEvent(b, f[n - 1])
    BY <1>10, <1>12
  <2>2. f[n] \in DecoderState /\ ReadInv(b, events, first, f[n])
    BY <2>1, ReadKeeps, ReadKeepsTypes
  <2> QED BY <1>1, <2>2
<1>13. \A n \in 0 .. all : n \in I
  <2> HIDE DEF I
  <2> QED BY <1>1, <1>11, <1>12, InductionTo
<1> QED BY <1>1, <1>4, <1>13

-----------------------------------------------------------------------------
(* The names of the players *)

\* What is written by EventNewGame is read back as it was.
LEMMA NamesAreRead ==
  ASSUME NEW count \in Nat
  PROVE  NamesIn(PlayersField(count)) = [i \in 1 .. count |-> i]
<1> DEFINE field == PlayersField(count)  all == Len(field)
           Read(n, s) == IF field[n] = Nul THEN s ELSE Append(s, field[n])
           f == CHOOSE f : f = [n \in 0 .. all |-> IF n = 0 THEN <<>> ELSE Read(n, f[n - 1])]
           G == [p \in (1 .. all) \X Seq(Nat) |-> Read(p[1], p[2])]
<1>1. all = 2 * count /\ all \in Nat /\ \A n \in 1 .. all : field[n] \in Nat
  BY DEF PlayersField, Nul
<1>2. \A j \in 1 .. count :
         /\ 2 * j \in 1 .. all /\ 2 * j - 1 \in 1 .. all
         /\ field[2 * j] = Nul /\ field[2 * j - 1] = j
  <2>1. ASSUME NEW j \in 1 .. count
        PROVE  /\ 2 * j \in 1 .. 2 * count /\ 2 * j - 1 \in 1 .. 2 * count
               /\ (2 * j) % 2 = 0 /\ (2 * j - 1) % 2 = 1 /\ ((2 * j - 1) + 1) \div 2 = j
    OBVIOUS
  <2> QED BY <1>1, <2>1 DEF PlayersField
<1>3. NamesIn(field) = f[all]
  BY DEF NamesIn
<1> HIDE DEF field, all
<1>4. \A n \in 1 .. all : \A s \in Seq(Nat) :
         G[<<n, s>>] \in Seq(Nat) /\ G[<<n, s>>] = Read(n, s)
  BY <1>1
<1> HIDE DEF G, Read
<1>5. PICK g : g \in [0 .. all -> Seq(Nat)] /\ IsRecursive(g, all, <<>>, G)
  <2>1. <<>> \in Seq(Nat) /\ StaysIn(Seq(Nat), all, G)
    BY <1>4 DEF StaysIn
  <2> QED BY <1>1, <2>1, RecursionIn
<1>6. g[0] = <<>> /\ \A n \in 1 .. all : g[n] = Read(n, g[n - 1])
  <2>1. g[0] = <<>> /\ \A n \in 1 .. all : g[n] = G[<<n, g[n - 1]>>]
    BY <1>1, <1>5 DEF IsRecursive
  <2>2. \A n \in 1 .. all : g[n - 1] \in Seq(Nat)
    BY <1>1, <1>5
  <2> QED BY <1>4, <2>1, <2>2, Zenon
<1>7. g = [n \in 0 .. all |-> IF n = 0 THEN <<>> ELSE Read(n, g[n - 1])]
  BY <1>1, <1>5, <1>6
<1>8. f = [n \in 0 .. all |-> IF n = 0 THEN <<>> ELSE Read(n, f[n - 1])]
  BY <1>7
<1> HIDE DEF f
<1>9. f[0] = <<>> /\ \A n \in 1 .. all : f[n] = Read(n, f[n - 1])
  BY <1>1, <1>8
<1> DEFINE I == {j \in 0 .. count : f[2 * j] = [i \in 1 .. j |-> i]}
<1>10. 0 \in I
  BY <1>9
<1>11. ASSUME NEW j \in 1 .. count, j - 1 \in I PROVE j \in I
  <2> DEFINE names == [i \in 1 .. j - 1 |-> i]
  <2>1. f[2 * (j - 1)] = names
    BY <1>11
  <2>2. 2 * (j - 1) = (2 * j - 1) - 1
    OBVIOUS
  <2> HIDE DEF names
  <2>3. f[2 * j - 1] = Append(names, j)
    <3>1. f[2 * j - 1] = Read(2 * j - 1, f[(2 * j - 1) - 1])
      BY <1>2, <1>9
    <3>2. f[(2 * j - 1) - 1] = names
      BY <2>1, <2>2
    <3>3. j # Nul
      BY DEF Nul
    <3> QED BY <1>2, <3>1, <3>2, <3>3 DEF Read
  <2>4. f[2 * j] = f[2 * j - 1]
    BY <1>2, <1>9 DEF Read
  <2>5. Append(names, j) = [i \in 1 .. j |-> i]
    BY DEF names
  <2> QED BY <2>3, <2>4, <2>5
<1>12. \A j \in 0 .. count : j \in I
  <2> HIDE DEF I
  <2> QED BY <1>10, <1>11, InductionTo
<1>13. f[2 * count] = [i \in 1 .. count |-> i]
  BY <1>12
<1> QED BY <1>1, <1>3, <1>13 DEF field

\* The names are numbered in their order, from zero.
LEMMA NumbersOfNames ==
  ASSUME NEW count \in Nat
  PROVE  /\ PlayersAreSound(PlayersField(count))
         /\ \A name \in 1 .. count : \E number \in DOMAIN ParsedPlayers(PlayersField(count)) :
               /\ ParsedPlayers(PlayersField(count))[number] = name
               /\ number = Cardinality({other \in 1 .. count : other < name})
<1> DEFINE field == PlayersField(count)  names == NamesIn(field)
<1>1. names = [i \in 1 .. count |-> i]
  BY NamesAreRead
<1> HIDE DEF names, field
<1>2. DOMAIN names = 1 .. count /\ Len(names) = count /\ \A i \in 1 .. count : names[i] = i
  BY <1>1
<1>3. PlayersAreSound(field)
  BY <1>2 DEF PlayersAreSound, names
<1>4. ParsedPlayers(field) = [number \in 0 .. count - 1 |-> names[number + 1]]
  BY <1>2 DEF ParsedPlayers, names
<1>5. ASSUME NEW name \in 1 .. count
      PROVE  /\ name - 1 \in DOMAIN ParsedPlayers(field)
             /\ ParsedPlayers(field)[name - 1] = name
             /\ name - 1 = Cardinality({other \in 1 .. count : other < name})
  <2>1. name - 1 \in 0 .. count - 1 /\ (name - 1) + 1 = name
    OBVIOUS
  <2>2. {other \in 1 .. count : other < name} = 1 .. name - 1
    OBVIOUS
  <2>3. 1 \in Int /\ name - 1 \in Int /\ Cardinality(1 .. name - 1) = name - 1
    <3>1. 1 \in Int /\ name - 1 \in Int
      OBVIOUS
    <3>2. Cardinality(1 .. name - 1) = IF 1 > name - 1 THEN 0 ELSE (name - 1) - 1 + 1
      BY <3>1, FS_Interval
    <3> QED BY <3>1, <3>2
  <2> QED BY <1>2, <1>4, <2>1, <2>2, <2>3
<1> QED BY <1>3, <1>5 DEF field

-----------------------------------------------------------------------------
(* The invariants *)

\* Behind NEW_GAME there are only the small events.
IsGame(events) ==
    /\ events \in Seq(SomeEvent) /\ Len(events) > 0
    /\ \A i \in 2 .. Len(events) : events[i] \in Others

LogInv == IsGame(log)

\* The client has the first events of the game, and no more.
GotInv ==
    /\ got \in Seq(Decoded) /\ Len(got) <= Len(log)
    /\ \A i \in 1 .. Len(got) : got[i] = [eventNo |-> i - 1, event |-> log[i]]

Picked == SubSeq(Pending, 1, FromEvents(Pending))

\* The datagram carries the events that follow, as many as fit.
BufferInv ==
    buffer # NoBuffer =>
        /\ FromEvents(Pending) > 0
        /\ Carries(buffer, Picked, Len(got))
        /\ \A n \in 1 .. Len(Picked) :
             buffer.records[n].len # EncodedSize(Picked[n]) - 8 => misled

DamageInv ==
    damages \in 0 .. MaxDamages /\ misled \in BOOLEAN /\ ended \in BOOLEAN /\ (ended => misled)

\* The latest message was judged by the server's rule.
ArrivedInv ==
    \E size \in Nat, turn \in Nat, sound \in BOOLEAN, accepted \in BOOLEAN :
        /\ arrived = [size |-> size, turn |-> turn, sound |-> sound, accepted |-> accepted]
        /\ accepted = Accepts(size, turn, sound)

Inv == LogInv /\ GotInv /\ BufferInv /\ DamageInv /\ ArrivedInv

\* The tail of a game, and so what is pending, is a run of events whose first alone may
\* be NEW_GAME.
LEMMA PendingIs ==
  ASSUME LogInv, GotInv
  PROVE  /\ Pending \in Seq(SomeEvent) /\ Len(Pending) = Len(log) - Len(got)
         /\ \A i \in 1 .. Len(Pending) : Pending[i] = log[Len(got) + i]
         /\ \A i \in 2 .. Len(Pending) : Pending[i] \in Others
<1> DEFINE n == Len(got)  all == Len(log)
<1>1. n \in Nat /\ all \in Nat /\ n <= all /\ log \in Seq(SomeEvent)
  BY DEF LogInv, IsGame, GotInv
<1>2. /\ Pending \in Seq(SomeEvent) /\ Len(Pending) = all - n
      /\ \A i \in 1 .. all - n : Pending[i] = log[n + i]
  <2> HIDE DEF n, all
  <2>1. Pending = SubSeq(log, n + 1, all)
    BY DEF Pending, n, all
  <2>2. \A i \in n + 1 .. all : i \in 1 .. Len(log)
    BY <1>1 DEF all
  <2>3. all <= Len(log)
    BY <1>1 DEF all
  <2>4. SubSeq(log, n + 1, all) \in Seq(SomeEvent) /\ Len(SubSeq(log, n + 1, all)) = all - n
    BY <1>1, <2>2, <2>3
  <2>5. ASSUME NEW i \in 1 .. all - n PROVE SubSeq(log, n + 1, all)[i] = log[n + i]
    BY <1>1, <2>2, <2>3
  <2> QED BY <2>1, <2>4, <2>5
<1>3. ASSUME NEW i \in 2 .. all - n PROVE Pending[i] \in Others
  <2>1. n + i \in 2 .. all /\ i \in 1 .. all - n
    BY <1>1
  <2> QED BY <1>2, <2>1 DEF LogInv, IsGame
<1> QED BY <1>2, <1>3

\* Those picked are the next events of the game, and their offsets are those of Pending.
LEMMA PickedIs ==
  ASSUME LogInv, GotInv, NEW k, k = FromEvents(Pending)
  PROVE  /\ k \in 0 .. Len(Pending) /\ Picked \in Seq(SomeEvent) /\ Len(Picked) = k
         /\ \A i \in 1 .. k : Picked[i] = log[Len(got) + i]
         /\ Written(Picked)[k] = Written(Pending)[k]
<1>1. Pending \in Seq(SomeEvent) /\ \A i \in 1 .. Len(Pending) : Pending[i] = log[Len(got) + i]
  BY PendingIs
<1>2. k \in 0 .. Len(Pending)
  BY <1>1, Picks
<1>3. Picked = SubSeq(Pending, 1, k)
  BY DEF Picked
<1>4. /\ Picked \in Seq(SomeEvent) /\ Len(Picked) = k
      /\ \A i \in 1 .. k : Picked[i] = Pending[i]
      /\ \A i \in 0 .. k : Written(Picked)[i] = Written(Pending)[i]
  BY <1>1, <1>2, <1>3, OffsetsOfFront
<1> HIDE DEF Picked, Pending
<1> QED BY <1>1, <1>2, <1>4

\* The datagram is as long as the offset at its end, which Picks bounds.
LEMMA BufferFits ==
  ASSUME LogInv, GotInv, BufferInv
  PROVE  buffer.size \in 0 .. MAX_UDP_DATA_FIELD_SIZE
<1>1. CASE buffer = NoBuffer
  BY <1>1 DEF NoBuffer, MAX_UDP_DATA_FIELD_SIZE
<1>2. CASE buffer # NoBuffer
  <2> DEFINE k == FromEvents(Pending)
  <2>1. Carries(buffer, Picked, Len(got))
    BY <1>2 DEF BufferInv
  <2>2. Len(Picked) = k /\ Written(Picked)[k] = Written(Pending)[k]
    BY PickedIs
  <2>3. Written(Pending)[k] <= MAX_UDP_DATA_FIELD_SIZE
    BY PendingIs, Picks
  <2>4. buffer.size = Written(Picked)[k] /\ buffer.size \in Nat
    BY <2>1, <2>2 DEF Carries
  <2>5. buffer.size = Written(Pending)[k]
    BY <2>2, <2>4
  <2> HIDE DEF k, Pending
  <2> QED BY <2>3, <2>4, <2>5 DEF MAX_UDP_DATA_FIELD_SIZE
<1> QED BY <1>1, <1>2

\* A game goes on with small events.
LEMMA GameGrows ==
  ASSUME NEW s, IsGame(s), NEW t \in Seq(Others)
  PROVE  IsGame(s \o t)
<1>1. t \in Seq(SomeEvent) /\ s \in Seq(SomeEvent)
  BY DEF IsGame, SomeEvent
<1>2. s \o t \in Seq(SomeEvent) /\ Len(s \o t) = Len(s) + Len(t) /\ Len(s) > 0
  BY <1>1 DEF IsGame
<1>3. ASSUME NEW i \in 2 .. Len(s \o t) PROVE (s \o t)[i] \in Others
  <2>1. CASE i <= Len(s)
    <3>1. (s \o t)[i] = s[i]
      BY <1>1, <1>2, <2>1
    <3> QED BY <1>1, <2>1, <3>1 DEF IsGame
  <2>2. CASE i > Len(s)
    <3>1. (s \o t)[i] = t[i - Len(s)] /\ i - Len(s) \in 1 .. Len(t)
      BY <1>1, <1>2, <2>2
    <3> QED BY <3>1
  <2> QED BY <1>1, <2>1, <2>2
<1> QED BY <1>1, <1>2, <1>3 DEF IsGame

\* A game is NEW_GAME and runs of small events, and nothing of it has been sent.
LEMMA InitInv == Init => Inv
<1> SUFFICES ASSUME Init PROVE Inv
  OBVIOUS
<1>0. got = <<>> /\ buffer = NoBuffer /\ damages = 0 /\ misled = FALSE
      /\ ended = FALSE /\ arrived = NothingArrived
  BY DEF Init
<1>1. LogInv
  <2>1. PICK n \in PlayerCounts, length \in NameLengths, p, q, r \in Runs :
          log = <<NewGame(n, length)>>
                \o [i \in 1 .. p |-> Pixel] \o [i \in 1 .. q |-> PlayerEliminated]
                \o [i \in 1 .. r |-> Pixel] \o <<GameOver>>
    BY DEF Init
  <2> DEFINE first == <<NewGame(n, length)>>  a == [i \in 1 .. p |-> Pixel]
             b == [i \in 1 .. q |-> PlayerEliminated]  c == [i \in 1 .. r |-> Pixel]
             last == <<GameOver>>
  <2>2. IsGame(first)
    <3>1. NewGame(n, length) \in SomeEvent
      BY DEF SomeEvent, Openings
    <3> HIDE DEF SomeEvent
    <3> QED BY <3>1 DEF IsGame
  <2>3. a \in Seq(Others) /\ b \in Seq(Others) /\ c \in Seq(Others) /\ last \in Seq(Others)
    <3>1. p \in Nat /\ q \in Nat /\ r \in Nat
      BY RunsAssumption
    <3>2. Pixel \in Others /\ PlayerEliminated \in Others /\ GameOver \in Others
      BY DEF Others
    <3> HIDE DEF Others
    <3> QED BY <3>1, <3>2
  <2>4. log = first \o a \o b \o c \o last
    BY <2>1
  <2> HIDE DEF first, a, b, c, last
  <2>5. IsGame(first \o a)
    BY <2>2, <2>3, GameGrows
  <2>6. IsGame(first \o a \o b)
    BY <2>3, <2>5, GameGrows
  <2>7. IsGame(first \o a \o b \o c)
    BY <2>3, <2>6, GameGrows
  <2> QED BY <2>3, <2>4, <2>7, GameGrows DEF LogInv
<1>2. GotInv
  <2>1. got = <<>> /\ Len(log) > 0 /\ Len(log) \in Nat
    BY <1>0, <1>1 DEF LogInv, IsGame
  <2>2. got \in Seq(Decoded) /\ Len(got) = 0
    BY <2>1
  <2> QED BY <2>1, <2>2 DEF GotInv
<1>3. BufferInv /\ DamageInv
  <2>1. BufferInv
    BY <1>0 DEF BufferInv
  <2>2. damages \in 0 .. MaxDamages
    BY <1>0, RunsAssumption
  <2>3. ended \in BOOLEAN /\ ~ended /\ misled \in BOOLEAN
    BY <1>0, Zenon
  <2> QED BY <2>1, <2>2, <2>3, Zenon DEF DamageInv
<1>4. ArrivedInv
  BY <1>0 DEF NothingArrived, ArrivedInv, Accepts
<1> QED BY <1>1, <1>2, <1>3, <1>4 DEF Inv

\* Send: the next datagram is the encoding of what fromEvents picks, which is not nothing.
LEMMA SendInv ==
  ASSUME Inv, Send
  PROVE  Inv'
<1> USE DEF Inv
<1> DEFINE k == FromEvents(Pending)
<1>1. /\ buffer' = Encode(Picked, Len(got)) /\ Pending # <<>> /\ arrived' = NothingArrived
      /\ UNCHANGED <<log, got, damages, misled, ended>>
  BY DEF Send, Picked
<1>2. Pending' = Pending /\ Picked' = Picked
  BY <1>1 DEF Pending, Picked
<1>3. Pending \in Seq(SomeEvent) /\ Picked \in Seq(SomeEvent) /\ Len(Picked) = k
  BY PendingIs, PickedIs
<1>4. k > 0
  <2>1. Len(Pending) # 0
    BY <1>1, <1>3
  <2>2. k \in 0 .. Len(Pending) /\ k # 0
    BY <1>3, <2>1, Picks
  <2> QED BY <1>3, <2>2
<1>5. BufferInv'
  <2>1. Len(got) \in Nat
    BY DEF GotInv
  <2>2. /\ Carries(Encode(Picked, Len(got)), Picked, Len(got))
        /\ \A n \in 1 .. Len(Picked) :
             Encode(Picked, Len(got)).records[n].len = EncodedSize(Picked[n]) - 8
    BY <1>3, <2>1, EncodeCarries DEF Carries
  <2> HIDE DEF Picked, Pending
  <2> QED BY <1>1, <1>2, <1>4, <2>2 DEF BufferInv
<1>6. LogInv' /\ GotInv' /\ DamageInv'
  BY <1>1 DEF LogInv, GotInv, DamageInv
<1>7. ArrivedInv'
  BY <1>1 DEF ArrivedInv, NothingArrived, Accepts
<1> QED BY <1>5, <1>6, <1>7

\* Damage: the record keeps all but its length, and it is counted.
LEMMA DamageKeepsInv ==
  ASSUME Inv, Damage
  PROVE  Inv'
<1> USE DEF Inv
<1>0. PICK n \in DOMAIN buffer.records : \E len \in Lengths \cup {buffer.records[n].len} :
        /\ buffer' = [buffer EXCEPT !.records[n].intact = FALSE, !.records[n].len = len]
        /\ misled' = (misled \/ len # buffer.records[n].len)
  BY DEF Damage
<1>1. PICK len \in Lengths \cup {buffer.records[n].len} :
        /\ buffer' = [buffer EXCEPT !.records[n].intact = FALSE, !.records[n].len = len]
        /\ misled' = (misled \/ len # buffer.records[n].len)
  BY <1>0
<1>2. damages < MaxDamages /\ damages' = damages + 1 /\ UNCHANGED <<log, got, ended, arrived>>
  BY DEF Damage
<1>3. damages \in Nat /\ damages' \in Nat /\ damages' > 0 /\ damages' \in 0 .. MaxDamages
  BY <1>2, RunsAssumption DEF DamageInv
<1>4. Pending' = Pending /\ Picked' = Picked
  BY <1>2 DEF Pending, Picked
<1>5. /\ buffer # NoBuffer /\ FromEvents(Pending) > 0
      /\ Carries(buffer, Picked, Len(got))
  <2>1. NoBuffer.records = <<>> /\ DOMAIN NoBuffer.records = {}
    BY DEF NoBuffer
  <2>2. buffer # NoBuffer
    BY <1>1, <2>1
  <2> QED BY <2>2 DEF BufferInv
<1> DEFINE r == buffer.records[n]
           damaged == [r EXCEPT !.intact = FALSE, !.len = len]
           all == buffer.records
           after == [all EXCEPT ![n] = damaged]
<1>6. all \in Seq(SomeRecord) /\ DOMAIN all = 1 .. Len(Picked) /\ r \in SomeRecord
      /\ Len(all) = Len(Picked)
  BY <1>1, <1>5 DEF Carries
<1>7. len \in Nat
  BY <1>1, <1>6, WordAssumption DEF SomeRecord
<1>8. /\ damaged \in SomeRecord /\ damaged.at = r.at /\ damaged.eventNo = r.eventNo
      /\ damaged.event = r.event /\ ~damaged.intact /\ damaged.len = len
  <2> HIDE DEF r
  <2> QED BY <1>6, <1>7 DEF SomeRecord
<1>9. buffer' = [buffer EXCEPT !.records = after]
  BY <1>1, <1>5, <1>6 DEF Carries, SomeRecord
<1> HIDE DEF damaged
<1>10. /\ after \in Seq(SomeRecord) /\ Len(after) = Len(Picked)
       /\ \A i \in 1 .. Len(Picked) : after[i] = IF i = n THEN damaged ELSE all[i]
  BY <1>6, <1>8
<1>11. buffer'.size = buffer.size /\ buffer'.records = after
       /\ buffer' \in [size : Nat, records : Seq(SomeRecord)]
  <2> HIDE DEF after
  <2> QED BY <1>5, <1>9, <1>10 DEF Carries
<1>12. Carries(buffer', Picked, Len(got))
  <2> HIDE DEF after
  <2>1. ASSUME NEW i \in 1 .. Len(Picked)
        PROVE  /\ after[i].at = all[i].at /\ after[i].eventNo = all[i].eventNo
               /\ after[i].event = all[i].event
               /\ after[i].intact => after[i] = all[i]
    BY <1>8, <1>10
  <2> HIDE DEF Picked
  <2> QED BY <1>5, <1>10, <1>11, <2>1, ZenonT(60) DEF Carries
<1>13. BufferInv'
  <2>1. ASSUME NEW i \in 1 .. Len(Picked), after[i].len # EncodedSize(Picked[i]) - 8
        PROVE  misled'
    <3>1. CASE all[i].len # EncodedSize(Picked[i]) - 8
      BY <1>1, <1>5, <3>1 DEF BufferInv
    <3>2. CASE all[i].len = EncodedSize(Picked[i]) - 8
      <4>1. i = n /\ after[i].len = len
        BY <1>8, <1>10, <2>1, <3>2
      <4> QED BY <1>1, <2>1, <3>2, <4>1
    <3> QED BY <3>1, <3>2
  <2> HIDE DEF Picked, Pending, after
  <2> QED BY <1>2, <1>4, <1>5, <1>11, <1>12, <2>1 DEF BufferInv
<1>14. LogInv' /\ GotInv' /\ ArrivedInv'
  BY <1>2 DEF LogInv, GotInv, ArrivedInv
<1>15. DamageInv'
  <2>1. misled' \in BOOLEAN /\ (misled => misled')
    BY <1>1, Zenon
  <2> QED BY <1>2, <1>3, <2>1, Zenon DEF DamageInv
<1> QED BY <1>13, <1>14, <1>15

\* Receive: what is decoded follows what the client has.
LEMMA ReceiveInv ==
  ASSUME Inv, Receive
  PROVE  Inv'
<1> USE DEF Inv
<1> DEFINE d == Decode(buffer)  n == Len(got)
<1>1. /\ buffer # NoBuffer /\ buffer' = NoBuffer /\ UNCHANGED <<log, damages, misled, arrived>>
      /\ \/ (d.throws \/ d.outside) /\ ended' = TRUE /\ UNCHANGED got
         \/ ~d.throws /\ got' = got \o d.events /\ UNCHANGED ended
  BY DEF Receive
<1>2. /\ Picked \in Seq(SomeEvent) /\ Len(Picked) \in 0 .. Len(log) - n /\ n \in Nat
      /\ \A i \in 1 .. Len(Picked) : Picked[i] = log[n + i]
  <2>1. Len(Pending) = Len(log) - n
    BY PendingIs
  <2>2. n \in Nat
    BY DEF GotInv
  <2> HIDE DEF Picked, n
  <2>3. /\ Picked \in Seq(SomeEvent) /\ Len(Picked) \in 0 .. Len(Pending)
        /\ \A i \in 1 .. Len(Picked) : Picked[i] = log[n + i]
    BY PickedIs DEF n
  <2> QED BY <2>1, <2>2, <2>3
<1>3. d \in DecoderState /\ ReadInv(buffer, Picked, n, d)
  <2>1. Carries(buffer, Picked, n)
    BY <1>1 DEF BufferInv
  <2>2. buffer.size <= MAX_UDP_DATA_FIELD_SIZE
    BY BufferFits DEF MAX_UDP_DATA_FIELD_SIZE
  <2> QED BY <1>2, <2>1, <2>2, DecodeReturns
<1> HIDE DEF d
<1>4. LogInv' /\ BufferInv' /\ ArrivedInv'
  BY <1>1 DEF LogInv, BufferInv, ArrivedInv
<1>5. CASE (d.throws \/ d.outside) /\ ended' = TRUE /\ UNCHANGED got
  <2>1. \E i \in 1 .. Len(Picked) : buffer.records[i].len # EncodedSize(Picked[i]) - 8
    BY <1>3, <1>5 DEF ReadInv
  <2>2. misled
    BY <1>1, <2>1 DEF BufferInv
  <2>3. ended' \in BOOLEAN /\ got' = got
    BY <1>5, Zenon
  <2>4. DamageInv'
    BY <1>1, <2>2, <2>3, Zenon DEF DamageInv
  <2>5. GotInv'
    BY <1>1, <2>3 DEF GotInv
  <2> QED BY <1>4, <2>4, <2>5
<1>6. CASE ~d.throws /\ got' = got \o d.events /\ UNCHANGED ended
  <2> DEFINE more == d.events
  <2>1. got' = got \o more /\ ended' = ended
    BY <1>6
  <2>2. /\ more \in Seq(Decoded) /\ Len(more) \in 0 .. Len(Picked)
        /\ \A i \in 1 .. Len(more) : more[i] = [eventNo |-> n + i - 1, event |-> Picked[i]]
    <3>1. more \in Seq(Decoded)
      BY <1>3 DEF DecoderState
    <3> HIDE DEF Picked, more
    <3> QED BY <1>3, <3>1 DEF ReadInv, more
  <2>3. /\ got \in Seq(Decoded) /\ Len(log) \in Nat
        /\ \A i \in 1 .. n : got[i] = [eventNo |-> i - 1, event |-> log[i]]
    BY DEF GotInv, LogInv, IsGame
  <2> HIDE DEF more, Picked
  <2>4. got' \in Seq(Decoded) /\ Len(got') = n + Len(more) /\ Len(got') <= Len(log)
    BY <1>2, <2>1, <2>2, <2>3
  <2>5. ASSUME NEW i \in 1 .. Len(got')
        PROVE  got'[i] = [eventNo |-> i - 1, event |-> log[i]]
    <3>1. CASE i <= n
      <4>1. i \in 1 .. n /\ (got \o more)[i] = got[i]
        BY <1>2, <2>2, <2>3, <2>4, <3>1
      <4> QED BY <2>1, <2>3, <4>1
    <3>2. CASE i > n
      <4>1. PICK j \in 1 .. Len(more) : i = n + j
        <5>1. i - n \in 1 .. Len(more) /\ i = n + (i - n)
          BY <1>2, <2>2, <2>4, <3>2
        <5> QED BY <5>1
      <4>2. (got \o more)[i] = more[j]
        BY <1>2, <2>2, <2>3, <4>1
      <4>3. j \in 1 .. Len(Picked)
        BY <1>2, <2>2, <4>1
      <4>4. more[j] = [eventNo |-> n + j - 1, event |-> log[n + j]]
        BY <1>2, <2>2, <4>3
      <4> QED BY <2>1, <4>1, <4>2, <4>4
    <3> QED BY <1>2, <2>2, <2>4, <3>1, <3>2
  <2>6. GotInv'
    BY <1>1, <2>4, <2>5 DEF GotInv
  <2>7. DamageInv'
    BY <1>1, <2>1, Zenon DEF DamageInv
  <2> QED BY <1>4, <2>6, <2>7
<1> QED BY <1>1, <1>5, <1>6

\* Arrive: the message is judged, and nothing else happens.
LEMMA ArriveInv ==
  ASSUME Inv, Arrive
  PROVE  Inv'
<1>1. UNCHANGED <<log, got, buffer, damages, misled, ended>>
  BY DEF Arrive
<1>2. LogInv' /\ GotInv' /\ BufferInv' /\ DamageInv'
  BY <1>1 DEF Inv, LogInv, GotInv, BufferInv, DamageInv, Picked, Pending
<1>3. ArrivedInv'
  <2>1. PICK size \in Nat, turn \in Nat, sound \in BOOLEAN :
          arrived' = [size |-> size, turn |-> turn, sound |-> sound,
                      accepted |-> Accepts(size, turn, sound)]
    BY DEF Arrive
  <2>2. Accepts(size, turn, sound) \in BOOLEAN
    BY Zenon DEF Accepts
  <2> QED BY <2>1, <2>2, Zenon DEF ArrivedInv
<1> QED BY <1>2, <1>3 DEF Inv

\* Together they are inductive: the game, the datagram on its way and what the client
\* has of both agree at every step.
THEOREM InvHolds == Spec => []Inv
<1>1. ASSUME Inv, UNCHANGED vars PROVE Inv'
  <2>1. UNCHANGED <<log, got, buffer, damages, misled, ended, arrived>>
    BY <1>1 DEF vars
  <2>2. LogInv' /\ GotInv' /\ BufferInv' /\ DamageInv'
    BY <1>1, <2>1 DEF Inv, LogInv, GotInv, BufferInv, DamageInv, Picked, Pending
  <2>3. ArrivedInv'
    BY <1>1, <2>1 DEF Inv, ArrivedInv
  <2> QED BY <2>2, <2>3 DEF Inv
<1>2. Inv /\ [Next]_vars => Inv'
  BY <1>1, SendInv, DamageKeepsInv, ReceiveInv, ArriveInv DEF Next
<1> QED BY InitInv, <1>2, PTL DEF Spec

-----------------------------------------------------------------------------
(* The theorems *)

\* Of BufferInv: what the records take is what Written counts, and fromEvents stopped there.
LEMMA AreFull == Inv => AsManyAsFit
<1> SUFFICES ASSUME Inv, buffer # NoBuffer
             PROVE  /\ Len(buffer.records) > 0
                    /\ \/ Len(buffer.records) = Len(Pending)
                       \/ SizeOf(SubSeq(Pending, 1, Len(buffer.records) + 1)) > MAX_UDP_DATA_FIELD_SIZE
  BY DEF AsManyAsFit
<1> DEFINE k == FromEvents(Pending)
<1>1. k > 0 /\ Carries(buffer, Picked, Len(got))
  BY DEF Inv, BufferInv
<1>2. k \in 0 .. Len(Pending) /\ Len(Picked) = k
  BY PickedIs DEF Inv
<1>3. Len(buffer.records) = k
  BY <1>1, <1>2 DEF Carries
<1>4. /\ Pending \in Seq(SomeEvent)
      /\ \A i \in 2 .. Len(Pending) : Pending[i] \in Others
  BY PendingIs DEF Inv
<1>5. k = Len(Pending) \/ Written(Pending)[k + 1] > MAX_UDP_DATA_FIELD_SIZE
  BY <1>4, Picks
<1>6. \A i \in 0 .. Len(Pending) : SizeOf(SubSeq(Pending, 1, i)) = Written(Pending)[i]
  BY <1>4, SizeIsWritten
<1>7. k # Len(Pending) => k + 1 \in 0 .. Len(Pending)
  BY <1>2, <1>4
<1> HIDE DEF k
<1> QED BY <1>1, <1>3, <1>5, <1>6, <1>7

LEMMA TypesAre == Inv => TypeOK
<1> SUFFICES ASSUME Inv PROVE TypeOK
  OBVIOUS
<1>1. Len(got) \in 0 .. Len(log)
  BY DEF Inv, GotInv, LogInv, IsGame
<1>2. buffer.size \in 0 .. MAX_UDP_DATA_FIELD_SIZE
  BY BufferFits DEF Inv
<1>3. damages \in 0 .. MaxDamages /\ misled \in BOOLEAN /\ ended \in BOOLEAN
  BY DEF Inv, DamageInv
<1>4. arrived.accepted \in BOOLEAN
  BY DEF Inv, ArrivedInv
<1> QED BY <1>1, <1>2, <1>3, <1>4 DEF TypeOK

\* Of GotInv and DamageInv
LEMMA AreDecodedAsSent == Inv => DecodedAsSent
<1> SUFFICES ASSUME Inv PROVE DecodedAsSent
  OBVIOUS
<1>1. DOMAIN got = 1 .. Len(got) /\ \A i \in 1 .. Len(got) : got[i] = [eventNo |-> i - 1, event |-> log[i]]
  BY DEF Inv, GotInv
<1>2. ended => misled
  BY DEF Inv, DamageInv
<1> QED BY <1>1, <1>2 DEF DecodedAsSent

\* Only NEW_GAME has that type, and it has a number of players.
LEMMA NumbersAgree == Inv => NumbersMeanTheSame
<1> SUFFICES ASSUME Inv, NEW i \in DOMAIN got, got[i].event.type = "NEW_GAME"
             PROVE  LET names   == 1 .. got[i].event.players
                        players == ParsedPlayers(PlayersField(got[i].event.players))
                    IN  /\ PlayersAreSound(PlayersField(got[i].event.players))
                        /\ \A name \in names : \E number \in DOMAIN players :
                              /\ players[number] = name
                              /\ number = Cardinality({other \in names : other < name})
  BY DEF NumbersMeanTheSame
<1>1. got[i].event \in SomeEvent
  <2>1. got \in Seq(Decoded) /\ DOMAIN got = 1 .. Len(got)
    BY DEF Inv, GotInv
  <2>2. got[i] \in Decoded
    BY <2>1
  <2> QED BY <2>2 DEF Decoded
<1>2. got[i].event \in Openings
  BY <1>1 DEF SomeEvent, Others, Pixel, PlayerEliminated, GameOver
<1>3. got[i].event.players \in Nat
  BY <1>2, CountsAssumption DEF Openings, NewGame, MAX_PLAYERS
<1> QED BY <1>3, NumbersOfNames, Zenon

\* A cut message keeps more bytes than the longest sound one, and is refused like it.
LEMMA AreSound == Inv => OnlySoundMessages
<1> SUFFICES ASSUME Inv PROVE OnlySoundMessages
  OBVIOUS
<1>1. PICK size \in Nat, turn \in Nat, sound \in BOOLEAN, accepted \in BOOLEAN :
        /\ arrived = [size |-> size, turn |-> turn, sound |-> sound, accepted |-> accepted]
        /\ accepted = Accepts(size, turn, sound)
  BY DEF Inv, ArrivedInv
<1>2. Accepts(size, turn, sound) <=> size \in 13 .. 33 /\ turn \in 0 .. 2 /\ sound
  BY DEF Accepts, BytesRead, INCOMING_MSG_BUFFER_SIZE
<1>3. size \in 13 .. 33 <=> \E nameLength \in 0 .. MAX_PLAYER_NAME_LENGTH : size = 13 + nameLength
  <2>1. ASSUME size \in 13 .. 33 PROVE size - 13 \in 0 .. 20 /\ size = 13 + (size - 13)
    BY <2>1
  <2> QED BY <2>1 DEF MAX_PLAYER_NAME_LENGTH
<1>4. /\ arrived.size = size /\ arrived.turn = turn /\ arrived.sound = sound
      /\ arrived.accepted = accepted
  BY <1>1
<1> QED BY <1>1, <1>2, <1>3, <1>4, Zenon DEF OnlySoundMessages

\* The lengths of what the client got and of every datagram stay within their bounds:
\* encode never writes past the array of MAX_UDP_DATA_FIELD_SIZE bytes.
THEOREM TypeCorrect == Spec => []TypeOK
BY InvHolds, TypesAre, PTL

\* fromEvents fills a datagram up with all that fits, one event at least.
THEOREM DatagramsFull == Spec => []AsManyAsFit
BY InvHolds, AreFull, PTL

\* The client decodes what was encoded, event for event, and ends only over a record whose
\* length was damaged; words of any size above that of a datagram.
THEOREM DecodedCorrect == Spec => []DecodedAsSent
BY InvHolds, AreDecodedAsSent, PTL

\* The client finds every name under the number the server gave it.
THEOREM NumbersCorrect == Spec => []NumbersMeanTheSame
BY InvHolds, NumbersAgree, PTL

\* The server accepts exactly the messages that a client can compose.
THEOREM MessagesSound == Spec => []OnlySoundMessages
BY InvHolds, AreSound, PTL
=============================================================================
