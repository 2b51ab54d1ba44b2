------------------------ MODULE AccountRoutingProofs ------------------------
(* AccountRouting for any number of accounts and requests, any ladder and  *)
(* any environment, and RoutingStrategies for any list of accounts and     *)
(* whatever the choices find.  First the strategies; then the types; then  *)
(* the slot invariant, one lemma for each way in which an action can move  *)
(* requests, slots and the configuration; then the theorems.               *)
EXTENDS Routing, Sums

-----------------------------------------------------------------------------
(* RoutingStrategies: the list, the cursor and the turns.                    *)

\* Every account of a list has a place of its own.
Listed(l) ==
    /\ l \in Seq(IDs)
    /\ \A i, j \in 1..Len(l) : l[i] = l[j] => i = j

\* The cursor is at a place of the list.
Pointed(l, c) == c \in 0..Len(l) /\ (l # <<>> => c < Len(l))

\* How many places the cursor has to go to the i-th account.
Away(l, c, i) == IF c <= i - 1 THEN i - 1 - c ELSE i - 1 - c + Len(l)

\* Whom the cursor has passed over it has come closer to, as often.
TurnOK(l, c, passed) ==
    /\ Listed(l) /\ Pointed(l, c) /\ passed \in [IDs -> Nat]
    /\ \A i \in 1..Len(l) : passed[l[i]] + Away(l, c, i) < Len(l)

\* Every choice that passes over a less used account costs one of the batch.
BatchOK(b, passes) ==
    /\ b.left \in Nat /\ passes \in Nat /\ passes + b.left < BatchSize

OrderInv ==
    /\ TurnOK(list, cursor, skipped) /\ BatchOK(batch, ahead)
    /\ strategy \in Order!Strategies /\ assigned \in [IDs -> Nat] /\ outdone = {}

LEMMA ListIs ==
    ASSUME NEW l, Listed(l)
    PROVE  /\ Len(l) \in Nat /\ DOMAIN l = 1..Len(l) /\ (l = <<>> <=> Len(l) = 0)
           /\ \A i \in 1..Len(l) : l[i] \in IDs
  BY DEF Listed

LEMMA InList ==
    ASSUME Listed(list), NEW a
    PROVE  a \in Order!ToSet(list) <=> \E i \in 1..Len(list) : list[i] = a
  BY ListIs DEF Order!ToSet

LEMMA PositionIs ==
    ASSUME Listed(list), NEW i \in 1..Len(list)
    PROVE  Order!Position(list[i]) = i - 1
  <1>1. i - 1 \in 0..(Len(list) - 1) /\ list[(i - 1) + 1] = list[i]
    BY ListIs
  <1>2. \A j \in 0..(Len(list) - 1) : list[j + 1] = list[i] => j = i - 1
    BY ListIs DEF Listed
  <1> QED
    BY <1>1, <1>2 DEF Order!Position

\* The remainders the code takes go once round the list at most.
LEMMA Round ==
    ASSUME NEW n \in Nat, NEW p \in 0..(n - 1), NEW c \in 0..(n - 1)
    PROVE  /\ (p - c + n) % n = IF c <= p THEN p - c ELSE p - c + n
           /\ (p + 1) % n = IF p + 1 = n THEN 0 ELSE p + 1
           /\ c % n = c
  <1>1. CASE c <= p
    BY <1>1
  <1>2. CASE ~(c <= p)
    BY <1>2
  <1> QED
    BY <1>1, <1>2

LEMMA DistanceIs ==
    ASSUME Listed(list), Pointed(list, cursor), NEW i \in 1..Len(list)
    PROVE  Order!Distance(list[i]) = Away(list, cursor, i)
  <1> DEFINE n == Len(list)
             p == i - 1
  <1>1. /\ n \in Nat /\ p \in 0..(n - 1) /\ cursor \in 0..(n - 1)
    BY ListIs DEF Pointed
  <1>2. Order!Distance(list[i]) = (p - cursor + n) % n
    BY PositionIs DEF Order!Distance
  <1>3. Away(list, cursor, i) = IF cursor <= p THEN p - cursor ELSE p - cursor + n
    BY DEF Away
  <1> HIDE DEF n, p
  <1> QED
    BY <1>1, <1>2, <1>3, Round

\* The turn of the w-th account: those that are passed over are no closer than
\* it is.
LEMMA TurnKeeps ==
    ASSUME NEW l, NEW c, NEW passed, TurnOK(l, c, passed), NEW w \in 1..Len(l),
           NEW passed2 \in [IDs -> Nat],
           \A i \in 1..Len(l) :
               passed2[l[i]] = 0 \/ (/\ passed2[l[i]] = passed[l[i]] + 1 /\ i # w
                                     /\ Away(l, c, w) <= Away(l, c, i)),
           NEW c2, c2 = IF w = Len(l) THEN 0 ELSE w
    PROVE  TurnOK(l, c2, passed2)
  <1>1. /\ Listed(l) /\ Len(l) \in Nat /\ l # <<>> /\ c \in 0..(Len(l) - 1)
        /\ \A i \in 1..Len(l) : l[i] \in IDs
    BY ListIs DEF TurnOK, Pointed
  <1>2. Pointed(l, c2)
    BY <1>1 DEF Pointed
  <1>3. ASSUME NEW i \in 1..Len(l)
        PROVE  passed2[l[i]] + Away(l, c2, i) < Len(l)
    <2>1. passed[l[i]] \in Nat /\ passed[l[i]] + Away(l, c, i) < Len(l)
      BY <1>1 DEF TurnOK
    <2>2. Away(l, c2, i) < Len(l) /\ Away(l, c2, i) \in Nat
      BY <1>1 DEF Away
    <2>3. i # w /\ Away(l, c, w) <= Away(l, c, i) => Away(l, c2, i) < Away(l, c, i)
      BY <1>1 DEF Away
    <2>4. Away(l, c, i) \in Nat
      BY <1>1 DEF Away
    <2> QED
      BY <1>1, <2>1, <2>2, <2>3, <2>4
  <1> QED
    BY <1>1, <1>2, <1>3 DEF TurnOK

\* Nobody has been passed over yet.
LEMMA TurnBegins ==
    ASSUME NEW l, Listed(l), NEW c, Pointed(l, c)
    PROVE  TurnOK(l, c, Order!Zero)
  <1>1. Order!Zero = [a \in IDs |-> 0]
    BY DEF Order!Zero
  <1>2. ASSUME NEW i \in 1..Len(l)
        PROVE  0 + Away(l, c, i) < Len(l)
    <2>1. Len(l) \in Nat /\ c \in 0..(Len(l) - 1)
      BY ListIs DEF Pointed
    <2> QED
      BY <2>1 DEF Away
  <1> QED
    BY <1>1, <1>2, ListIs DEF TurnOK

LEMMA RotateKeeps ==
    ASSUME OrderInv, NEW some \in SUBSET Order!ToSet(list), Order!Rotate(some)
    PROVE  TurnOK(list', cursor', skipped')
  <1>1. PICK a \in some :
           /\ \A b \in some : Order!Distance(a) <= Order!Distance(b)
           /\ cursor' = (Order!Position(a) + 1) % Len(list)
           /\ skipped' = [b \in IDs |-> IF b \in some \ {a} THEN skipped[b] + 1 ELSE 0]
    BY DEF Order!Rotate, Order!NextTurn
  <1>2. /\ list' = list /\ Listed(list) /\ Pointed(list, cursor)
        /\ TurnOK(list, cursor, skipped) /\ skipped \in [IDs -> Nat]
    BY DEF Order!Rotate, Order!config, OrderInv, TurnOK
  <1>3. PICK w \in 1..Len(list) : list[w] = a
    BY <1>2, InList
  <1>4. cursor' = IF w = Len(list) THEN 0 ELSE w
    <2>1. Len(list) \in Nat /\ w - 1 \in 0..(Len(list) - 1)
      BY <1>2, ListIs
    <2>2. cursor' = (w - 1 + 1) % Len(list)
      BY <1>1, <1>2, <1>3, PositionIs
    <2> QED
      BY <2>1, <2>2, Round
  <1>5. skipped' \in [IDs -> Nat]
    BY <1>1, <1>2
  <1>6. ASSUME NEW i \in 1..Len(list)
        PROVE  \/ skipped'[list[i]] = 0
               \/ /\ skipped'[list[i]] = skipped[list[i]] + 1 /\ i # w
                  /\ Away(list, cursor, w) <= Away(list, cursor, i)
    <2>1. list[i] \in IDs
      BY <1>2, ListIs
    <2>2. CASE list[i] \in some \ {a}
      <3>1. Order!Distance(list[w]) <= Order!Distance(list[i])
        BY <1>1, <1>3, <2>2
      <3> QED
        BY <1>1, <1>2, <1>3, <2>1, <2>2, <3>1, DistanceIs
    <2>3. CASE list[i] \notin some \ {a}
      BY <1>1, <2>1, <2>3
    <2> QED
      BY <2>2, <2>3
  <1> QED
    BY <1>2, <1>4, <1>5, <1>6, TurnKeeps

-----------------------------------------------------------------------------
(* The loop over the candidates, and the batch.                              *)

\* What the loop over the candidates has selected up to the n-th of a list.
SelectedUpTo(l, S, beats, n, f) ==
    f = [i \in 0..n |->
            IF i = 0 THEN NoOne
            ELSE IF l[i] \in S /\ (f[i - 1] = NoOne \/ <<l[i], f[i - 1]>> \in beats)
                 THEN l[i] ELSE f[i - 1]]

LEMMA SelectedIsDefined ==
    ASSUME NEW l, NEW S, NEW beats
    PROVE  \A n \in Nat : \E f : SelectedUpTo(l, S, beats, n, f)
  <1> DEFINE N == {n \in Nat : \E f : SelectedUpTo(l, S, beats, n, f)}
             Over(i, v) == IF l[i] \in S /\ (v = NoOne \/ <<l[i], v>> \in beats)
                           THEN l[i] ELSE v
  <1>1. 0 \in N
    <2>1. SelectedUpTo(l, S, beats, 0, [i \in 0..0 |-> NoOne])
      BY DEF SelectedUpTo
    <2> QED
      BY <2>1
  <1>2. ASSUME NEW n \in Nat, n \in N
        PROVE  n + 1 \in N
    <2>1. PICK f : SelectedUpTo(l, S, beats, n, f)
      BY <1>2
    <2> DEFINE last == Over(n + 1, f[n])
               g == [i \in 0..n + 1 |-> IF i = n + 1 THEN last ELSE f[i]]
    <2>2. /\ \A i \in 0..n : g[i] = f[i]
          /\ g[n + 1] = last
      OBVIOUS
    <2>3. \A i \in 0..n : f[i] = IF i = 0 THEN NoOne ELSE Over(i, f[i - 1])
      BY <2>1 DEF SelectedUpTo
    <2> DEFINE h == [i \in 0..n + 1 |-> IF i = 0 THEN NoOne ELSE Over(i, g[i - 1])]
    <2>4. ASSUME NEW i \in 0..n + 1
          PROVE  g[i] = IF i = 0 THEN NoOne ELSE Over(i, g[i - 1])
      <3>1. CASE i = n + 1
        <4>1. g[i - 1] = f[n] /\ i # 0
          BY <2>2, <3>1
        <4> HIDE DEF g, Over
        <4> QED
          BY <2>2, <3>1, <4>1
      <3>2. CASE i \in 0..n
        <4>1. g[i] = f[i] /\ (i # 0 => g[i - 1] = f[i - 1])
          BY <2>2, <3>2
        <4> HIDE DEF g, Over
        <4> QED
          BY <2>3, <3>2, <4>1
      <3> QED
        BY <3>1, <3>2
    <2>5. g = h
      <3>1. g = [i \in 0..n + 1 |-> g[i]]
        OBVIOUS
      <3> HIDE DEF g
      <3> QED
        BY <2>4, <3>1
    <2>6. SelectedUpTo(l, S, beats, n + 1, g)
      <3> HIDE DEF g
      <3> QED
        BY <2>5 DEF SelectedUpTo
    <2> QED
      BY <2>6
  <1> HIDE DEF N
  <1>3. \A n \in Nat : n \in N
    BY <1>1, <1>2, Induction
  <1> QED
    BY <1>3 DEF N

LEMMA WinnerIs ==
    ASSUME NEW S, NEW beats
    PROVE  Order!Winner(S, beats) =
               (CHOOSE f : SelectedUpTo(list, S, beats, Len(list), f))[Len(list)]
  BY DEF Order!Winner, SelectedUpTo

\* One comes before another, or neither does.
WeakOrder(S, beats) ==
    /\ \A x, y \in S : <<x, y>> \in beats => <<y, x>> \notin beats
    /\ \A x, y, z \in S : <<x, z>> \in beats => <<x, y>> \in beats \/ <<y, z>> \in beats

\* The loop finds the first of those that no other beats.
Wins(l, S, beats, n, w) ==
    /\ w \in 1..n /\ l[w] \in S
    /\ \A i \in 1..n :
           l[i] \in S => /\ <<l[i], l[w]>> \notin beats
                         /\ i < w => <<l[w], l[i]>> \in beats

LEMMA OneMoreCandidate ==
    ASSUME NEW S \in SUBSET IDs, NEW beats, WeakOrder(S, beats), NEW l,
           NEW n \in Nat, NEW w, Wins(l, S, beats, n, w), l[n + 1] \in S
    PROVE  IF <<l[n + 1], l[w]>> \in beats THEN Wins(l, S, beats, n + 1, n + 1)
                                           ELSE Wins(l, S, beats, n + 1, w)
  <1> DEFINE x == l[n + 1]
  <1> HIDE DEF x
  <1>1. w \in 1..n /\ l[w] \in S /\ x \in S
    BY DEF Wins, x
  <1>5. /\ w \in 1..(n + 1) /\ ~(n + 1 < w) /\ n + 1 \in 1..(n + 1) /\ ~(n + 1 < n + 1)
        /\ \A i \in 1..(n + 1) : i \in 1..n \/ i = n + 1
    BY <1>1
  <1>2. \A i \in 1..n :
            l[i] \in S => <<l[i], l[w]>> \notin beats /\ (i < w => <<l[w], l[i]>> \in beats)
    BY DEF Wins
  <1>3. CASE <<x, l[w]>> \in beats
    <2>1. ASSUME NEW i \in 1..(n + 1), l[i] \in S
          PROVE  <<l[i], x>> \notin beats /\ (i < n + 1 => <<x, l[i]>> \in beats)
      <3>1. CASE i \in 1..n
        <4>1. <<x, l[i]>> \in beats \/ <<l[i], l[w]>> \in beats
          BY <1>1, <1>3, <2>1 DEF WeakOrder
        <4>3. <<l[i], l[w]>> \notin beats
          BY <1>2, <2>1, <3>1
        <4>2. <<x, l[i]>> \in beats
          BY <4>1, <4>3
        <4> QED
          BY <1>1, <2>1, <4>2 DEF WeakOrder
      <3>2. CASE i = n + 1
        BY <1>1, <1>5, <3>2 DEF WeakOrder, x
      <3> QED
        BY <1>5, <3>1, <3>2
    <2> QED
      BY <1>1, <1>3, <1>5, <2>1 DEF Wins, x
  <1>4. CASE <<x, l[w]>> \notin beats
    <2>1. ASSUME NEW i \in 1..(n + 1), l[i] \in S
          PROVE  <<l[i], l[w]>> \notin beats /\ (i < w => <<l[w], l[i]>> \in beats)
      BY <1>1, <1>2, <1>4, <1>5, <2>1 DEF x
    <2> QED
      BY <1>1, <1>4, <1>5, <2>1 DEF Wins, x
  <1> QED
    BY <1>3, <1>4 DEF x

LEMMA WinnerWins ==
    ASSUME Listed(list), NoOne \notin IDs, NEW S \in SUBSET IDs,
           NEW a \in Order!ToSet(list), a \in S, NEW beats, WeakOrder(S, beats)
    PROVE  \E w \in 1..Len(list) :
               list[w] = Order!Winner(S, beats) /\ Wins(list, S, beats, Len(list), w)
  <1> DEFINE f == CHOOSE g : SelectedUpTo(list, S, beats, Len(list), g)
             Found(n) == IF \E i \in 1..n : list[i] \in S
                         THEN \E w \in 1..n : f[n] = list[w] /\ Wins(list, S, beats, n, w)
                         ELSE f[n] = NoOne
             N == {n \in Nat : n <= Len(list) => Found(n)}
  <1>1. Len(list) \in Nat /\ \A i \in 1..Len(list) : list[i] \in IDs
    BY ListIs
  <1>2. SelectedUpTo(list, S, beats, Len(list), f)
    BY <1>1, SelectedIsDefined
  <1> HIDE DEF f
  <1>3. \A i \in 0..Len(list) :
            f[i] = IF i = 0 THEN NoOne
                   ELSE IF list[i] \in S /\ (f[i - 1] = NoOne \/ <<list[i], f[i - 1]>> \in beats)
                        THEN list[i] ELSE f[i - 1]
    BY <1>2 DEF SelectedUpTo
  <1>4. 0 \in N
    <2>1. f[0] = NoOne
      <3>1. 0 \in 0..Len(list)
        BY <1>1
      <3> QED
        BY <1>3, <3>1
    <2>2. ~(\E i \in 1..0 : list[i] \in S)
      OBVIOUS
    <2> QED
      BY <2>1, <2>2
  <1>5. ASSUME NEW n \in Nat, n \in N
        PROVE  n + 1 \in N
    <2> SUFFICES ASSUME n + 1 <= Len(list) PROVE Found(n + 1)
      OBVIOUS
    <2> DEFINE x == list[n + 1]
    <2>1. /\ Found(n) /\ n + 1 \in 1..Len(list) /\ x \in IDs
          /\ 1..(n + 1) = (1..n) \union {n + 1}
      BY <1>1, <1>5
    <2>2. f[n + 1] = IF x \in S /\ (f[n] = NoOne \/ <<x, f[n]>> \in beats) THEN x ELSE f[n]
      <3>1. n + 1 \in 0..Len(list) /\ n + 1 # 0 /\ (n + 1) - 1 = n
        BY <1>1, <2>1
      <3> QED
        BY <1>3, <3>1
    <2>3. CASE x \notin S
      <3>1. f[n + 1] = f[n]
        BY <2>2, <2>3
      <3>2. CASE \E i \in 1..n : list[i] \in S
        <4>1. PICK w \in 1..n : f[n] = list[w] /\ Wins(list, S, beats, n, w)
          BY <2>1, <3>2
        <4>2. Wins(list, S, beats, n + 1, w)
          BY <2>1, <2>3, <4>1 DEF Wins
        <4> QED
          BY <2>1, <3>1, <3>2, <4>1, <4>2
      <3>3. CASE ~(\E i \in 1..n : list[i] \in S)
        BY <2>1, <2>3, <3>1, <3>3
      <3> QED
        BY <3>2, <3>3
    <2>4. CASE x \in S /\ \E i \in 1..n : list[i] \in S
      <3>1. PICK w \in 1..n : f[n] = list[w] /\ Wins(list, S, beats, n, w)
        BY <2>1, <2>4
      <3>2. f[n] # NoOne
        BY <1>1, <2>1, <3>1
      <3>3. IF <<x, list[w]>> \in beats THEN Wins(list, S, beats, n + 1, n + 1)
                                       ELSE Wins(list, S, beats, n + 1, w)
        BY <2>4, <3>1, OneMoreCandidate
      <3>4. w \in 1..(n + 1) /\ n + 1 \in 1..(n + 1)
        BY <2>1
      <3>5. f[n + 1] = IF <<x, list[w]>> \in beats THEN x ELSE list[w]
        BY <2>2, <2>4, <3>1, <3>2
      <3>6. \E v \in 1..(n + 1) : f[n + 1] = list[v] /\ Wins(list, S, beats, n + 1, v)
        BY <3>3, <3>4, <3>5
      <3> QED
        BY <2>4, <3>4, <3>6
    <2>5. CASE x \in S /\ ~(\E i \in 1..n : list[i] \in S)
      <3>1. f[n + 1] = x
        BY <2>1, <2>2, <2>5
      <3>2. <<x, x>> \notin beats
        BY <2>5 DEF WeakOrder
      <3>3. Wins(list, S, beats, n + 1, n + 1)
        BY <2>1, <2>5, <3>2 DEF Wins
      <3> QED
        BY <2>1, <2>5, <3>1, <3>3
    <2> QED
      BY <2>3, <2>4, <2>5
  <1>6. \A n \in Nat : n \in N
    <2> HIDE DEF N
    <2> QED
      BY <1>4, <1>5, Induction
  <1>7. \E i \in 1..Len(list) : list[i] \in S
    BY InList
  <1>8. Found(Len(list))
    BY <1>1, <1>6
  <1>9. Order!Winner(S, beats) = f[Len(list)]
    BY WinnerIs DEF f
  <1> QED
    BY <1>7, <1>8, <1>9

\* Without a batch the loop takes a candidate, and none is less used.
LEMMA LeastUsedWins ==
    ASSUME OrderInv, NoOne \notin IDs, NEW some \in SUBSET Order!ToSet(list), some # {},
           NEW a, a = Order!Winner(some, {p \in Order!Pairs(some) : Order!LessUsed(p[1], p[2])})
    PROVE  a \in IDs /\ \A b \in some : ~Order!LessUsed(b, a)
  <1> DEFINE beats == {p \in Order!Pairs(some) : Order!LessUsed(p[1], p[2])}
  <1>1. /\ some \in SUBSET IDs /\ Listed(list) /\ assigned \in [IDs -> Nat]
        /\ \E b \in Order!ToSet(list) : b \in some
    BY InList, ListIs DEF OrderInv, TurnOK
  <1>2. \A x, y \in some : <<x, y>> \in beats <=> assigned[x] < assigned[y]
    BY DEF Order!Pairs, Order!LessUsed
  <1>3. a = Order!Winner(some, beats)
    OBVIOUS
  <1> HIDE DEF beats
  <1>4. WeakOrder(some, beats)
    <2>1. \A x \in some : assigned[x] \in Nat
      BY <1>1
    <2> QED
      BY <1>2, <2>1 DEF WeakOrder
  <1>5. PICK w \in 1..Len(list) :
           list[w] = Order!Winner(some, beats) /\ Wins(list, some, beats, Len(list), w)
    BY <1>1, <1>4, WinnerWins
  <1>6. a \in some /\ \A b \in some : <<b, a>> \notin beats
    <2>1. \A b \in some : \E i \in 1..Len(list) : list[i] = b
      BY <1>1, InList
    <2> QED
      BY <1>3, <1>5, <2>1 DEF Wins
  <1> QED
    BY <1>1, <1>2, <1>6 DEF Order!LessUsed

LEMMA BatchKeeps ==
    ASSUME OrderInv, BatchSize \in Nat \ {0}, NoOne \notin IDs,
           NEW some \in SUBSET Order!ToSet(list), some # {}, Order!TakeLeastUsed(some)
    PROVE  BatchOK(batch', ahead')
  <1> DEFINE goesOn == batch.left > 0 /\ batch.account \in some
             beats == {p \in Order!Pairs(some) : Order!LessUsed(p[1], p[2])}
             a == IF goesOn THEN batch.account ELSE Order!Winner(some, beats)
  <1>1. /\ batch' = [account |-> a, left |-> (IF goesOn THEN batch.left ELSE BatchSize) - 1]
        /\ ahead' = IF \E b \in some : Order!LessUsed(b, a) THEN ahead + 1 ELSE 0
    BY DEF Order!TakeLeastUsed, Order!Filled
  <1>2. batch.left \in Nat /\ ahead \in Nat /\ ahead + batch.left < BatchSize
    BY DEF OrderInv, BatchOK
  <1>3. CASE goesOn
    <2>1. batch'.left = batch.left - 1 /\ batch.left > 0
      BY <1>1, <1>3
    <2>2. ahead' \in {0, ahead + 1}
      BY <1>1
    <2> QED
      BY <1>2, <2>1, <2>2 DEF BatchOK
  <1>4. CASE ~goesOn
    <2>1. batch'.left = BatchSize - 1 /\ a = Order!Winner(some, beats)
      BY <1>1, <1>4
    <2>2. \A b \in some : ~Order!LessUsed(b, a)
      BY <2>1, LeastUsedWins
    <2>3. ahead' = 0
      BY <1>1, <2>2
    <2> QED
      BY <2>1, <2>3 DEF BatchOK
  <1> QED
    BY <1>3, <1>4

-----------------------------------------------------------------------------
(* The order of README.md, and that of the loops.                            *)

\* Lists of numbers, of the lengths that Rank makes.
LEMMA BeforeOfOne ==
    ASSUME NEW p \in Int, NEW q \in Int, Order!Before(<<p>>, <<q>>)
    PROVE  p < q
  BY DEF Order!Before

LEMMA BeforeOfThree ==
    ASSUME NEW s1 \in Int, NEW s2 \in Int, NEW s3 \in Int,
           NEW t1 \in Int, NEW t2 \in Int, NEW t3 \in Int,
           Order!Before(<<s1, s2, s3>>, <<t1, t2, t3>>)
    PROVE  \/ s1 < t1
           \/ s1 = t1 /\ s2 < t2
           \/ s1 = t1 /\ s2 = t2 /\ s3 < t3
  <1> DEFINE s == <<s1, s2, s3>>
             t == <<t1, t2, t3>>
  <1>1. PICK i \in DOMAIN s : s[i] < t[i] /\ \A j \in 1..(i - 1) : s[j] = t[j]
    BY DEF Order!Before
  <1>2. i \in {1, 2, 3}
    OBVIOUS
  <1>3. CASE i = 1
    BY <1>1, <1>3
  <1>4. CASE i = 2
    <2>1. 1 \in 1..(i - 1)
      BY <1>4
    <2> QED
      BY <1>1, <1>4, <2>1
  <1>5. CASE i = 3
    <2>1. 1 \in 1..(i - 1) /\ 2 \in 1..(i - 1)
      BY <1>5
    <2> QED
      BY <1>1, <1>5, <2>1
  <1> QED
    BY <1>2, <1>3, <1>4, <1>5

LEMMA BeforeOfFour ==
    ASSUME NEW s, NEW t, DOMAIN s = 1..4, Order!Before(s, t)
    PROVE  \/ s[1] < t[1]
           \/ s[1] = t[1] /\ s[2] < t[2]
           \/ s[1] = t[1] /\ s[2] = t[2] /\ s[3] < t[3]
           \/ s[1] = t[1] /\ s[2] = t[2] /\ s[3] = t[3] /\ s[4] < t[4]
  <1>1. PICK i \in DOMAIN s : s[i] < t[i] /\ \A j \in 1..(i - 1) : s[j] = t[j]
    BY DEF Order!Before
  <1>2. i \in {1, 2, 3, 4}
    OBVIOUS
  <1>3. CASE i = 1
    BY <1>1, <1>3
  <1>4. CASE i = 2
    <2>1. 1 \in 1..(i - 1)
      BY <1>4
    <2> QED
      BY <1>1, <1>4, <2>1
  <1>5. CASE i = 3
    <2>1. 1 \in 1..(i - 1) /\ 2 \in 1..(i - 1)
      BY <1>5
    <2> QED
      BY <1>1, <1>5, <2>1
  <1>6. CASE i = 4
    <2>1. 1 \in 1..(i - 1) /\ 2 \in 1..(i - 1) /\ 3 \in 1..(i - 1)
      BY <1>6
    <2> QED
      BY <1>1, <1>6, <2>1
  <1> QED
    BY <1>2, <1>3, <1>4, <1>5, <1>6

\* What may be found of an account can be compared.
LEMMA FoundIs ==
    ASSUME StrategiesAssumption, NEW view \in [Order!ToSet(list) -> Views],
           NEW x \in Order!Candidates(view)
    PROVE  /\ x \in Order!ToSet(list)
           /\ view[x].amount \in Nat /\ view[x].reset \in Nat
           /\ view[x].unlimited \in BOOLEAN
  <1>1. x \in Order!ToSet(list)
    BY DEF Order!Candidates, Order!Standing
  <1>2. view[x] \in Order!View
    BY <1>1 DEF StrategiesAssumption
  <1> QED
    BY <1>1, <1>2 DEF Order!View

LEMMA SoonerIsWeak ==
    ASSUME NEW l, NEW m, NEW r, l.reset \in Nat, m.reset \in Nat, r.reset \in Nat
    PROVE  /\ Order!Sooner(l, r) => ~Order!Sooner(r, l)
           /\ Order!Sooner(l, r) => Order!Sooner(l, m) \/ Order!Sooner(m, r)
  BY DEF Order!Sooner

LEMMA PoorerIsWeak ==
    ASSUME NEW l, NEW m, NEW r, l.amount \in Nat, m.amount \in Nat, r.amount \in Nat
    PROVE  /\ Order!Poorer(l, r) => ~Order!Poorer(r, l)
           /\ Order!Poorer(l, r) => Order!Poorer(l, m) \/ Order!Poorer(m, r)
  BY DEF Order!Poorer

LEMMA RicherIsWeak ==
    ASSUME NEW l, NEW m, NEW r, l.amount \in Nat, m.amount \in Nat, r.amount \in Nat,
           l.unlimited \in BOOLEAN, m.unlimited \in BOOLEAN, r.unlimited \in BOOLEAN
    PROVE  /\ Order!Richer(l, r) => ~Order!Richer(r, l)
           /\ Order!Richer(l, r) => Order!Richer(l, m) \/ Order!Richer(m, r)
  BY DEF Order!Richer

\* What Rank compares first, and where the accounts have places p and q.
LEMMA SoonerIsBefore ==
    ASSUME NEW r, NEW v, r.reset \in Nat, v.reset \in Nat, NEW p \in Int, NEW q \in Int,
           Order!Before(<<IF r.reset = 0 THEN 1 ELSE 0, r.reset, p>>,
                        <<IF v.reset = 0 THEN 1 ELSE 0, v.reset, q>>)
    PROVE  Order!Sooner(r, v) \/ (p < q /\ ~Order!Sooner(v, r))
  <1> DEFINE s1 == IF r.reset = 0 THEN 1 ELSE 0
             s2 == r.reset
             t1 == IF v.reset = 0 THEN 1 ELSE 0
             t2 == v.reset
  <1>1. s1 \in Int /\ s2 \in Int /\ t1 \in Int /\ t2 \in Int
    OBVIOUS
  <1>2. Order!Before(<<s1, s2, p>>, <<t1, t2, q>>)
    OBVIOUS
  <1> HIDE DEF s1, s2, t1, t2
  <1>3. s1 < t1 \/ (s1 = t1 /\ s2 < t2) \/ (s1 = t1 /\ s2 = t2 /\ p < q)
    BY <1>1, <1>2, BeforeOfThree
  <1> QED
    BY <1>3 DEF Order!Sooner, s1, s2, t1, t2

LEMMA PoorerIsBefore ==
    ASSUME NEW r, NEW v, r.amount \in Nat, v.amount \in Nat, NEW p \in Int, NEW q \in Int,
           Order!Before(
               <<IF r.unlimited THEN 1 ELSE 0, IF r.unlimited THEN 0 ELSE r.amount, p>>,
               <<IF v.unlimited THEN 1 ELSE 0, IF v.unlimited THEN 0 ELSE v.amount, q>>)
    PROVE  Order!Poorer(r, v) \/ (p < q /\ ~Order!Poorer(v, r))
  <1> DEFINE s1 == IF r.unlimited THEN 1 ELSE 0
             s2 == IF r.unlimited THEN 0 ELSE r.amount
             t1 == IF v.unlimited THEN 1 ELSE 0
             t2 == IF v.unlimited THEN 0 ELSE v.amount
  <1>1. s1 \in Int /\ s2 \in Int /\ t1 \in Int /\ t2 \in Int
    OBVIOUS
  <1>2. Order!Before(<<s1, s2, p>>, <<t1, t2, q>>)
    OBVIOUS
  <1> HIDE DEF s1, s2, t1, t2
  <1>3. s1 < t1 \/ (s1 = t1 /\ s2 < t2) \/ (s1 = t1 /\ s2 = t2 /\ p < q)
    BY <1>1, <1>2, BeforeOfThree
  <1> QED
    BY <1>3 DEF Order!Poorer, s1, s2, t1, t2

LEMMA RicherIsBefore ==
    ASSUME NEW r, NEW v, r.amount \in Nat, v.amount \in Nat,
           r.unlimited \in BOOLEAN, v.unlimited \in BOOLEAN,
           NEW m \in Int, NEW n \in Int, NEW p \in Int, NEW q \in Int,
           Order!Before(<<IF r.unlimited THEN 0 ELSE 1, -r.amount, m, p>>,
                        <<IF v.unlimited THEN 0 ELSE 1, -v.amount, n, q>>)
    PROVE  \/ Order!Richer(r, v)
           \/ ~Order!Richer(v, r) /\ m < n
           \/ ~Order!Richer(v, r) /\ m = n /\ p < q
  <1> DEFINE s1 == IF r.unlimited THEN 0 ELSE 1
             s2 == -r.amount
             t1 == IF v.unlimited THEN 0 ELSE 1
             t2 == -v.amount
  <1>1. s1 \in Int /\ s2 \in Int /\ t1 \in Int /\ t2 \in Int
    OBVIOUS
  <1>2. Order!Before(<<s1, s2, m, p>>, <<t1, t2, n, q>>)
    OBVIOUS
  <1>3. /\ s1 < t1 <=> r.unlimited /\ ~v.unlimited
        /\ s1 = t1 <=> r.unlimited = v.unlimited
    OBVIOUS
  <1>4. /\ s2 < t2 => r.amount > v.amount
        /\ s2 = t2 => r.amount = v.amount
    OBVIOUS
  <1> HIDE DEF s1, s2, t1, t2
  <1>5. \/ s1 < t1
        \/ s1 = t1 /\ s2 < t2
        \/ s1 = t1 /\ s2 = t2 /\ m < n
        \/ s1 = t1 /\ s2 = t2 /\ m = n /\ p < q
    <2> DEFINE s == <<s1, s2, m, p>>
               t == <<t1, t2, n, q>>
    <2>1. /\ DOMAIN s = 1..4 /\ s[1] = s1 /\ s[2] = s2 /\ s[3] = m /\ s[4] = p
          /\ t[1] = t1 /\ t[2] = t2 /\ t[3] = n /\ t[4] = q
      OBVIOUS
    <2>2. Order!Before(s, t)
      BY <1>2
    <2> HIDE DEF s, t
    <2>3. \/ s[1] < t[1]
          \/ s[1] = t[1] /\ s[2] < t[2]
          \/ s[1] = t[1] /\ s[2] = t[2] /\ s[3] < t[3]
          \/ s[1] = t[1] /\ s[2] = t[2] /\ s[3] = t[3] /\ s[4] < t[4]
      BY <2>1, <2>2, BeforeOfFour
    <2> QED
      BY <2>1, <2>3
  <1>6. s1 < t1 \/ (s1 = t1 /\ s2 < t2) => Order!Richer(r, v)
    BY <1>3, <1>4 DEF Order!Richer
  <1>7. s1 = t1 /\ s2 = t2 => ~Order!Richer(v, r)
    BY <1>3, <1>4 DEF Order!Richer
  <1> QED
    BY <1>5, <1>6, <1>7

\* A weak order refined by another one.
LEMMA UsedThenIsWeak ==
    ASSUME NEW S, NEW used, \A x \in S : used[x] \in Nat, NEW first, WeakOrder(S, first),
           NEW beats,
           \A x, y \in S : <<x, y>> \in beats <=>
               <<x, y>> \in first \/ (<<y, x>> \notin first /\ used[x] < used[y])
    PROVE  WeakOrder(S, beats)
  <1>1. ASSUME NEW x \in S, NEW y \in S, <<x, y>> \in beats
        PROVE  <<y, x>> \notin beats
    BY <1>1 DEF WeakOrder
  <1>2. ASSUME NEW x \in S, NEW y \in S, NEW z \in S, <<x, z>> \in beats
        PROVE  <<x, y>> \in beats \/ <<y, z>> \in beats
    <2>1. CASE <<x, z>> \in first
      <3>1. <<x, y>> \in first \/ <<y, z>> \in first
        BY <2>1 DEF WeakOrder
      <3> QED
        BY <3>1
    <2>2. CASE <<z, x>> \notin first /\ used[x] < used[z]
      <3>1. used[x] < used[y] \/ used[y] < used[z]
        BY <2>2
      <3>2. <<y, x>> \in first => <<y, z>> \in first
        BY <2>2 DEF WeakOrder
      <3>3. <<z, y>> \in first => <<x, y>> \in first
        BY <2>2 DEF WeakOrder
      <3> QED
        BY <3>1, <3>2, <3>3
    <2> QED
      BY <1>2, <2>1, <2>2
  <1> QED
    BY <1>1, <1>2 DEF WeakOrder

\* What the loops over the candidates compare with.
Compared(view) ==
    {p \in Order!Pairs(Order!Candidates(view)) : Order!Beats(p[1], p[2], view)}

LEMMA ComparedIs ==
    ASSUME NEW view, NEW x \in Order!Candidates(view), NEW y \in Order!Candidates(view)
    PROVE  <<x, y>> \in Compared(view) <=> Order!Beats(x, y, view)
  BY DEF Compared, Order!Pairs

LEMMA ComparedIsWeak ==
    ASSUME StrategiesAssumption, OrderInv, Listed(list),
           NEW view \in [Order!ToSet(list) -> Views],
           strategy \in {"priority", "quota_reset", "highest_balance", "lowest_balance"}
    PROVE  WeakOrder(Order!Candidates(view), Compared(view))
  <1> DEFINE S == Order!Candidates(view)
  <1>1. \A x \in S : /\ view[x].amount \in Nat /\ view[x].reset \in Nat
                     /\ view[x].unlimited \in BOOLEAN
    BY FoundIs
  <1>2. \A x, y \in S : <<x, y>> \in Compared(view) <=> Order!Beats(x, y, view)
    BY ComparedIs
  <1>3. \A x \in S : assigned[x] \in Nat
    BY FoundIs, InList, ListIs DEF OrderInv
  <1> HIDE DEF S
  <1>4. CASE strategy = "priority"
    <2>1. \A x, y \in S : <<x, y>> \notin Compared(view)
      BY <1>2, <1>4 DEF Order!Beats
    <2> QED
      BY <2>1 DEF WeakOrder, S
  <1>5. CASE strategy = "quota_reset"
    <2>1. \A x, y \in S : <<x, y>> \in Compared(view) <=> Order!Sooner(view[x], view[y])
      BY <1>2, <1>5 DEF Order!Beats
    <2>2. \A x, y \in S : Order!Sooner(view[x], view[y]) => ~Order!Sooner(view[y], view[x])
      BY <1>1, SoonerIsWeak
    <2>3. \A x, y, z \in S : Order!Sooner(view[x], view[z]) =>
              Order!Sooner(view[x], view[y]) \/ Order!Sooner(view[y], view[z])
      BY <1>1, SoonerIsWeak
    <2> QED
      BY <2>1, <2>2, <2>3 DEF WeakOrder, S
  <1>6. CASE strategy = "lowest_balance"
    <2>1. \A x, y \in S : <<x, y>> \in Compared(view) <=> Order!Poorer(view[x], view[y])
      BY <1>2, <1>6 DEF Order!Beats
    <2>2. \A x, y \in S : Order!Poorer(view[x], view[y]) => ~Order!Poorer(view[y], view[x])
      BY <1>1, PoorerIsWeak
    <2>3. \A x, y, z \in S : Order!Poorer(view[x], view[z]) =>
              Order!Poorer(view[x], view[y]) \/ Order!Poorer(view[y], view[z])
      BY <1>1, PoorerIsWeak
    <2> QED
      BY <2>1, <2>2, <2>3 DEF WeakOrder, S
  <1>7. CASE strategy = "highest_balance"
    <2> DEFINE richer == {p \in S \X S : Order!Richer(view[p[1]], view[p[2]])}
    <2>1. \A x, y \in S : <<x, y>> \in richer <=> Order!Richer(view[x], view[y])
      OBVIOUS
    <2>2. \A x, y \in S : Order!Richer(view[x], view[y]) => ~Order!Richer(view[y], view[x])
      BY <1>1, RicherIsWeak
    <2>3. \A x, y, z \in S : Order!Richer(view[x], view[z]) =>
              Order!Richer(view[x], view[y]) \/ Order!Richer(view[y], view[z])
      BY <1>1, RicherIsWeak
    <2> HIDE DEF richer
    <2>4. WeakOrder(S, richer)
      BY <2>1, <2>2, <2>3 DEF WeakOrder
    <2>5. \A x, y \in S : <<x, y>> \in Compared(view) <=>
              <<x, y>> \in richer \/ (<<y, x>> \notin richer /\ assigned[x] < assigned[y])
      BY <1>2, <1>7, <2>1 DEF Order!Beats, Order!LessUsed
    <2> QED
      BY <1>3, <2>4, <2>5, UsedThenIsWeak DEF S
  <1> QED
    BY <1>4, <1>5, <1>6, <1>7

\* README.md's order is that of the loops, and of the list where they have none.
LEMMA BeforeIs ==
    ASSUME StrategiesAssumption, OrderInv, Listed(list),
           NEW view \in [Order!ToSet(list) -> Views],
           NEW i \in 1..Len(list), NEW w \in 1..Len(list),
           list[i] \in Order!Candidates(view), list[w] \in Order!Candidates(view),
           strategy \in {"priority", "quota_reset", "highest_balance", "lowest_balance"},
           Order!Before(Order!Rank(list[i], view), Order!Rank(list[w], view))
    PROVE  \/ Order!Beats(list[i], list[w], view)
           \/ i < w /\ ~Order!Beats(list[w], list[i], view)
  <1> DEFINE b == list[i]
             a == list[w]
             r == view[b]
             v == view[a]
  <1>1. /\ r.amount \in Nat /\ r.reset \in Nat /\ r.unlimited \in BOOLEAN
        /\ v.amount \in Nat /\ v.reset \in Nat /\ v.unlimited \in BOOLEAN
    BY FoundIs
  <1>2. assigned[a] \in Nat /\ assigned[b] \in Nat
    BY ListIs DEF OrderInv
  <1>3. Order!Position(a) = w - 1 /\ Order!Position(b) = i - 1
    BY PositionIs
  <1>4. i \in Int /\ w \in Int /\ i - 1 \in Int /\ w - 1 \in Int
    OBVIOUS
  <1>5. Order!Before(Order!Rank(b, view), Order!Rank(a, view))
    OBVIOUS
  <1> HIDE DEF a, b
  <1>6. CASE strategy = "priority"
    <2>1. Order!Rank(b, view) = <<i - 1>> /\ Order!Rank(a, view) = <<w - 1>>
      BY <1>3, <1>6 DEF Order!Rank
    <2>2. i - 1 < w - 1
      BY <1>4, <1>5, <2>1, BeforeOfOne
    <2>3. ~Order!Beats(a, b, view)
      BY <1>6 DEF Order!Beats
    <2> QED
      BY <1>4, <2>2, <2>3 DEF a, b
  <1>7. CASE strategy = "quota_reset"
    <2>1. /\ Order!Rank(b, view) = <<IF r.reset = 0 THEN 1 ELSE 0, r.reset, i - 1>>
          /\ Order!Rank(a, view) = <<IF v.reset = 0 THEN 1 ELSE 0, v.reset, w - 1>>
      BY <1>3, <1>7 DEF Order!Rank
    <2>2. Order!Sooner(r, v) \/ (i - 1 < w - 1 /\ ~Order!Sooner(v, r))
      BY <1>1, <1>4, <1>5, <2>1, SoonerIsBefore
    <2> QED
      BY <1>4, <1>7, <2>2 DEF Order!Beats, a, b
  <1>8. CASE strategy = "lowest_balance"
    <2>1. /\ Order!Rank(b, view) = <<IF r.unlimited THEN 1 ELSE 0,
                                     IF r.unlimited THEN 0 ELSE r.amount, i - 1>>
          /\ Order!Rank(a, view) = <<IF v.unlimited THEN 1 ELSE 0,
                                     IF v.unlimited THEN 0 ELSE v.amount, w - 1>>
      BY <1>3, <1>8 DEF Order!Rank
    <2>2. Order!Poorer(r, v) \/ (i - 1 < w - 1 /\ ~Order!Poorer(v, r))
      BY <1>1, <1>4, <1>5, <2>1, PoorerIsBefore
    <2> QED
      BY <1>4, <1>8, <2>2 DEF Order!Beats, a, b
  <1>9. CASE strategy = "highest_balance"
    <2>1. /\ Order!Rank(b, view) =
                 <<IF r.unlimited THEN 0 ELSE 1, -r.amount, assigned[b], i - 1>>
          /\ Order!Rank(a, view) =
                 <<IF v.unlimited THEN 0 ELSE 1, -v.amount, assigned[a], w - 1>>
      BY <1>3, <1>9 DEF Order!Rank
    <2>2. \/ Order!Richer(r, v)
          \/ ~Order!Richer(v, r) /\ assigned[b] < assigned[a]
          \/ ~Order!Richer(v, r) /\ assigned[b] = assigned[a] /\ i - 1 < w - 1
      <3>1. Order!Before(<<IF r.unlimited THEN 0 ELSE 1, -r.amount, assigned[b], i - 1>>,
                         <<IF v.unlimited THEN 0 ELSE 1, -v.amount, assigned[a], w - 1>>)
        BY <1>5, <2>1
      <3> DEFINE m == assigned[b]
                 n == assigned[a]
                 p == i - 1
                 q == w - 1
      <3>2. m \in Int /\ n \in Int /\ p \in Int /\ q \in Int
        BY <1>2, <1>4
      <3>3. Order!Before(<<IF r.unlimited THEN 0 ELSE 1, -r.amount, m, p>>,
                         <<IF v.unlimited THEN 0 ELSE 1, -v.amount, n, q>>)
        BY <3>1
      <3> HIDE DEF m, n, p, q, r, v
      <3>4. \/ Order!Richer(r, v)
            \/ ~Order!Richer(v, r) /\ m < n
            \/ ~Order!Richer(v, r) /\ m = n /\ p < q
        BY <1>1, <3>2, <3>3, RicherIsBefore
      <3> QED
        BY <3>4 DEF m, n, p, q
    <2>3. assigned[b] = assigned[a] => ~(assigned[a] < assigned[b])
      BY <1>2
    <2>4. Order!Richer(r, v) => ~Order!Richer(v, r)
      BY <1>1, RicherIsWeak
    <2> QED
      BY <1>4, <1>9, <2>2, <2>3, <2>4 DEF Order!Beats, Order!LessUsed, a, b
  <1> QED
    BY <1>6, <1>7, <1>8, <1>9

LEMMA FirstKeeps ==
    ASSUME StrategiesAssumption, OrderInv, strategy \in Order!Strategies,
           NEW view \in Order!Looks, Order!TakeFirst(view)
    PROVE  outdone' = {} /\ batch' = Order!NoBatch
  <1> DEFINE S == Order!Candidates(view)
             a == Order!Winner(S, Compared(view))
  <1>1. /\ strategy \in {"priority", "quota_reset", "highest_balance", "lowest_balance"}
        /\ view \in [Order!ToSet(list) -> Views] /\ Listed(list) /\ NoOne \notin IDs
    BY DEF Order!TakeFirst, Order!Strategies, Order!Looks, OrderInv, TurnOK,
           StrategiesAssumption
  <1>2. /\ S \in SUBSET IDs /\ \A x \in S : x \in Order!ToSet(list)
        /\ \E x \in Order!ToSet(list) : x \in S
    <2>1. \A x \in S : x \in Order!ToSet(list)
      BY <1>1, FoundIs
    <2>2. \E x \in Order!ToSet(list) : x \in S
      BY <1>1 DEF Order!TakeFirst, Order!Free, Order!Candidates, Order!Standing
    <2> QED
      BY <1>1, <2>1, <2>2, InList, ListIs
  <1>3. WeakOrder(S, Compared(view))
    BY <1>1, ComparedIsWeak
  <1> HIDE DEF S
  <1>4. PICK w \in 1..Len(list) :
           list[w] = a /\ Wins(list, S, Compared(view), Len(list), w)
    BY <1>1, <1>2, <1>3, WinnerWins
  <1> DEFINE ranked == IF strategy \in Order!BalanceStrategies
                       THEN Order!Standing(view, {"regular", "recovering"}) ELSE S
  <1>5. /\ batch' = Order!NoBatch
        /\ outdone' = {b \in ranked : /\ a \in ranked
                                     /\ Order!Before(Order!Rank(b, view), Order!Rank(a, view))}
    BY DEF Order!TakeFirst, Compared, S
  <1>6. ranked \subseteq S
    BY DEF Order!Candidates, Order!Standing, S
  <1>7. ASSUME NEW b \in S, a \in S, Order!Before(Order!Rank(b, view), Order!Rank(a, view))
        PROVE  FALSE
    <2>1. PICK i \in 1..Len(list) : list[i] = b
      BY <1>1, <1>2, InList
    <2>2. \/ Order!Beats(b, a, view)
          \/ i < w /\ ~Order!Beats(a, b, view)
      BY <1>1, <1>4, <1>7, <2>1, BeforeIs DEF S
    <2>3. /\ <<b, a>> \in Compared(view) <=> Order!Beats(b, a, view)
          /\ <<a, b>> \in Compared(view) <=> Order!Beats(a, b, view)
      BY <1>7, ComparedIs DEF S
    <2>4. <<b, a>> \notin Compared(view) /\ (i < w => <<a, b>> \in Compared(view))
      BY <1>4, <1>7, <2>1 DEF Wins
    <2> QED
      BY <2>2, <2>3, <2>4
  <1> QED
    BY <1>5, <1>6, <1>7

-----------------------------------------------------------------------------
(* The other choices, saves and restarts.                                    *)

\* The batch goes on or ends without a choice of the least used.
LEMMA BatchStays ==
    ASSUME StrategiesAssumption, OrderInv, batch' \in {batch, Order!NoBatch}, ahead' = ahead
    PROVE  BatchOK(batch', ahead')
  <1>1. batch'.left = batch.left \/ batch'.left = 0
    BY DEF Order!NoBatch
  <1>2. batch.left \in Nat /\ ahead \in Nat /\ ahead + batch.left < BatchSize
    BY DEF OrderInv, BatchOK
  <1>3. ahead + 0 < BatchSize
    BY <1>2 DEF StrategiesAssumption
  <1> QED
    BY <1>1, <1>2, <1>3 DEF BatchOK

LEMMA AssignKeeps ==
    ASSUME OrderInv, NEW a, Order!Assign(a)
    PROVE  assigned' \in [IDs -> Nat]
  <1>1. assigned \in [IDs -> Nat] /\ assigned' = [assigned EXCEPT ![a] = assigned[a] + 1]
    BY DEF OrderInv, Order!Assign
  <1>2. a \in IDs => assigned[a] + 1 \in Nat
    BY <1>1
  <1> QED
    BY <1>1, <1>2

LEMMA OrderCardinality == \A S : Order!Cardinality(S) = Cardinality(S)
  BY Zenon DEF Order!Cardinality, Cardinality

\* A list that a save may leave.
LEMMA SavedIsListed ==
    ASSUME IsFiniteSet(IDs), NEW listed \in SUBSET IDs, NEW l \in Order!SetToSeqs(listed)
    PROVE  Listed(l) /\ (l = <<>> <=> listed = {})
  <1> DEFINE n == Cardinality(listed)
  <1>1. n \in Nat /\ (listed = {} <=> n = 0)
    BY FS_Subset, FS_CardinalityType, FS_EmptySet
  <1>2. l \in [1..n -> listed] /\ \A i, j \in 1..n : i # j => l[i] # l[j]
    <2>1. Order!Cardinality(listed) = n
      BY OrderCardinality
    <2> HIDE DEF n
    <2> QED
      BY <2>1 DEF Order!SetToSeqs
  <1> HIDE DEF n
  <1>3. Len(l) = n /\ l \in Seq(IDs)
    BY <1>1, <1>2
  <1> QED
    BY <1>1, <1>2, <1>3 DEF Listed

LEMMA SaveListKeeps ==
    ASSUME StrategiesAssumption, OrderInv, Order!SaveList
    PROVE  TurnOK(list', cursor', skipped') /\ assigned' \in [IDs -> Nat]
  <1>1. PICK listed \in SUBSET IDs :
           /\ list' \in Order!SetToSeqs(listed)
           /\ cursor' = IF listed = {} THEN 0 ELSE cursor % Len(list')
           /\ assigned' = [a \in IDs |-> IF a \in listed THEN assigned[a] ELSE 0]
           /\ skipped' = IF list' = list THEN skipped ELSE Order!Zero
    BY DEF Order!SaveList
  <1>2. Listed(list') /\ (list' = <<>> <=> listed = {})
    BY <1>1, SavedIsListed DEF StrategiesAssumption
  <1>3. TurnOK(list, cursor, skipped) /\ assigned \in [IDs -> Nat] /\ cursor \in Nat
    BY DEF OrderInv, TurnOK, Pointed
  <1>4. Len(list') \in Nat /\ (list' = <<>> <=> Len(list') = 0)
    BY <1>2, ListIs
  <1>5. Pointed(list', cursor')
    <2> DEFINE n == Len(list')
    <2>1. n # 0 => cursor % n \in 0..(n - 1)
      <3> HIDE DEF n
      <3>1. n \in Nat
        BY <1>4 DEF n
      <3> QED
        BY <1>3, <3>1
    <2>2. CASE listed = {}
      BY <1>1, <1>2, <2>2 DEF Pointed
    <2>3. CASE listed # {} /\ list' # <<>>
      <3>1. cursor' = cursor % n /\ n # 0
        BY <1>1, <1>4, <2>3
      <3> HIDE DEF n
      <3>2. cursor' \in Nat /\ cursor' < n
        BY <1>4, <2>1, <3>1 DEF n
      <3> QED
        BY <3>2 DEF Pointed, n
    <2> QED
      BY <1>2, <2>2, <2>3
  <1>6. CASE list' = list /\ list # <<>>
    <2>1. cursor \in 0..(Len(list) - 1) /\ Len(list) \in Nat
      BY <1>3, <1>4, <1>6 DEF TurnOK, Pointed
    <2>2. cursor' = cursor
      <3>1. cursor % Len(list) = cursor
        BY <2>1, Round
      <3> QED
        BY <1>1, <1>2, <1>6, <3>1
    <2> QED
      BY <1>1, <1>3, <1>6, <2>2
  <1>7. CASE list' # list
    <2>1. TurnOK(list', cursor', Order!Zero)
      BY <1>2, <1>5, TurnBegins
    <2>2. skipped' = Order!Zero
      BY <1>1, <1>7
    <2>3. assigned' \in [IDs -> Nat]
      BY <1>1, <1>3
    <2> QED
      BY <2>1, <2>2, <2>3
  <1>8. CASE list' = <<>> /\ list = <<>>
    BY <1>1, <1>3, <1>4, <1>5, <1>8 DEF TurnOK
  <1> QED
    BY <1>1, <1>3, <1>6, <1>7, <1>8

\* Every action of the strategies keeps it.
LEMMA OrderStep ==
    ASSUME StrategiesAssumption, OrderInv, Order!Next
    PROVE  OrderInv'
  <1>1. /\ TurnOK(list, cursor, skipped) /\ BatchOK(batch, ahead)
        /\ Listed(list) /\ Pointed(list, cursor) /\ skipped \in [IDs -> Nat]
        /\ strategy \in Order!Strategies /\ assigned \in [IDs -> Nat] /\ outdone = {}
    BY DEF OrderInv, TurnOK
  <1>2. BatchSize \in Nat \ {0} /\ NoOne \notin IDs
    BY DEF StrategiesAssumption
  <1> DEFINE Turns == TurnOK(list, cursor, skipped)'
             Batches == BatchOK(batch, ahead)'
             Rest == strategy' \in Order!Strategies /\ assigned' \in [IDs -> Nat]
                     /\ outdone' = {}
  <1>3. Turns /\ Batches /\ Rest => OrderInv'
    BY DEF OrderInv
  <1>4. UNCHANGED <<list, cursor, skipped>> => Turns
    BY <1>1
  <1>5. batch' \in {batch, Order!NoBatch} /\ UNCHANGED ahead => Batches
    BY BatchStays
  <1> HIDE DEF Turns, Batches
  <1>6. ASSUME NEW some \in SUBSET Order!ToSet(list), some # {}, Order!Rotate(some)
        PROVE  OrderInv'
    <2>1. Turns
      BY <1>6, RotateKeeps DEF Turns
    <2>2. batch' = Order!NoBatch /\ outdone' = {} /\ UNCHANGED <<strategy, list, ahead>>
      BY <1>6 DEF Order!Rotate, Order!config
    <2>3. \E a : Order!Assign(a)
      BY <1>6 DEF Order!Rotate
    <2> QED
      BY <1>1, <1>3, <1>5, <2>1, <2>2, <2>3, AssignKeeps
  <1>7. ASSUME NEW some \in SUBSET Order!ToSet(list), some # {}, Order!TakeLeastUsed(some)
        PROVE  OrderInv'
    <2>1. Batches
      BY <1>2, <1>7, BatchKeeps DEF Batches
    <2>2. outdone' = {} /\ UNCHANGED <<strategy, list, cursor, skipped>>
      BY <1>7 DEF Order!TakeLeastUsed, Order!config
    <2>3. \E a : Order!Assign(a)
      BY <1>7 DEF Order!TakeLeastUsed
    <2> QED
      BY <1>1, <1>3, <1>4, <2>1, <2>2, <2>3, AssignKeeps
  <1>8. ASSUME NEW view \in Order!Looks, Order!TakeFirst(view)
        PROVE  OrderInv'
    <2>1. outdone' = {} /\ batch' = Order!NoBatch
      BY <1>1, <1>8, FirstKeeps
    <2>2. UNCHANGED <<strategy, list, cursor, skipped, ahead>>
      BY <1>8 DEF Order!TakeFirst, Order!config
    <2>3. \E a : Order!Assign(a)
      BY <1>8 DEF Order!TakeFirst
    <2> QED
      BY <1>1, <1>3, <1>4, <1>5, <2>1, <2>2, <2>3, AssignKeeps
  <1>9. ASSUME Order!Prefer \/ Order!Force
        PROVE  OrderInv'
    <2>1. /\ outdone' = {} /\ batch' \in {batch, Order!NoBatch}
          /\ UNCHANGED <<strategy, list, cursor, skipped, ahead>>
      BY <1>9 DEF Order!Prefer, Order!Force, Order!config
    <2>2. \E a : Order!Assign(a)
      BY <1>9 DEF Order!Prefer, Order!Force
    <2> QED
      BY <1>1, <1>3, <1>4, <1>5, <2>1, <2>2, AssignKeeps
  <1>10. ASSUME Order!FindNobody
         PROVE  OrderInv'
    BY <1>1, <1>3, <1>4, <1>5, <1>10 DEF Order!FindNobody, Order!config
  <1>11. ASSUME Order!Save
         PROVE  OrderInv'
    <2>1. outdone' = {} /\ Batches
      BY <1>5, <1>11 DEF Order!Save
    <2>2. CASE Order!SaveStrategy
      BY <1>1, <1>3, <1>4, <2>1, <2>2 DEF Order!SaveStrategy
    <2>3. CASE Order!SaveList
      <3>1. strategy' = strategy
        BY <2>3 DEF Order!SaveList
      <3>2. Turns /\ assigned' \in [IDs -> Nat]
        BY <2>3, SaveListKeeps DEF Turns
      <3> QED
        BY <1>1, <1>3, <2>1, <3>1, <3>2
    <2>4. CASE Order!SaveAccount
      <3>1. /\ \E a : assigned' = [assigned EXCEPT ![a] = 0]
            /\ UNCHANGED <<strategy, list, cursor, skipped>>
        BY <2>4 DEF Order!SaveAccount
      <3>2. assigned' \in [IDs -> Nat]
        <4>1. PICK a : assigned' = [assigned EXCEPT ![a] = 0]
          BY <3>1
        <4> QED
          BY <1>1, <4>1
      <3> QED
        BY <1>1, <1>3, <1>4, <2>1, <3>1, <3>2
    <2> QED
      BY <1>11, <2>2, <2>3, <2>4 DEF Order!Save
  <1>12. ASSUME Order!Restart
         PROVE  OrderInv'
    <2>1. /\ cursor' = 0 /\ batch' = Order!NoBatch /\ assigned' = Order!Zero
          /\ skipped' = Order!Zero /\ ahead' = 0 /\ outdone' = {}
          /\ UNCHANGED <<strategy, list>>
      BY <1>12 DEF Order!Restart, Order!Fresh, Order!config
    <2>2. TurnOK(list', cursor', skipped')
      <3>1. Listed(list') /\ Pointed(list', cursor')
        BY <1>1, <2>1, ListIs DEF Pointed
      <3> QED
        BY <2>1, <3>1, TurnBegins
    <2>3. BatchOK(batch', ahead')
      BY <1>2, <2>1 DEF BatchOK, Order!NoBatch
    <2>4. assigned' \in [IDs -> Nat]
      BY <2>1 DEF Order!Zero
    <2> QED
      BY <1>1, <1>3, <2>1, <2>2, <2>3, <2>4 DEF Turns, Batches
  <1>13. \/ \E some \in (SUBSET Order!ToSet(list)) \ {{}} :
               Order!Rotate(some) \/ Order!TakeLeastUsed(some)
         \/ \E view \in Order!Looks : Order!TakeFirst(view)
         \/ Order!Prefer \/ Order!Force
         \/ Order!FindNobody \/ Order!Save \/ Order!Restart
    BY Zenon DEF Order!Next
  <1>14. \A some \in (SUBSET Order!ToSet(list)) \ {{}} :
            some \in SUBSET Order!ToSet(list) /\ some # {}
    OBVIOUS
  <1> QED
    BY <1>6, <1>7, <1>8, <1>9, <1>10, <1>11, <1>12, <1>13, <1>14

\* The two halves of selectAccountWithMode do not disturb each other: a behaviour
\* of the composition is one of AccountRouting and one of RoutingStrategies.
THEOREM RoutingIsBoth == RoutingSpec => Spec /\ Order!Spec
  <1>1. RoutingInit => Init /\ Order!Init
    BY DEF RoutingInit
  <1>2. [RoutingNext]_<<subject, vars, choiceVars>> => [Next]_vars /\ [Order!Next]_Order!vars
    BY DEF RoutingNext, choiceVars, Order!vars
  <1> QED
    BY <1>1, <1>2, PTL DEF RoutingSpec, Spec, Order!Spec

\* The cursor, the counts and the batch, as every choice, save and restart leaves
\* them.
THEOREM OrderInvariant == Order!Spec => []OrderInv
  <1>1. Order!Init => OrderInv
    <2> SUFFICES ASSUME Order!Init PROVE OrderInv
      OBVIOUS
    <2>1. PICK listed \in SUBSET IDs : list \in Order!SetToSeqs(listed)
      BY DEF Order!Init
    <2>2. Listed(list)
      BY <2>1, SavedIsListed, StrategiesAssumption DEF StrategiesAssumption
    <2>3. cursor = 0 /\ Pointed(list, cursor)
      BY <2>2, ListIs DEF Order!Init, Pointed
    <2>4. TurnOK(list, cursor, skipped)
      BY <2>2, <2>3, TurnBegins DEF Order!Init
    <2>5. BatchOK(batch, ahead)
      BY StrategiesAssumption DEF StrategiesAssumption, Order!Init, Order!NoBatch, BatchOK
    <2>6. strategy \in Order!Strategies /\ assigned \in [IDs -> Nat] /\ outdone = {}
      BY DEF Order!Init, Order!Zero
    <2> QED
      BY <2>4, <2>5, <2>6 DEF OrderInv
  <1>2. OrderInv /\ [Order!Next]_Order!vars => OrderInv'
    <2>1. OrderInv /\ Order!Next => OrderInv'
      BY OrderStep, StrategiesAssumption
    <2>2. OrderInv /\ UNCHANGED Order!vars => OrderInv'
      BY DEF OrderInv, Order!vars
    <2> QED
      BY <2>1, <2>2
  <1> QED
    BY <1>1, <1>2, PTL DEF Order!Spec

LEMMA TypesStep ==
    ASSUME StrategiesAssumption, OrderInv, OrderInv', Order!TypeOK, Order!Next
    PROVE  Order!TypeOK'
  <1>1. /\ strategy' \in Order!Strategies /\ assigned' \in [IDs -> Nat]
        /\ cursor' \in 0..Len(list')
    BY DEF OrderInv, TurnOK, Pointed
  <1> DEFINE Batch == [account : IDs \union {NoOne}, left : 0..BatchSize]
  <1>2. /\ BatchSize \in Nat \ {0} /\ batch \in Batch /\ Order!NoBatch \in Batch
        /\ \E listed \in SUBSET IDs : list \in Order!SetToSeqs(listed)
    BY DEF StrategiesAssumption, Order!TypeOK, Order!NoBatch
  <1> HIDE DEF Batch
  <1>3. ASSUME NEW some \in SUBSET Order!ToSet(list), some # {}, Order!TakeLeastUsed(some)
        PROVE  batch' \in Batch
    <2> DEFINE goesOn == batch.left > 0 /\ batch.account \in some
               beats == {p \in Order!Pairs(some) : Order!LessUsed(p[1], p[2])}
               a == IF goesOn THEN batch.account ELSE Order!Winner(some, beats)
               left == IF goesOn THEN batch.left ELSE BatchSize
    <2>1. batch' = [account |-> a, left |-> left - 1]
      BY <1>3 DEF Order!TakeLeastUsed, Order!Filled
    <2>2. left - 1 \in 0..BatchSize
      BY <1>2 DEF Batch
    <2>3. goesOn => a \in IDs \union {NoOne}
      BY <1>2 DEF Batch
    <2>4. ~goesOn => a = Order!Winner(some, beats)
      OBVIOUS
    <2>5. Order!Winner(some, beats) \in IDs
      BY <1>3, LeastUsedWins
    <2> HIDE DEF a, left, goesOn, beats
    <2>6. a \in IDs \union {NoOne}
      BY <2>3, <2>4, <2>5
    <2> QED
      BY <2>1, <2>2, <2>6 DEF Batch
  <1>4. \/ \E some \in (SUBSET Order!ToSet(list)) \ {{}} :
               Order!Rotate(some) \/ Order!TakeLeastUsed(some)
        \/ \E view \in Order!Looks : Order!TakeFirst(view)
        \/ Order!Prefer \/ Order!Force
        \/ Order!FindNobody \/ Order!Save \/ Order!Restart
    BY Zenon DEF Order!Next
  <1>5. batch' \in Batch
    <2>1. ASSUME NEW some, Order!Rotate(some)
          PROVE  batch' \in Batch
      BY <1>2, <2>1 DEF Order!Rotate
    <2>2. ASSUME NEW view, Order!TakeFirst(view)
          PROVE  batch' \in Batch
      BY <1>2, <2>2 DEF Order!TakeFirst
    <2>3. ASSUME Order!Prefer
          PROVE  batch' \in Batch
      BY <1>2, <2>3 DEF Order!Prefer
    <2>4. ASSUME Order!Force \/ Order!FindNobody \/ Order!Save \/ Order!Restart
          PROVE  batch' \in Batch
      BY <1>2, <2>4 DEF Order!Force, Order!FindNobody, Order!Save, Order!Restart, Order!Fresh
    <2> QED
      BY <1>3, <1>4, <2>1, <2>2, <2>3, <2>4
  <1>6. \E listed \in SUBSET IDs : list' \in Order!SetToSeqs(listed)
    <2>1. list' = list \/ Order!SaveList
      <3>1. ASSUME NEW some, Order!Rotate(some) \/ Order!TakeLeastUsed(some)
            PROVE  list' = list
        BY <3>1 DEF Order!Rotate, Order!TakeLeastUsed, Order!config
      <3>2. ASSUME NEW view, Order!TakeFirst(view)
            PROVE  list' = list
        BY <3>2 DEF Order!TakeFirst, Order!config
      <3>3. ASSUME Order!Prefer \/ Order!Force \/ Order!FindNobody \/ Order!Restart
            PROVE  list' = list
        BY <3>3 DEF Order!Prefer, Order!Force, Order!FindNobody, Order!Restart, Order!config
      <3>4. Order!Save => list' = list \/ Order!SaveList
        BY DEF Order!Save, Order!SaveStrategy, Order!SaveAccount
      <3> QED
        BY <1>4, <3>1, <3>2, <3>3, <3>4
    <2>2. Order!SaveList => \E listed \in SUBSET IDs : list' \in Order!SetToSeqs(listed)
      BY DEF Order!SaveList
    <2> QED
      BY <1>2, <2>1, <2>2
  <1> QED
    BY <1>1, <1>5, <1>6 DEF Order!TypeOK, Batch

\* What the strategies keep has its type, whatever is saved.
THEOREM ChoiceTypes == RoutingSpec => []Order!TypeOK
  <1>1. Order!Init => Order!TypeOK
    <2> SUFFICES ASSUME Order!Init PROVE Order!TypeOK
      OBVIOUS
    <2>1. PICK listed \in SUBSET IDs : list \in Order!SetToSeqs(listed)
      BY DEF Order!Init
    <2>2. Len(list) \in Nat
      BY <2>1, SavedIsListed, ListIs, StrategiesAssumption DEF StrategiesAssumption
    <2>3. cursor \in 0..Len(list) /\ assigned \in [IDs -> Nat]
      BY <2>2 DEF Order!Init, Order!Zero
    <2>4. batch \in [account : IDs \union {NoOne}, left : 0..BatchSize]
      BY StrategiesAssumption DEF StrategiesAssumption, Order!Init, Order!NoBatch
    <2> QED
      BY <2>1, <2>3, <2>4 DEF Order!Init, Order!TypeOK
  <1>2. OrderInv /\ OrderInv' /\ Order!TypeOK /\ [Order!Next]_Order!vars => Order!TypeOK'
    <2>1. OrderInv /\ OrderInv' /\ Order!TypeOK /\ Order!Next => Order!TypeOK'
      BY TypesStep, StrategiesAssumption
    <2>2. Order!TypeOK /\ UNCHANGED Order!vars => Order!TypeOK'
      BY DEF Order!TypeOK, Order!vars
    <2> QED
      BY <2>1, <2>2
  <1> QED
    BY <1>1, <1>2, RoutingIsBoth, OrderInvariant, PTL DEF Order!Spec

\* Round robin passes no account over as often in a row as there are accounts: each
\* time it has come closer to it.
THEOREM TurnsComeRound == RoutingSpec => []EveryoneGetsATurn
  <1>1. OrderInv => EveryoneGetsATurn
    <2> SUFFICES ASSUME OrderInv, NEW a \in Order!ToSet(list)
                 PROVE  skipped[a] < Len(list)
      BY DEF EveryoneGetsATurn, Order!EveryoneGetsATurn
    <2>1. TurnOK(list, cursor, skipped) /\ Listed(list) /\ Pointed(list, cursor)
      BY DEF OrderInv, TurnOK
    <2>2. PICK i \in 1..Len(list) : list[i] = a
      BY <2>1, InList
    <2>3. skipped[a] \in Nat /\ skipped[a] + Away(list, cursor, i) < Len(list)
      BY <2>1, <2>2, ListIs DEF TurnOK
    <2>4. Len(list) \in Nat /\ Away(list, cursor, i) \in Nat
      BY <2>1, ListIs DEF Pointed, Away
    <2> QED
      BY <2>3, <2>4
  <1> QED
    BY <1>1, RoutingIsBoth, OrderInvariant, PTL

\* A batch of least used choices ends after BatchSize of them, and the next choice
\* compares.
THEOREM BatchesEnd == RoutingSpec => []UseIsCompared
  <1>1. OrderInv => UseIsCompared
    <2> SUFFICES ASSUME OrderInv PROVE ahead < BatchSize
      BY DEF UseIsCompared, Order!UseIsCompared
    <2>1. batch.left \in Nat /\ ahead \in Nat /\ ahead + batch.left < BatchSize
      BY DEF OrderInv, BatchOK
    <2> QED
      BY <2>1, StrategiesAssumption DEF StrategiesAssumption
  <1> QED
    BY <1>1, RoutingIsBoth, OrderInvariant, PTL

\* The loops over the candidates choose the first in the order of README.md, for any
\* list, balances and resets.
THEOREM LoopsFindTheFirst == RoutingSpec => []FirstIsTaken
  <1>1. OrderInv => FirstIsTaken
    BY DEF OrderInv, FirstIsTaken, Order!FirstIsTaken
  <1> QED
    BY <1>1, RoutingIsBoth, OrderInvariant, PTL

-----------------------------------------------------------------------------
(* Every change a handler makes to a sound health record leaves it sound,  *)
(* and only two of them touch the half-open slot.                          *)

\* Any failure count, however large, has a back-off step (the last one repeats).
LEMMA BackoffType ==
    ASSUME NEW n \in Nat
    PROVE  Backoff(n) \in Nat \ {0}
  BY LadderAssumption DEF Backoff

\* The record of a new account is sound at any time.
LEMMA EmptyRuntimeSound ==
    ASSUME NEW n \in Nat
    PROVE  /\ EmptyRuntime \in Runtime
           /\ Sound(EmptyRuntime, n)
           /\ ~EmptyRuntime.probe
  BY DEF EmptyRuntime, Runtime, CooldownReasons, RecoverableReasons, NoReason, Never,
         Sound, Cooling, Upstream

\* clearUpstreamFailures: the count and the network cooldown go together.
LEMMA ReachableSound ==
    ASSUME NEW runtime \in Runtime, NEW n \in Nat \ {0}, Sound(runtime, n)
    PROVE  /\ Reachable(runtime, n) \in Runtime
           /\ Sound(Reachable(runtime, n), n)
           /\ Reachable(runtime, n).probe = runtime.probe
  <1>1. Reachable(runtime, n) \in Runtime
    BY DEF Reachable, ClearUpstream, Runtime, CooldownReasons, RecoverableReasons, NoReason, Never
  <1>2. Sound(Reachable(runtime, n), n)
    BY DEF Reachable, ClearUpstream, Runtime, CooldownReasons, RecoverableReasons, NoReason, Never,
           Sound, Cooling, Upstream
  <1>3. Reachable(runtime, n).probe = runtime.probe
    BY DEF Reachable, ClearUpstream, Runtime
  <1> QED
    BY <1>1, <1>2, <1>3

\* markRuntimeSuccessLocked keeps nothing but the slot.
LEMMA MarkSuccessSound ==
    ASSUME NEW runtime \in Runtime, NEW n \in Nat \ {0}
    PROVE  /\ MarkSuccess(runtime, n) \in Runtime
           /\ Sound(MarkSuccess(runtime, n), n)
           /\ MarkSuccess(runtime, n).probe = runtime.probe
  <1>1. MarkSuccess(runtime, n) \in Runtime
    BY DEF MarkSuccess, EmptyRuntime, Runtime, CooldownReasons, RecoverableReasons, NoReason, Never
  <1>2. Sound(MarkSuccess(runtime, n), n)
    BY DEF MarkSuccess, EmptyRuntime, Runtime, CooldownReasons, RecoverableReasons, NoReason, Never,
           Sound, Cooling, Upstream
  <1>3. MarkSuccess(runtime, n).probe = runtime.probe
    BY DEF MarkSuccess, EmptyRuntime, Runtime
  <1> QED
    BY <1>1, <1>2, <1>3

\* blockAccountLocked for a banned account.
LEMMA HardBlockSound ==
    ASSUME NEW runtime \in Runtime, NEW n \in Nat \ {0}
    PROVE  /\ HardBlock(runtime, n) \in Runtime
           /\ Sound(HardBlock(runtime, n), n)
  <1>1. HardBlock(runtime, n) \in Runtime
    BY DEF HardBlock, MarkSuccess, EmptyRuntime, Runtime, CooldownReasons, RecoverableReasons, NoReason, Never
  <1>2. Sound(HardBlock(runtime, n), n)
    BY DEF HardBlock, MarkSuccess, EmptyRuntime, Runtime, CooldownReasons, RecoverableReasons, NoReason, Never,
           Sound, Cooling, Upstream
  <1> QED
    BY <1>1, <1>2

\* cooldownAccountForFailure, whether the failure is counted or ignored.
LEMMA CountFailureSound ==
    ASSUME NEW runtime \in Runtime, NEW n \in Nat \ {0}, Sound(runtime, n),
           NEW started \in Nat
    PROVE  /\ CountFailure(runtime, started, n) \in Runtime
           /\ Sound(CountFailure(runtime, started, n), n)
           /\ CountFailure(runtime, started, n).probe = runtime.probe
  <1> DEFINE startsOver ==
                \/ runtime.lastFailure = Never
                \/ /\ runtime.until # Never
                   /\ n - runtime.until > FailureReset
             failures == IF startsOver THEN 1 ELSE runtime.failures + 1
             counted == [runtime EXCEPT !.failures = failures, !.lastFailure = n,
                             !.barrier = n, !.reason = Upstream,
                             !.until = n + Backoff(failures)]
  <1>1. failures \in Nat \ {0}
    BY DEF Runtime
  <1>2. Backoff(failures) \in Nat \ {0}
    BY <1>1, BackoffType
  <1>3. /\ counted \in Runtime /\ counted.probe = runtime.probe
        /\ counted.failures = failures /\ counted.lastFailure = n
        /\ counted.barrier = n /\ counted.reason = Upstream
    <2> HIDE DEF failures
    <2>1. n + Backoff(failures) \in Nat
      BY <1>2
    <2>2. counted \in Runtime
      BY <1>1, <2>1 DEF Runtime, CooldownReasons
    <2>3. /\ counted.probe = runtime.probe /\ counted.failures = failures
          /\ counted.lastFailure = n /\ counted.barrier = n
          /\ counted.reason = Upstream
      BY DEF Runtime
    <2> QED
      BY <2>2, <2>3
  <1>4. Sound(counted, n)
    <2> HIDE DEF counted, failures
    <2> QED
      BY <1>1, <1>3 DEF Sound, Upstream, NoReason, Never
  <1>5. CountFailure(runtime, started, n) \in {runtime, counted}
    BY DEF CountFailure
  <1> HIDE DEF counted
  <1> QED
    BY <1>3, <1>4, <1>5

\* applyRecoveryCooldownLocked, with or without a Retry-After.
LEMMA RecoveryCooldownSound ==
    ASSUME NEW runtime \in Runtime, NEW n \in Nat \ {0},
           NEW reason \in CooldownReasons \ {NoReason, Upstream},
           NEW hint \in Nat \cup {NoHint}
    PROVE  /\ RecoveryCooldown(runtime, reason, hint, n) \in Runtime
           /\ Sound(RecoveryCooldown(runtime, reason, hint, n), n)
           /\ RecoveryCooldown(runtime, reason, hint, n).probe = runtime.probe
  <1> DEFINE startsOver ==
                \/ runtime.reason # reason
                \/ runtime.lastRecovery = Never
                \/ n - runtime.lastRecovery > FailureReset
             attempts == IF startsOver THEN 1 ELSE runtime.recovery + 1
             duration == IF hint = NoHint THEN Backoff(attempts) ELSE hint
             cooled == [runtime EXCEPT !.recovery = attempts, !.failures = 0,
                             !.lastFailure = Never, !.barrier = n,
                             !.lastRecovery = n, !.reason = reason,
                             !.until = n + duration]
  <1>1. attempts \in Nat
    BY DEF Runtime
  <1>2. duration \in Nat
    BY <1>1, BackoffType DEF NoHint
  <1>3. /\ cooled \in Runtime /\ cooled.probe = runtime.probe
        /\ cooled.failures = 0 /\ cooled.lastFailure = Never
        /\ cooled.barrier = n /\ cooled.reason = reason
    <2> HIDE DEF attempts, duration
    <2>1. n + duration \in Nat
      BY <1>2
    <2>2. cooled \in Runtime
      BY <1>1, <2>1 DEF Runtime, Never
    <2>3. /\ cooled.probe = runtime.probe /\ cooled.failures = 0
          /\ cooled.lastFailure = Never /\ cooled.barrier = n
          /\ cooled.reason = reason
      BY DEF Runtime
    <2> QED
      BY <2>2, <2>3
  <1>4. Sound(cooled, n)
    <2> HIDE DEF cooled
    <2> QED
      BY <1>3 DEF Sound, Never
  <1>5. RecoveryCooldown(runtime, reason, hint, n) = cooled
    BY DEF RecoveryCooldown
  <1> HIDE DEF cooled
  <1> QED
    BY <1>3, <1>4, <1>5

\* finishAccountProbe(account, true).
LEMMA AcceptSound ==
    ASSUME NEW runtime \in Runtime, NEW n \in Nat \ {0}, Sound(runtime, n)
    PROVE  /\ Accept(runtime) \in Runtime
           /\ Sound(Accept(runtime), n)
  <1>1. Accept(runtime) \in Runtime
    BY DEF Accept, Runtime, CooldownReasons, RecoverableReasons, NoReason, Never
  <1>2. Sound(Accept(runtime), n)
    BY DEF Accept, Runtime, CooldownReasons, RecoverableReasons, NoReason, Never,
           Sound, Cooling, Upstream
  <1> QED
    BY <1>1, <1>2

\* handleAccountReset and handleAccountResume.
LEMMA WakeSound ==
    ASSUME NEW runtime \in Runtime, NEW n \in Nat \ {0}, Sound(runtime, n)
    PROVE  /\ Wake(runtime, n) \in Runtime
           /\ Sound(Wake(runtime, n), n)
           /\ Wake(runtime, n).probe = runtime.probe
  <1>1. Wake(runtime, n) \in Runtime
    BY DEF Wake, Runtime, CooldownReasons, RecoverableReasons, NoReason, Never
  <1>2. Sound(Wake(runtime, n), n)
    BY DEF Wake, Runtime, CooldownReasons, RecoverableReasons, NoReason, Never,
           Sound, Cooling, Upstream
  <1>3. Wake(runtime, n).probe = runtime.probe
    BY DEF Wake, Runtime
  <1> QED
    BY <1>1, <1>2, <1>3

\* Time alone makes no record unsound.
LEMMA SoundLater ==
    ASSUME NEW runtime \in Runtime, NEW n \in Nat, Sound(runtime, n)
    PROVE  Sound(runtime, n + 1)
  BY DEF Runtime, Sound, Cooling

-----------------------------------------------------------------------------
(* The whole state.                                                        *)

USE RoutingAssumption, LadderAssumption

RequestsTyped ==
    /\ req \in [Requests -> Request]
    /\ \A r \in Requests :
          req[r].pc \notin {"idle", "choosing"} => req[r].acct \in Accounts

RuntimesOK ==
    /\ rt \in [Accounts -> Runtime]
    /\ \A a \in Accounts : Sound(rt[a], now)

ConfigsTyped ==
    /\ cfg \in Config /\ disk \in Config /\ cand \in Config
    /\ lock \in Requests \cup {Admin, NoOne}

\* TypeOK and CooldownHasReason in the parts that actions change together.
Healthy ==
    now \in Nat \ {0} /\ ConfigsTyped /\ RuntimesOK /\ RequestsTyped

LEMMA HealthyParts == Healthy <=> TypeOK /\ CooldownHasReason
  BY DEF Healthy, TypeOK, ConfigsTyped, RuntimesOK, RequestsTyped, CooldownHasReason

\* A goroutine moves to another place of handleProxy.
LEMMA RequestStep ==
    ASSUME RequestsTyped, NEW r \in Requests, NEW v \in Request,
           v.pc \notin {"idle", "choosing"} => v.acct \in Accounts,
           req' = [req EXCEPT ![r] = v]
    PROVE  RequestsTyped'
  BY DEF RequestsTyped

\* The goroutine keeps its account and changes its place.
LEMMA GotoTyped ==
    ASSUME RequestsTyped, NEW r \in Requests, NEW place \in Places,
           place = "choosing" \/ req[r].acct \in Accounts, Goto(r, place)
    PROVE  RequestsTyped'
  <1> DEFINE v == [req[r] EXCEPT !.pc = place]
  <1>1. req[r] \in Request
    BY DEF RequestsTyped
  <1>2. v \in Request /\ v.pc = place /\ v.acct = req[r].acct
    BY <1>1 DEF Request
  <1>3. req' = [req EXCEPT ![r] = v]
    BY DEF Goto
  <1> HIDE DEF v
  <1> QED
    BY <1>2, <1>3, RequestStep

\* The outcome is recorded and the slot about to be given back.
LEMMA SettleTyped ==
    ASSUME RequestsTyped, NEW r \in Requests, NEW place \in Places,
           req[r].acct \in Accounts, Settle(r, place)
    PROVE  RequestsTyped'
  <1> DEFINE v == [req[r] EXCEPT !.pc = "settled", !.next = place]
  <1>1. req[r] \in Request
    BY DEF RequestsTyped
  <1>2. v \in Request /\ v.acct = req[r].acct
    BY <1>1 DEF Request, Places
  <1>3. req' = [req EXCEPT ![r] = v]
    BY DEF Settle
  <1> HIDE DEF v
  <1> QED
    BY <1>2, <1>3, RequestStep

\* The attempt is over.
LEMMA ReturnTyped ==
    ASSUME RequestsTyped, NEW r \in Requests, NEW place \in Places,
           place = "relaying" => req[r].acct \in Accounts, Return(r, place)
    PROVE  RequestsTyped'
  <1>1. req[r] \in Request
    BY DEF RequestsTyped
  <1>2. Idle \in Request /\ Idle.pc = "idle"
    BY DEF Idle, Request, Places, Never
  <1>3. CASE place = "choosing"
    <2> DEFINE v == [Idle EXCEPT !.pc = place, !.tried = req[r].tried]
    <2>1. v \in Request /\ v.pc = "choosing"
      BY <1>1, <1>2, <1>3 DEF Request, Places
    <2>2. req' = [req EXCEPT ![r] = v]
      BY <1>3 DEF Return
    <2> HIDE DEF v
    <2> QED
      BY <2>1, <2>2, RequestStep
  <1>4. CASE place = "relaying"
    <2> DEFINE v == [req[r] EXCEPT !.pc = place, !.probe = FALSE, !.next = "idle"]
    <2>1. v \in Request /\ v.acct = req[r].acct
      BY <1>1, <1>4 DEF Request, Places
    <2>2. req' = [req EXCEPT ![r] = v]
      BY <1>4 DEF Return
    <2> HIDE DEF v
    <2> QED
      BY <1>4, <2>1, <2>2, RequestStep
  <1>5. CASE place \notin {"choosing", "relaying"}
    <2>1. req' = [req EXCEPT ![r] = Idle]
      BY <1>5 DEF Return
    <2> QED
      BY <1>2, <2>1, RequestStep
  <1> QED
    BY <1>3, <1>4, <1>5

\* A change to one record.
LEMMA RuntimeStep ==
    ASSUME RuntimesOK, now' = now, NEW a \in Accounts,
           NEW x \in Runtime, Sound(x, now),
           rt' = [rt EXCEPT ![a] = x] \/ rt' = rt
    PROVE  RuntimesOK'
  BY DEF RuntimesOK

\* finishAccountProbe clears at most the flag of r's own account.
LEMMA ReleasedOK ==
    ASSUME RuntimesOK, NEW r \in Requests, now' = now, now \in Nat,
           rt' = Released(r), req[r].acct \in Accounts
    PROVE  RuntimesOK'
  <1> DEFINE y == rt[req[r].acct]
             x == [y EXCEPT !.probe = FALSE]
  <1>1. y \in Runtime /\ Sound(y, now)
    BY DEF RuntimesOK
  <1>2. /\ x \in Runtime /\ x.until = y.until /\ x.reason = y.reason
        /\ x.failures = y.failures /\ x.lastFailure = y.lastFailure
        /\ x.barrier = y.barrier
    BY <1>1 DEF Runtime
  <1>3. Sound(x, now)
    <2> HIDE DEF x, y
    <2> QED
      BY <1>1, <1>2 DEF Sound, Cooling
  <1>4. rt' = [rt EXCEPT ![req[r].acct] = x] \/ rt' = rt
    BY DEF Released
  <1> HIDE DEF x, y
  <1> QED
    BY <1>2, <1>3, <1>4, RuntimeStep

\* What an outcome writes is written to r's account, or dropped as stale.
LEMMA UpdateOK ==
    ASSUME RuntimesOK, NEW r \in Requests, req[r].acct \in Accounts, now' = now,
           NEW x \in Runtime, Sound(x, now), Update(r, x)
    PROVE  RuntimesOK'
  BY RuntimeStep DEF Update

-----------------------------------------------------------------------------
(* Types and sound health records.                                         *)

\* The router starts with a fresh record for every account.
LEMMA HealthyInit == Init => Healthy
  <1> SUFFICES ASSUME Init PROVE Healthy
    OBVIOUS
  <1>1. now \in Nat \ {0}
    BY DEF Init
  <1>2. ConfigsTyped
    BY DEF Init, ConfigsTyped, Config, BlockReasons
  <1>3. RuntimesOK
    BY <1>1, EmptyRuntimeSound DEF Init, RuntimesOK
  <1>4. RequestsTyped
    <2>1. Idle \in Request /\ Idle.pc = "idle"
      BY DEF Idle, Request, Places, Never
    <2> QED
      BY <2>1 DEF Init, RequestsTyped
  <1> QED
    BY <1>1, <1>2, <1>3, <1>4 DEF Healthy

\* Everything one attempt of a request does before its outcome is known.
LEMMA HealthyAttempt ==
    ASSUME Healthy, NEW r \in Requests,
           \/ Arrive(r) \/ Choose(r) \/ Abandon(r) \/ Dispatch(r) \/ Gated(r)
           \/ Disconnect(r) \/ Headers(r) \/ AcceptProbe(r)
    PROVE  Healthy'
  <1> USE DEF Healthy
  <1>1. ASSUME UNCHANGED <<now, cfg, disk, lock, cand, rt>>, RequestsTyped'
        PROVE  Healthy'
    BY <1>1 DEF ConfigsTyped, RuntimesOK
  <1>2. ASSUME UNCHANGED <<now, cfg, disk, lock, cand>>, RuntimesOK', RequestsTyped'
        PROVE  Healthy'
    BY <1>2 DEF ConfigsTyped
  <1>3. req[r] \in Request
    BY DEF RequestsTyped
  <1>4. CASE Arrive(r)
    BY <1>1, <1>4, GotoTyped DEF Arrive, Places
  <1>5. CASE Reject(r) \/ StopWaiting(r)
    BY <1>1, <1>5, ReturnTyped DEF Reject, StopWaiting, Places
  <1>6. CASE Select(r)
    <2>1. PICK a \in Candidates(r) :
            /\ rt' = IF SoftFailure(a) THEN [rt EXCEPT ![a].probe = TRUE] ELSE rt
            /\ req' = [req EXCEPT ![r] =
                 [Idle EXCEPT !.pc = "picked", !.acct = a, !.rev = cfg[a].rev,
                              !.probe = SoftFailure(a), !.tried = req[r].tried \cup {a}]]
      BY <1>6 DEF Select
    <2>2. a \in Accounts
      BY DEF Candidates, Regular, Probes, DueProbes, Emergency, Foremost
    <2>3. RequestsTyped'
      <3> DEFINE v == [Idle EXCEPT !.pc = "picked", !.acct = a, !.rev = cfg[a].rev,
                          !.probe = SoftFailure(a), !.tried = req[r].tried \cup {a}]
      <3>1. cfg[a].rev \in Nat
        BY <2>2 DEF ConfigsTyped, Config
      <3>2. SoftFailure(a) \in BOOLEAN
        BY DEF SoftFailure, Recoverable
      <3>3. v \in Request /\ v.acct = a
        BY <1>3, <2>2, <3>1, <3>2 DEF Idle, Request, Places, Never
      <3>4. req' = [req EXCEPT ![r] = v]
        BY <2>1
      <3> HIDE DEF v
      <3> QED
        BY <2>2, <3>3, <3>4, RequestStep
    <2>4. RuntimesOK'
      <3> DEFINE y == rt[a]
                 x == [y EXCEPT !.probe = TRUE]
      <3>1. y \in Runtime /\ Sound(y, now)
        BY <2>2 DEF RuntimesOK
      <3>2. /\ x \in Runtime /\ x.until = y.until /\ x.reason = y.reason
            /\ x.failures = y.failures /\ x.lastFailure = y.lastFailure
            /\ x.barrier = y.barrier
        BY <3>1 DEF Runtime
      <3>3. Sound(x, now)
        <4> HIDE DEF x, y
        <4> QED
          BY <3>1, <3>2 DEF Sound, Cooling
      <3>4. rt' = [rt EXCEPT ![a] = x] \/ rt' = rt
        BY <2>1
      <3>5. now' = now
        BY <1>6 DEF Select
      <3> HIDE DEF x, y
      <3> QED
        BY <2>2, <3>2, <3>3, <3>4, <3>5, RuntimeStep
    <2> QED
      BY <1>2, <1>6, <2>3, <2>4 DEF Select
  <1>7. CASE Abandon(r) \/ Gated(r) \/ Disconnect(r)
    <2>1. req[r].acct \in Accounts
      BY <1>7 DEF RequestsTyped, Abandon, Gated, Disconnect, At
    <2>2. RuntimesOK'
      BY <1>7, <2>1, ReleasedOK DEF Abandon, Gated, Disconnect
    <2>3. \E place \in {"choosing", "idle"} : Return(r, place)
      BY <1>7 DEF Abandon, Gated, Disconnect
    <2>4. RequestsTyped'
      BY <2>3, ReturnTyped DEF Places
    <2> QED
      BY <1>2, <1>7, <2>2, <2>4 DEF Abandon, Gated, Disconnect
  <1>8. CASE Dispatch(r)
    <2> DEFINE v == [req[r] EXCEPT !.pc = "sent", !.started = now]
    <2>1. req[r].acct \in Accounts
      BY <1>8 DEF RequestsTyped, Dispatch, At
    <2>2. v \in Request /\ v.acct = req[r].acct
      BY <1>3 DEF Request, Places
    <2>3. req' = [req EXCEPT ![r] = v]
      BY <1>8 DEF Dispatch
    <2> HIDE DEF v
    <2> QED
      BY <1>1, <1>8, <2>1, <2>2, <2>3, RequestStep DEF Dispatch
  <1>9. CASE Headers(r)
    <2>1. req[r].acct \in Accounts
      BY <1>9 DEF RequestsTyped, Headers, At
    <2>2. \E place \in {"accepting", "streaming"} : Goto(r, place)
      BY <1>9 DEF Headers
    <2> QED
      BY <1>1, <1>9, <2>1, <2>2, GotoTyped DEF Headers, Places
  <1>10. CASE AcceptProbe(r)
    <2> DEFINE v == [req[r] EXCEPT !.pc = "streaming", !.probe = FALSE]
               x == Accept(rt[req[r].acct])
    <2>1. req[r].acct \in Accounts
      BY <1>10 DEF RequestsTyped, AcceptProbe, At
    <2>2. v \in Request /\ v.acct = req[r].acct
      BY <1>3 DEF Request, Places
    <2>3. req' = [req EXCEPT ![r] = v]
      BY <1>10 DEF AcceptProbe
    <2>4. x \in Runtime /\ Sound(x, now)
      BY <2>1, AcceptSound DEF RuntimesOK
    <2>5. rt' = [rt EXCEPT ![req[r].acct] = x] \/ rt' = rt
      BY <1>10 DEF AcceptProbe
    <2>6. UNCHANGED <<now, cfg, disk, lock, cand>>
      BY <1>10 DEF AcceptProbe
    <2> HIDE DEF v, x
    <2> QED
      BY <1>2, <2>1, <2>2, <2>3, <2>4, <2>5, <2>6, RequestStep, RuntimeStep
  <1> QED
    BY <1>4, <1>5, <1>6, <1>7, <1>8, <1>9, <1>10 DEF Choose

\* What is known of a request whose outcome is being recorded.
LEMMA OutcomeContext ==
    ASSUME Healthy, NEW r \in Requests, req[r].pc \notin {"idle", "choosing"}
    PROVE  /\ req[r].acct \in Accounts
           /\ req[r].started \in Nat
           /\ rt[req[r].acct] \in Runtime
           /\ Sound(rt[req[r].acct], now)
           /\ NextAccount(r) \in Places
  BY DEF Healthy, RequestsTyped, RuntimesOK, Request, NextAccount, Places

\* Every outcome that does not need configMu.
LEMMA HealthyOutcome ==
    ASSUME Healthy, NEW r \in Requests,
           \/ Fail(r) \/ RateLimited(r) \/ Incompatible(r) \/ OtherStatus(r)
           \/ Succeed(r) \/ Finish(r) \/ Relay(r)
    PROVE  Healthy'
  <1> USE DEF Healthy
  <1>1. ASSUME UNCHANGED <<now, cfg, disk, lock, cand>>, RuntimesOK', RequestsTyped'
        PROVE  Healthy'
    BY <1>1 DEF ConfigsTyped
  <1>2. UNCHANGED <<now, cfg, disk, lock, cand>>
    BY DEF Fail, RateLimited, Incompatible, OtherStatus, Succeed, Finish, Relay
  <1>3. req[r].pc \notin {"idle", "choosing"}
    BY DEF Fail, RateLimited, Incompatible, OtherStatus, Succeed, Finish, Relay, At
  <1> DEFINE y == rt[req[r].acct]
  <1>4. /\ req[r].acct \in Accounts /\ req[r].started \in Nat
        /\ y \in Runtime /\ Sound(y, now) /\ NextAccount(r) \in Places
    BY <1>3, OutcomeContext
  <1>5. CASE Fail(r)
    <2> DEFINE x == CountFailure(y, req[r].started, now)
    <2>1. x \in Runtime /\ Sound(x, now)
      BY <1>4, CountFailureSound
    <2>2. Update(r, x)
      BY <1>5 DEF Fail
    <2>3. RuntimesOK'
      <3> HIDE DEF x, y
      <3> QED
        BY <1>2, <1>4, <2>1, <2>2, UpdateOK
    <2>4. RequestsTyped'
      BY <1>4, <1>5, SettleTyped DEF Fail, Places
    <2> QED
      BY <1>1, <1>2, <2>3, <2>4
  <1>6. CASE RateLimited(r)
    <2>1. PICK hint \in Hints \cup {NoHint} :
             Update(r, IF Covered(y, "rate_limit", req[r].started, now) THEN y
                       ELSE RecoveryCooldown(y, "rate_limit", hint, now))
      BY <1>6 DEF RateLimited
    <2> DEFINE x == IF Covered(y, "rate_limit", req[r].started, now) THEN y
                    ELSE RecoveryCooldown(y, "rate_limit", hint, now)
    <2>2. "rate_limit" \in CooldownReasons \ {NoReason, Upstream}
      BY DEF CooldownReasons, NoReason, Upstream
    <2>3. x \in Runtime /\ Sound(x, now)
      <3>1. hint \in Nat \cup {NoHint}
        OBVIOUS
      <3> QED
        BY <1>4, <2>2, <3>1, RecoveryCooldownSound
    <2>4. RuntimesOK'
      <3>1. Update(r, x)
        BY <2>1
      <3> HIDE DEF x, y
      <3> QED
        BY <1>2, <1>4, <2>3, <3>1, UpdateOK
    <2>5. RequestsTyped'
      BY <1>4, <1>6, SettleTyped DEF RateLimited
    <2> QED
      BY <1>1, <1>2, <2>4, <2>5
  <1>7. CASE Incompatible(r) \/ OtherStatus(r)
    <2> DEFINE x == Reachable(y, now)
    <2>1. x \in Runtime /\ Sound(x, now)
      BY <1>4, ReachableSound
    <2>2. RuntimesOK'
      <3>1. Update(r, x)
        BY <1>7 DEF Incompatible, OtherStatus
      <3> HIDE DEF x, y
      <3> QED
        BY <1>2, <1>4, <2>1, <3>1, UpdateOK
    <2>3. RequestsTyped'
      <3>1. \E place \in Places : Settle(r, place)
        BY <1>4, <1>7 DEF Incompatible, OtherStatus, Places
      <3> QED
        BY <1>4, <3>1, SettleTyped
    <2> QED
      BY <1>1, <1>2, <2>2, <2>3
  <1>8. CASE Succeed(r)
    <2> DEFINE x == MarkSuccess(y, now)
    <2>1. x \in Runtime /\ Sound(x, now)
      BY <1>4, MarkSuccessSound
    <2>2. rt' = [rt EXCEPT ![req[r].acct] = x] \/ rt' = rt
      BY <1>8 DEF Succeed
    <2>3. RuntimesOK'
      <3> HIDE DEF x, y
      <3> QED
        BY <1>2, <1>4, <2>1, <2>2, RuntimeStep
    <2>4. Settle(r, "idle") \/ Goto(r, "verifying")
      BY <1>8 DEF Succeed
    <2>5. RequestsTyped'
      BY <1>4, <2>4, SettleTyped, GotoTyped DEF Places
    <2> QED
      BY <1>1, <1>2, <2>3, <2>5
  <1>9. CASE Finish(r)
    <2>1. RuntimesOK'
      BY <1>2, <1>4, <1>9, ReleasedOK DEF Finish
    <2>2. req[r].next \in Places
      BY DEF RequestsTyped, Request
    <2>3. RequestsTyped'
      BY <1>4, <1>9, <2>2, ReturnTyped DEF Finish
    <2> QED
      BY <1>1, <1>2, <2>1, <2>3
  <1>10. CASE Relay(r)
    <2> DEFINE x == CountFailure(y, req[r].started, now)
    <2>1. x \in Runtime /\ Sound(x, now)
      BY <1>4, CountFailureSound
    <2>2. RuntimesOK'
      <3>1. UNCHANGED rt \/ Update(r, x)
        BY <1>10 DEF Relay
      <3> HIDE DEF x, y
      <3> QED
        BY <1>2, <1>4, <2>1, <3>1, UpdateOK DEF RuntimesOK
    <2>3. RequestsTyped'
      BY <1>10, ReturnTyped DEF Relay, Places
    <2> QED
      BY <1>1, <1>2, <2>2, <2>3
  <1> QED
    BY <1>5, <1>6, <1>7, <1>8, <1>9, <1>10

\* A writer goes to "writing" and will come back to a place of its own.
LEMMA WritingTyped ==
    ASSUME RequestsTyped, NEW r \in Requests, NEW place \in Places,
           req[r].acct \in Accounts,
           req' = [req EXCEPT ![r].pc = "writing", ![r].next = place]
    PROVE  RequestsTyped'
  <1> DEFINE v == [req[r] EXCEPT !.pc = "writing", !.next = place]
  <1>1. req[r] \in Request
    BY DEF RequestsTyped
  <1>2. v \in Request /\ v.acct = req[r].acct
    BY <1>1 DEF Request, Places
  <1>3. req' = [req EXCEPT ![r] = v]
    OBVIOUS
  <1> HIDE DEF v
  <1> QED
    BY <1>2, <1>3, RequestStep

\* Blocking or verifying one account is a configuration again.
LEMMA BlockTyped ==
    ASSUME cfg \in Config, NEW a \in Accounts, NEW reason \in BlockReasons,
           NEW b \in BOOLEAN
    PROVE  /\ [cfg EXCEPT ![a].blocked = reason] \in Config
           /\ [cfg EXCEPT ![a].verified = b, ![a].blocked = reason] \in Config
  <1>1. \A x \in [rev : Nat \ {0}, blocked : BlockReasons, enabled : BOOLEAN,
                  verified : BOOLEAN] :
          /\ [x EXCEPT !.blocked = reason] \in
                [rev : Nat \ {0}, blocked : BlockReasons, enabled : BOOLEAN,
                 verified : BOOLEAN]
          /\ [x EXCEPT !.verified = b, !.blocked = reason] \in
                [rev : Nat \ {0}, blocked : BlockReasons, enabled : BOOLEAN,
                 verified : BOOLEAN]
    OBVIOUS
  <1> QED
    BY <1>1 DEF Config

\* Outcomes that go through configMu.
LEMMA HealthyLocked ==
    ASSUME Healthy, NEW r \in Requests,
           \/ \E reason \in RecoverableReasons : Block(r, reason)
           \/ RestrictAccount(r) \/ Verify(r)
    PROVE  Healthy'
  <1> USE DEF Healthy
  <1>1. UNCHANGED <<now, disk>>
    BY DEF Block, RestrictAccount, Verify
  <1>2. req[r].pc \notin {"idle", "choosing"}
    BY DEF Block, RestrictAccount, Verify, At
  <1> DEFINE a == req[r].acct
             y == rt[a]
  <1>3. /\ a \in Accounts /\ req[r].started \in Nat
        /\ y \in Runtime /\ Sound(y, now) /\ NextAccount(r) \in Places
    BY <1>2, OutcomeContext
  <1>4. CASE \E reason \in RecoverableReasons : Block(r, reason)
    <2>1. PICK reason \in RecoverableReasons : Block(r, reason)
      BY <1>4
    <2> DEFINE blocked == [cfg EXCEPT ![a].blocked = reason]
    <2>2. blocked \in Config
      BY <1>3, BlockTyped DEF ConfigsTyped, BlockReasons
    <2>3. ConfigsTyped'
      BY <1>1, <2>1, <2>2 DEF ConfigsTyped, Block, StartWrite
    <2>4. RequestsTyped'
      BY <1>3, <2>1, SettleTyped, WritingTyped DEF Block
    <2>5. RuntimesOK'
      <3>1. reason \in CooldownReasons \ {NoReason, Upstream}
        BY DEF RecoverableReasons, CooldownReasons, NoReason, Upstream
      <3>2. \E x \in Runtime : /\ Sound(x, now)
                               /\ rt' = [rt EXCEPT ![a] = x] \/ rt' = rt
        <4>1. \A hint \in Hints \cup {NoHint} :
                /\ RecoveryCooldown(y, reason, hint, now) \in Runtime
                /\ Sound(RecoveryCooldown(y, reason, hint, now), now)
          BY <1>3, <3>1, RecoveryCooldownSound
        <4>2. \/ rt' = rt
              \/ \E hint \in Hints \cup {NoHint} :
                    rt' = [rt EXCEPT ![a] = RecoveryCooldown(y, reason, hint, now)]
          BY <2>1 DEF Block
        <4> QED
          BY <1>3, <4>1, <4>2
      <3> QED
        BY <1>1, <1>3, <3>2, RuntimeStep
    <2> QED
      BY <1>1, <2>3, <2>4, <2>5
  <1>5. CASE RestrictAccount(r)
    <2>1. [cfg EXCEPT ![a].blocked = "restricted"] \in Config
      BY <1>3, BlockTyped DEF ConfigsTyped, BlockReasons, HardReasons
    <2>2. ConfigsTyped'
      BY <1>1, <1>5, <2>1 DEF ConfigsTyped, RestrictAccount, StartWrite
    <2>3. RequestsTyped'
      BY <1>3, <1>5, SettleTyped, WritingTyped DEF RestrictAccount
    <2>4. RuntimesOK'
      <3> DEFINE x == HardBlock(y, now)
      <3>1. x \in Runtime /\ Sound(x, now)
        BY <1>3, HardBlockSound
      <3>2. rt' = [rt EXCEPT ![a] = x] \/ rt' = rt
        BY <1>5 DEF RestrictAccount
      <3> HIDE DEF x
      <3> QED
        BY <1>1, <1>3, <3>1, <3>2, RuntimeStep
    <2> QED
      BY <1>1, <2>2, <2>3, <2>4
  <1>6. CASE Verify(r)
    <2> DEFINE unblocked == IF Recoverable(a) THEN NoReason ELSE cfg[a].blocked
    <2>1. unblocked \in BlockReasons
      BY <1>3 DEF ConfigsTyped, Config, BlockReasons
    <2>2. [cfg EXCEPT ![a].verified = TRUE, ![a].blocked = unblocked] \in Config
      <3> HIDE DEF unblocked
      <3> QED
        BY <1>3, <2>1, BlockTyped DEF ConfigsTyped
    <2>3. ConfigsTyped'
      BY <1>1, <1>6, <2>2 DEF ConfigsTyped, Verify, StartWrite
    <2>4. RequestsTyped'
      <3>1. "idle" \in Places
        BY DEF Places
      <3> QED
        BY <1>3, <1>6, <3>1, SettleTyped, WritingTyped DEF Verify
    <2>5. RuntimesOK'
      <3> DEFINE x == MarkSuccess(y, now)
      <3>1. x \in Runtime /\ Sound(x, now)
        BY <1>3, MarkSuccessSound
      <3>2. rt' = [rt EXCEPT ![a] = x] \/ rt' = rt
        BY <1>6 DEF Verify
      <3> HIDE DEF x
      <3> QED
        BY <1>1, <1>3, <3>1, <3>2, RuntimeStep
    <2> QED
      BY <1>1, <2>3, <2>4, <2>5
  <1> QED
    BY <1>4, <1>5, <1>6

\* The end of a write, the administrator, the refreshers, restarts and time.
LEMMA HealthyElsewhere ==
    ASSUME Healthy, WriterOK,
           \/ WriteSucceeds \/ WriteFails \/ Crash \/ Tick
           \/ \E a \in Accounts : \/ Save(a) \/ Reset(a) \/ Resume(a)
                                  \/ BalanceRecovers(a) \/ UsageRefreshed(a)
    PROVE  Healthy'
  <1> USE DEF Healthy
  <1>1. ASSUME WriterSettles PROVE RequestsTyped'
    <2>1. CASE lock \in Requests
      <3> DEFINE v == [req[lock] EXCEPT !.pc = "settled"]
      <3>1. req[lock] \in Request /\ req[lock].acct \in Accounts
        BY <2>1 DEF RequestsTyped, WriterOK, At
      <3>2. v \in Request /\ v.acct = req[lock].acct
        BY <3>1 DEF Request, Places
      <3>3. req' = [req EXCEPT ![lock] = v]
        BY <1>1, <2>1 DEF WriterSettles
      <3> HIDE DEF v
      <3> QED
        BY <2>1, <3>1, <3>2, <3>3, RequestStep
    <2>2. CASE lock \notin Requests
      BY <1>1, <2>2 DEF WriterSettles, RequestsTyped
    <2> QED
      BY <2>1, <2>2
  <1>2. CASE WriteSucceeds
    <2>1. RequestsTyped'
      BY <1>1, <1>2 DEF WriteSucceeds
    <2>2. ConfigsTyped'
      BY <1>2 DEF WriteSucceeds, ConfigsTyped
    <2>3. RuntimesOK'
      <3>1. \A a \in Accounts : rt[a] \in Runtime /\ Sound(rt[a], now)
        BY DEF RuntimesOK
      <3>2. EmptyRuntime \in Runtime /\ Sound(EmptyRuntime, now)
        BY EmptyRuntimeSound
      <3>3. now' = now /\ rt' = [a \in Accounts |->
                 IF cand[a].rev = cfg[a].rev THEN rt[a] ELSE EmptyRuntime]
        BY <1>2 DEF WriteSucceeds
      <3> QED
        BY <3>1, <3>2, <3>3 DEF RuntimesOK
    <2> QED
      BY <1>2, <2>1, <2>2, <2>3 DEF WriteSucceeds
  <1>3. CASE WriteFails
    <2>1. RequestsTyped'
      BY <1>1, <1>3 DEF WriteFails
    <2> QED
      BY <1>3, <2>1 DEF WriteFails, ConfigsTyped, RuntimesOK
  <1>4. CASE Crash
    <2>1. RequestsTyped'
      <3>1. Idle \in Request /\ Idle.pc = "idle"
        BY DEF Idle, Request, Places, Never
      <3> QED
        BY <1>4, <3>1 DEF Crash, RequestsTyped
    <2>2. RuntimesOK'
      <3>1. EmptyRuntime \in Runtime /\ Sound(EmptyRuntime, now)
        BY EmptyRuntimeSound
      <3> QED
        BY <1>4, <3>1 DEF Crash, RuntimesOK
    <2> QED
      BY <1>4, <2>1, <2>2 DEF Crash, ConfigsTyped
  <1>5. CASE Tick
    <2>1. RuntimesOK'
      <3>1. now' = now + 1 /\ rt' = rt
        BY <1>5 DEF Tick
      <3>2. \A a \in Accounts : Sound(rt[a], now + 1)
        BY SoundLater DEF RuntimesOK
      <3> QED
        BY <3>1, <3>2 DEF RuntimesOK
    <2> QED
      BY <1>5, <2>1 DEF Tick, ConfigsTyped, RequestsTyped
  <1>6. ASSUME NEW a \in Accounts, Save(a) PROVE Healthy'
    <2> DEFINE Account == [rev : Nat \ {0}, blocked : BlockReasons,
                           enabled : BOOLEAN, verified : BOOLEAN]
               x1 == Rekeyed(cfg[a])
               x2 == Touched(cfg[a])
               x3 == [cfg[a] EXCEPT !.enabled = ~@]
    <2>1. cfg[a] \in Account
      BY DEF ConfigsTyped, Config
    <2>2. PICK new \in {x1, x2, x3} : StartWrite(Admin, [cfg EXCEPT ![a] = new])
      BY <1>6 DEF Save
    <2>3. new \in Account
      <3>1. cfg[a].rev + 1 \in Nat \ {0} /\ NoReason \in BlockReasons
        BY <2>1 DEF BlockReasons
      <3>2. x1 \in Account
        BY <2>1, <3>1 DEF Rekeyed
      <3>3. x2 \in Account
        BY <2>1, <3>1 DEF Touched
      <3>4. x3 \in Account
        BY <2>1
      <3> QED
        BY <3>2, <3>3, <3>4
    <2>4. [cfg EXCEPT ![a] = new] \in Config
      <3>1. cfg \in [Accounts -> Account] /\ Config = [Accounts -> Account]
        BY DEF ConfigsTyped, Config
      <3> HIDE DEF x1, x2, x3, Account
      <3> QED
        BY <2>3, <3>1
    <2>5. ConfigsTyped'
      <3> HIDE DEF x1, x2, x3
      <3> QED
        BY <1>6, <2>2, <2>4 DEF Save, StartWrite, ConfigsTyped
    <2> QED
      BY <1>6, <2>5 DEF Save, RuntimesOK, RequestsTyped
  <1>7. ASSUME NEW a \in Accounts, NEW x \in Runtime, Sound(x, now),
               rt' = [rt EXCEPT ![a] = x],
               UNCHANGED <<now, cfg, disk, lock, cand, req>>
        PROVE  Healthy'
    <2>1. RuntimesOK'
      BY <1>7, RuntimeStep
    <2> QED
      BY <1>7, <2>1 DEF ConfigsTyped, RequestsTyped
  <1>8. ASSUME NEW a \in Accounts, Reset(a) \/ Resume(a) PROVE Healthy'
    <2> DEFINE x == Wake(rt[a], now)
    <2>1. x \in Runtime /\ Sound(x, now)
      BY WakeSound DEF RuntimesOK
    <2>2. /\ rt' = [rt EXCEPT ![a] = x]
          /\ UNCHANGED <<now, cfg, disk, lock, cand, req>>
      BY <1>8 DEF Reset, Resume, WakeUp
    <2> HIDE DEF x
    <2> QED
      BY <1>7, <2>1, <2>2
  <1>9. ASSUME NEW a \in Accounts, BalanceRecovers(a) PROVE Healthy'
    <2> DEFINE x == [rt[a] EXCEPT !.until = now]
    <2>1. rt[a] \in Runtime /\ Sound(rt[a], now)
      BY DEF RuntimesOK
    <2>2. x \in Runtime
      BY <2>1 DEF Runtime
    <2>3. Sound(x, now)
      BY <2>1 DEF Runtime, Sound, Cooling
    <2>4. /\ rt' = [rt EXCEPT ![a] = x]
          /\ UNCHANGED <<now, cfg, disk, lock, cand, req>>
      BY <1>9 DEF BalanceRecovers
    <2> HIDE DEF x
    <2> QED
      BY <1>7, <2>2, <2>3, <2>4
  <1>10. ASSUME NEW a \in Accounts, UsageRefreshed(a) PROVE Healthy'
    <2>1. rt[a] \in Runtime /\ Sound(rt[a], now)
      BY DEF RuntimesOK
    <2>2. UNCHANGED <<now, cfg, disk, lock, cand, req>>
      BY <1>10 DEF UsageRefreshed
    <2>3. CASE \E delay \in Hints \ {0} :
             rt' = [rt EXCEPT ![a].reason = "quota", ![a].until = now + delay]
      <3>1. PICK delay \in Hints \ {0} :
             rt' = [rt EXCEPT ![a].reason = "quota", ![a].until = now + delay]
        BY <2>3
      <3> DEFINE x == [rt[a] EXCEPT !.reason = "quota", !.until = now + delay]
      <3>2. x \in Runtime
        <4>1. now + delay \in Nat /\ "quota" \in CooldownReasons
          BY DEF CooldownReasons, RecoverableReasons
        <4> QED
          BY <2>1, <4>1 DEF Runtime
      <3>3. Sound(x, now)
        BY <2>1 DEF Runtime, Sound, NoReason, Upstream
      <3>4. rt' = [rt EXCEPT ![a] = x]
        BY <3>1
      <3> HIDE DEF x
      <3> QED
        BY <1>7, <2>2, <3>2, <3>3, <3>4
    <2>4. CASE rt' = [rt EXCEPT ![a].reason = NoReason, ![a].until = Never]
      <3> DEFINE x == [rt[a] EXCEPT !.reason = NoReason, !.until = Never]
      <3>1. x \in Runtime
        BY <2>1 DEF Runtime, CooldownReasons, Never
      <3>2. Sound(x, now)
        BY <2>1 DEF Runtime, Sound, Cooling, NoReason, Upstream, Never
      <3>3. rt' = [rt EXCEPT ![a] = x]
        BY <2>4
      <3> HIDE DEF x
      <3> QED
        BY <1>7, <2>2, <3>1, <3>2, <3>3
    <2> QED
      BY <1>10, <2>3, <2>4 DEF UsageRefreshed
  <1> QED
    BY <1>2, <1>3, <1>4, <1>5, <1>6, <1>8, <1>9, <1>10

-----------------------------------------------------------------------------
(* The half-open slot.                                                     *)

\* What Healthy says of the fields the slot invariant speaks of.
LEMMA SlotTypes ==
    ASSUME Healthy
    PROVE  /\ \A a \in Accounts : /\ cfg[a].rev \in Nat /\ cand[a].rev \in Nat
                                 /\ rt[a].probe \in BOOLEAN
           /\ \A r \in Requests : /\ req[r].rev \in Nat
                                 /\ req[r].acct \in Accounts \cup {NoOne}
                                 /\ req[r].probe \in BOOLEAN
                                 /\ req[r].pc \in Places
  BY DEF Healthy, ConfigsTyped, Config, RuntimesOK, Runtime, RequestsTyped, Request

\* A request that keeps its copy of the account keeps the slot, or its absence.
LEMMA MoveKeepsSlots ==
    ASSUME Healthy, SlotInv, NEW r \in Requests,
           UNCHANGED <<cfg, lock, cand>>,
           \A a \in Accounts : rt'[a].probe = rt[a].probe,
           \A s \in Requests \ {r} : req'[s] = req[s],
           req'[r].acct = req[r].acct, req'[r].rev = req[r].rev,
           req'[r].probe = req[r].probe,
           req[r].pc \notin {"idle", "choosing", "writing"},
           req'[r].pc \notin {"idle", "choosing", "writing", "relaying"},
           req'[r].pc = "accepting" => req[r].probe
    PROVE  SlotInv'
  <1>1. WriterOK'
    BY DEF SlotInv, WriterOK, At
  <1>2. NoLostUpdate'
    BY DEF SlotInv, NoLostUpdate, Recoverable
  <1>3. CopyOK'
    BY DEF SlotInv, CopyOK, At
  <1>4. \A s \in Requests : \A a \in Accounts : Holds(s, a)' <=> Holds(s, a)
    BY DEF Holds, Current
  <1>5. HolderOK'
    BY <1>4 DEF SlotInv, HolderOK
  <1>6. SlotHasOwner'
    BY <1>4 DEF SlotInv, SlotHasOwner
  <1>7. SingleProbe'
    BY <1>4 DEF SlotInv, SingleProbe
  <1> QED
    BY <1>1, <1>2, <1>3, <1>5, <1>6, <1>7 DEF SlotInv

\* A request that gives back what it holds, if anything, leaves no trace.
LEMMA LetGoKeepsSlots ==
    ASSUME Healthy, SlotInv, NEW r \in Requests,
           UNCHANGED <<cfg, lock, cand>>,
           \A a \in Accounts : rt'[a].probe <=> rt[a].probe /\ ~Holds(r, a),
           \A s \in Requests \ {r} : req'[s] = req[s],
           ~req'[r].probe,
           req[r].pc # "writing", req'[r].pc \notin {"writing", "accepting"},
           \/ req'[r].acct = NoOne /\ req'[r].pc \in {"idle", "choosing"}
           \/ /\ req'[r].acct = req[r].acct /\ req'[r].rev = req[r].rev
              /\ req[r].acct # NoOne /\ req'[r].pc \notin {"idle", "choosing"}
    PROVE  SlotInv'
  <1>1. WriterOK'
    BY DEF SlotInv, WriterOK, At
  <1>2. NoLostUpdate'
    BY DEF SlotInv, NoLostUpdate, Recoverable
  <1>3. CopyOK'
    BY DEF SlotInv, CopyOK, At
  <1>4. \A s \in Requests : \A a \in Accounts :
           Holds(s, a)' <=> Holds(s, a) /\ s # r
    BY DEF Holds, Current
  <1>5. \A s \in Requests : \A a \in Accounts : Holds(s, a)' => ~Holds(r, a)
    BY <1>4 DEF SlotInv, SingleProbe
  <1>6. HolderOK'
    BY <1>4, <1>5 DEF SlotInv, HolderOK
  <1>7. SlotHasOwner'
    <2> SUFFICES ASSUME NEW a \in Accounts, rt'[a].probe
                 PROVE  \E s \in Requests : Holds(s, a)'
      BY DEF SlotHasOwner
    <2>1. PICK s \in Requests : Holds(s, a)
      BY DEF SlotInv, SlotHasOwner
    <2>2. s # r
      BY <2>1
    <2> QED
      BY <1>4, <2>1, <2>2
  <1>8. SingleProbe'
    BY <1>4 DEF SlotInv, SingleProbe
  <1> QED
    BY <1>1, <1>2, <1>3, <1>6, <1>7, <1>8 DEF SlotInv

\* selectAccountWithMode takes a slot only where none is taken, and so nobody
\* else holds it.
LEMMA SelectKeepsSlots ==
    ASSUME Healthy, SlotInv, NEW r \in Requests, Select(r)
    PROVE  SlotInv'
  <1>1. PICK a \in Candidates(r) :
          /\ rt' = IF SoftFailure(a) THEN [rt EXCEPT ![a].probe = TRUE] ELSE rt
          /\ req' = [req EXCEPT ![r] =
               [Idle EXCEPT !.pc = "picked", !.acct = a, !.rev = cfg[a].rev,
                            !.probe = SoftFailure(a), !.tried = req[r].tried \cup {a}]]
    BY DEF Select
  <1>2. a \in Accounts /\ cfg[a].blocked \notin HardReasons
    BY DEF Candidates, Regular, Probes, DueProbes, Emergency, Foremost, Eligible
  <1>3. SoftFailure(a) => ~rt[a].probe
    BY DEF Candidates, Regular, Probes, DueProbes, Emergency, Foremost
  <1>4. /\ req'[r].pc = "picked" /\ req'[r].acct = a /\ req'[r].rev = cfg[a].rev
        /\ req'[r].probe <=> SoftFailure(a)
    BY <1>1 DEF Healthy, RequestsTyped, Idle
  <1>5. \A s \in Requests \ {r} : req'[s] = req[s]
    BY <1>1 DEF Healthy, RequestsTyped
  <1>6. UNCHANGED <<cfg, lock, cand>> /\ req[r].pc = "choosing"
    BY DEF Select, At
  <1>7. ~req[r].probe
    BY <1>6 DEF SlotInv, CopyOK, At
  <1>8. \A b \in Accounts : rt'[b].probe <=> rt[b].probe \/ (b = a /\ SoftFailure(a))
    BY <1>1, <1>2 DEF Healthy, RuntimesOK, Runtime
  <1>9. \A s \in Requests \ {r} : \A b \in Accounts : Holds(s, b)' <=> Holds(s, b)
    BY <1>5, <1>6 DEF Holds, Current
  <1>10. \A b \in Accounts : Holds(r, b)' <=> b = a /\ SoftFailure(a)
    BY <1>2, <1>4, <1>6 DEF Holds, Current
  <1>11. SoftFailure(a) => \A s \in Requests : ~Holds(s, a)
    BY <1>2, <1>3 DEF SlotInv, HolderOK
  <1>12. \A b \in Accounts : ~Holds(r, b)
    BY <1>7 DEF Holds
  <1>13. WriterOK'
    BY <1>4, <1>5, <1>6 DEF SlotInv, WriterOK, At
  <1>14. NoLostUpdate'
    BY <1>6 DEF SlotInv, NoLostUpdate, Recoverable
  <1>15. CopyOK'
    BY <1>2, <1>4, <1>5, <1>6, SlotTypes DEF SlotInv, CopyOK, At
  <1>16. HolderOK'
    BY <1>6, <1>8, <1>9, <1>10 DEF SlotInv, HolderOK
  <1>17. SlotHasOwner'
    <2> SUFFICES ASSUME NEW b \in Accounts, rt'[b].probe
                 PROVE  \E s \in Requests : Holds(s, b)'
      BY DEF SlotHasOwner
    <2>1. CASE b = a /\ SoftFailure(a)
      BY <1>10, <2>1
    <2>2. CASE rt[b].probe
      <3>1. PICK s \in Requests : Holds(s, b)
        BY <2>2 DEF SlotInv, SlotHasOwner
      <3> QED
        BY <1>9, <1>12, <3>1
    <2> QED
      BY <1>8, <2>1, <2>2
  <1>18. SingleProbe'
    BY <1>9, <1>10, <1>11 DEF SlotInv, SingleProbe
  <1> QED
    BY <1>13, <1>14, <1>15, <1>16, <1>17, <1>18 DEF SlotInv

\* Taking configMu: the revisions stay, and a ban frees the slot for good.
LEMMA WriteKeepsSlots ==
    ASSUME Healthy, SlotInv, NEW r \in Requests,
           lock = NoOne, lock' = r,
           \A s \in Requests \ {r} : req'[s] = req[s],
           req'[r].acct = req[r].acct, req'[r].rev = req[r].rev,
           req'[r].probe = req[r].probe,
           req[r].pc \notin {"idle", "choosing"}, req'[r].pc = "writing",
           \A a \in Accounts :
             /\ cfg'[a].rev = cfg[a].rev /\ cand'[a].rev = cfg[a].rev
             /\ cfg[a].blocked \in HardReasons => cfg'[a].blocked \in HardReasons
             /\ \/ rt'[a].probe = rt[a].probe
                \/ ~rt'[a].probe /\ cfg'[a].blocked \in HardReasons
             /\ cand'[a].blocked # cfg'[a].blocked =>
                  cfg'[a].blocked \in RecoverableReasons /\ cand'[a].blocked = NoReason
    PROVE  SlotInv'
  <1>1. WriterOK'
    BY SlotTypes DEF SlotInv, WriterOK, At
  <1>2. NoLostUpdate'
    BY DEF SlotInv, NoLostUpdate, Recoverable
  <1>3. \A s \in Requests : req[s].acct # NoOne => req[s].acct \in Accounts
    BY SlotTypes
  <1>4. CopyOK'
    BY <1>3 DEF SlotInv, CopyOK, At
  <1>5. \A s \in Requests : \A a \in Accounts : Holds(s, a)' <=> Holds(s, a)
    BY DEF Holds, Current
  <1>6. HolderOK'
    BY <1>5 DEF SlotInv, HolderOK
  <1>7. SlotHasOwner'
    BY <1>5 DEF SlotInv, SlotHasOwner
  <1>8. SingleProbe'
    BY <1>5 DEF SlotInv, SingleProbe
  <1> QED
    BY <1>1, <1>2, <1>4, <1>6, <1>7, <1>8 DEF SlotInv

\* How a goroutine's record changes when it moves, settles or returns.
LEMMA RequestMoves ==
    ASSUME Healthy, NEW r \in Requests
    PROVE  /\ \A place : Goto(r, place) \/ Settle(r, place) =>
                /\ \A s \in Requests \ {r} : req'[s] = req[s]
                /\ req'[r].acct = req[r].acct /\ req'[r].rev = req[r].rev
                /\ req'[r].probe = req[r].probe
           /\ \A place : Goto(r, place) => req'[r].pc = place
           /\ \A place : Settle(r, place) => req'[r].pc = "settled"
           /\ \A place : Return(r, place) => \A s \in Requests \ {r} : req'[s] = req[s]
           /\ \A place \in Places \ {"relaying"} : Return(r, place) =>
                /\ req'[r].acct = NoOne /\ ~req'[r].probe
                /\ req'[r].pc \in {"idle", "choosing"}
           /\ Return(r, "relaying") =>
                /\ req'[r].acct = req[r].acct /\ req'[r].rev = req[r].rev
                /\ ~req'[r].probe /\ req'[r].pc = "relaying"
  <1>1. req \in [Requests -> Request]
    BY DEF Healthy, RequestsTyped
  <1>2. \A place : Goto(r, place) \/ Settle(r, place) =>
          /\ \A s \in Requests \ {r} : req'[s] = req[s]
          /\ req'[r].acct = req[r].acct /\ req'[r].rev = req[r].rev
          /\ req'[r].probe = req[r].probe
    BY <1>1 DEF Goto, Settle, Request
  <1>3. \A place : Goto(r, place) => req'[r].pc = place
    BY <1>1 DEF Goto, Request
  <1>4. \A place : Settle(r, place) => req'[r].pc = "settled"
    BY <1>1 DEF Settle, Request
  <1>5. \A place : Return(r, place) => \A s \in Requests \ {r} : req'[s] = req[s]
    BY <1>1 DEF Return
  <1>6. ASSUME NEW place \in Places \ {"relaying"}, Return(r, place)
        PROVE  /\ req'[r].acct = NoOne /\ ~req'[r].probe
               /\ req'[r].pc \in {"idle", "choosing"}
    <2>1. CASE place = "choosing"
      <3>1. req'[r] = [Idle EXCEPT !.pc = place, !.tried = req[r].tried]
        BY <1>1, <1>6, <2>1 DEF Return
      <3> QED
        BY <2>1, <3>1 DEF Idle
    <2>2. CASE place # "choosing"
      <3>1. req'[r] = Idle
        BY <1>1, <1>6, <2>2 DEF Return
      <3> QED
        BY <3>1 DEF Idle
    <2> QED
      BY <2>1, <2>2
  <1>7. ASSUME Return(r, "relaying")
        PROVE  /\ req'[r].acct = req[r].acct /\ req'[r].rev = req[r].rev
               /\ ~req'[r].probe /\ req'[r].pc = "relaying"
    <2>1. req'[r] = [req[r] EXCEPT !.pc = "relaying", !.probe = FALSE, !.next = "idle"]
      BY <1>1, <1>7 DEF Return
    <2> QED
      BY <1>1, <2>1 DEF Request
  <1> QED
    BY <1>2, <1>3, <1>4, <1>5, <1>6, <1>7

\* finishAccountProbe frees exactly what its request holds.
LEMMA ReleasedSlots ==
    ASSUME Healthy, NEW r \in Requests, rt' = Released(r),
           req[r].acct \in Accounts
    PROVE  \A a \in Accounts : rt'[a].probe <=> rt[a].probe /\ ~Holds(r, a)
  <1>1. rt \in [Accounts -> Runtime]
    BY DEF Healthy, RuntimesOK
  <1>2. CASE req[r].probe /\ Current(r)
    <2>1. rt' = [rt EXCEPT ![req[r].acct].probe = FALSE]
      BY <1>2 DEF Released
    <2>2. \A a \in Accounts : Holds(r, a) <=> a = req[r].acct
      BY <1>2 DEF Holds
    <2> QED
      BY <1>1, <2>1, <2>2 DEF Runtime
  <1>3. CASE ~(req[r].probe /\ Current(r))
    BY <1>3 DEF Released, Holds
  <1> QED
    BY <1>2, <1>3

\* An outcome that keeps the slot's flag keeps every flag.
LEMMA UpdateSlots ==
    ASSUME Healthy, NEW r \in Requests, NEW x \in Runtime,
           req[r].acct \in Accounts, x.probe = rt[req[r].acct].probe,
           rt' = [rt EXCEPT ![req[r].acct] = x] \/ rt' = rt
    PROVE  \A a \in Accounts : rt'[a].probe = rt[a].probe
  BY DEF Healthy, RuntimesOK

\* One attempt up to its outcome.
LEMMA SlotsAttempt ==
    ASSUME Healthy, SlotInv, NEW r \in Requests,
           \/ Arrive(r) \/ Choose(r) \/ Abandon(r) \/ Dispatch(r) \/ Gated(r)
           \/ Disconnect(r) \/ Headers(r) \/ AcceptProbe(r)
    PROVE  SlotInv'
  <1>1. CASE Arrive(r) \/ Reject(r) \/ StopWaiting(r)
    <2>1. req[r].pc \in {"idle", "choosing"} /\ UNCHANGED <<cfg, lock, cand, rt>>
      BY <1>1 DEF Arrive, Reject, StopWaiting, At
    <2>2. req[r].acct = NoOne /\ ~req[r].probe
      BY <2>1 DEF SlotInv, CopyOK, At
    <2>3. \A a \in Accounts : ~Holds(r, a)
      BY <2>2 DEF Holds
    <2>4. /\ \A s \in Requests \ {r} : req'[s] = req[s]
          /\ req'[r].acct = NoOne /\ ~req'[r].probe
          /\ req'[r].pc \in {"idle", "choosing"}
      BY <1>1, <2>2, RequestMoves DEF Arrive, Reject, StopWaiting, Places
    <2> QED
      BY <2>1, <2>3, <2>4, LetGoKeepsSlots
  <1>2. CASE Select(r)
    BY <1>2, SelectKeepsSlots
  <1>3. CASE Abandon(r) \/ Gated(r) \/ Disconnect(r)
    <2>1. /\ UNCHANGED <<cfg, lock, cand>> /\ rt' = Released(r)
          /\ req[r].pc \notin {"idle", "choosing", "writing"}
          /\ \E place \in {"idle", "choosing"} : Return(r, place)
      BY <1>3 DEF Abandon, Gated, Disconnect, At
    <2>2. req[r].acct \in Accounts
      BY <2>1 DEF Healthy, RequestsTyped
    <2>3. /\ \A s \in Requests \ {r} : req'[s] = req[s]
          /\ req'[r].acct = NoOne /\ ~req'[r].probe
          /\ req'[r].pc \in {"idle", "choosing"}
      BY <2>1, RequestMoves DEF Places
    <2>4. \A a \in Accounts : rt'[a].probe <=> rt[a].probe /\ ~Holds(r, a)
      BY <2>1, <2>2, ReleasedSlots
    <2> QED
      BY <2>1, <2>3, <2>4, LetGoKeepsSlots
  <1>4. CASE Dispatch(r)
    <2>1. /\ UNCHANGED <<cfg, lock, cand, rt>> /\ req[r].pc = "picked"
          /\ req' = [req EXCEPT ![r].pc = "sent", ![r].started = now]
      BY <1>4 DEF Dispatch, At
    <2>2. /\ \A s \in Requests \ {r} : req'[s] = req[s]
          /\ req'[r].acct = req[r].acct /\ req'[r].rev = req[r].rev
          /\ req'[r].probe = req[r].probe /\ req'[r].pc = "sent"
      BY <2>1 DEF Healthy, RequestsTyped, Request
    <2> QED
      BY <2>1, <2>2, MoveKeepsSlots
  <1>5. CASE Headers(r)
    <2>1. /\ UNCHANGED <<cfg, lock, cand, rt>> /\ req[r].pc = "sent"
          /\ Goto(r, "streaming") \/ (Goto(r, "accepting") /\ req[r].probe)
      BY <1>5 DEF Headers, At
    <2>2. /\ \A s \in Requests \ {r} : req'[s] = req[s]
          /\ req'[r].acct = req[r].acct /\ req'[r].rev = req[r].rev
          /\ req'[r].probe = req[r].probe
          /\ req'[r].pc = "streaming" \/ (req'[r].pc = "accepting" /\ req[r].probe)
      BY <2>1, RequestMoves
    <2> QED
      BY <2>1, <2>2, MoveKeepsSlots
  <1>6. CASE AcceptProbe(r)
    <2>1. /\ UNCHANGED <<cfg, lock, cand>> /\ req[r].pc = "accepting"
          /\ rt' = IF Current(r) THEN [rt EXCEPT ![req[r].acct] = Accept(@)] ELSE rt
          /\ req' = [req EXCEPT ![r].pc = "streaming", ![r].probe = FALSE]
      BY <1>6 DEF AcceptProbe, At
    <2>2. /\ \A s \in Requests \ {r} : req'[s] = req[s]
          /\ req'[r].acct = req[r].acct /\ req'[r].rev = req[r].rev
          /\ ~req'[r].probe /\ req'[r].pc = "streaming"
      BY <2>1 DEF Healthy, RequestsTyped, Request
    <2>3. req[r].probe /\ req[r].acct \in Accounts /\ req[r].acct # NoOne
      BY <2>1 DEF SlotInv, CopyOK, At, Healthy, RequestsTyped
    <2>4. \A a \in Accounts : Holds(r, a) <=> a = req[r].acct /\ Current(r)
      BY <2>3 DEF Holds
    <2>5. ~Accept(rt[req[r].acct]).probe
      BY <2>3 DEF Accept, Healthy, RuntimesOK, Runtime
    <2>6. \A a \in Accounts : rt'[a].probe <=> rt[a].probe /\ ~Holds(r, a)
      BY <2>1, <2>3, <2>4, <2>5 DEF Healthy, RuntimesOK
    <2> QED
      BY <2>1, <2>2, <2>3, <2>6, LetGoKeepsSlots
  <1> QED
    BY <1>1, <1>2, <1>3, <1>4, <1>5, <1>6 DEF Choose

\* Outcomes that do not need configMu.
LEMMA SlotsOutcome ==
    ASSUME Healthy, SlotInv, NEW r \in Requests,
           \/ Fail(r) \/ RateLimited(r) \/ Incompatible(r) \/ OtherStatus(r)
           \/ Succeed(r) \/ Finish(r) \/ Relay(r)
    PROVE  SlotInv'
  <1>1. UNCHANGED <<cfg, lock, cand>>
    BY DEF Fail, RateLimited, Incompatible, OtherStatus, Succeed, Finish, Relay
  <1>2. req[r].pc \notin {"idle", "choosing", "writing"}
    BY DEF Fail, RateLimited, Incompatible, OtherStatus, Succeed, Finish, Relay, At
  <1> DEFINE y == rt[req[r].acct]
  <1>3. /\ req[r].acct \in Accounts /\ req[r].started \in Nat
        /\ y \in Runtime /\ Sound(y, now) /\ now \in Nat \ {0}
    BY <1>2, OutcomeContext DEF Healthy
  <1>4. CountFailure(y, req[r].started, now) \in Runtime
        /\ CountFailure(y, req[r].started, now).probe = y.probe
    BY <1>3, CountFailureSound
  <1>5. CASE Fail(r) \/ RateLimited(r) \/ Incompatible(r) \/ OtherStatus(r) \/ Succeed(r)
    <2>1. \E x \in Runtime :
             /\ x.probe = y.probe
             /\ rt' = [rt EXCEPT ![req[r].acct] = x] \/ rt' = rt
      <3>1. CASE Fail(r)
        <4>1. Update(r, CountFailure(y, req[r].started, now))
          BY <3>1 DEF Fail
        <4> QED
          BY <1>4, <4>1 DEF Update
      <3>2. CASE RateLimited(r)
        <4>1. \A hint \in Hints \cup {NoHint} :
                /\ RecoveryCooldown(y, "rate_limit", hint, now) \in Runtime
                /\ RecoveryCooldown(y, "rate_limit", hint, now).probe = y.probe
          <5>1. "rate_limit" \in CooldownReasons \ {NoReason, Upstream}
            BY DEF CooldownReasons, NoReason, Upstream
          <5>2. Hints \cup {NoHint} \subseteq Nat \cup {NoHint}
            OBVIOUS
          <5> QED
            BY <1>3, <5>1, <5>2, RecoveryCooldownSound
        <4>2. \/ Update(r, y)
              \/ \E hint \in Hints \cup {NoHint} :
                    Update(r, RecoveryCooldown(y, "rate_limit", hint, now))
          BY <3>2 DEF RateLimited
        <4> QED
          BY <1>3, <4>1, <4>2 DEF Update
      <3>3. CASE Incompatible(r) \/ OtherStatus(r)
        <4>1. Update(r, Reachable(y, now))
          BY <3>3 DEF Incompatible, OtherStatus
        <4>2. Reachable(y, now) \in Runtime /\ Reachable(y, now).probe = y.probe
          BY <1>3, ReachableSound
        <4> QED
          BY <4>1, <4>2 DEF Update
      <3>4. CASE Succeed(r)
        <4>1. MarkSuccess(y, now) \in Runtime /\ MarkSuccess(y, now).probe = y.probe
          BY <1>3, MarkSuccessSound
        <4>2. rt' = [rt EXCEPT ![req[r].acct] = MarkSuccess(y, now)] \/ rt' = rt
          BY <3>4 DEF Succeed
        <4> QED
          BY <4>1, <4>2
      <3> QED
        BY <1>5, <3>1, <3>2, <3>3, <3>4
    <2>2. \A a \in Accounts : rt'[a].probe = rt[a].probe
      BY <1>3, <2>1, UpdateSlots
    <2>3. (\E place : Settle(r, place)) \/ Goto(r, "verifying")
      BY <1>5 DEF Fail, RateLimited, Incompatible, OtherStatus, Succeed
    <2>4. /\ \A s \in Requests \ {r} : req'[s] = req[s]
          /\ req'[r].acct = req[r].acct /\ req'[r].rev = req[r].rev
          /\ req'[r].probe = req[r].probe /\ req'[r].pc \in {"settled", "verifying"}
      BY <2>3, RequestMoves
    <2> QED
      BY <1>1, <1>2, <2>2, <2>4, MoveKeepsSlots
  <1>6. CASE Finish(r)
    <2>1. rt' = Released(r) /\ Return(r, req[r].next)
      BY <1>6 DEF Finish
    <2>2. \A a \in Accounts : rt'[a].probe <=> rt[a].probe /\ ~Holds(r, a)
      BY <1>3, <2>1, ReleasedSlots
    <2>3. req[r].next \in Places
      BY DEF Healthy, RequestsTyped, Request
    <2>4. /\ \A s \in Requests \ {r} : req'[s] = req[s]
          /\ ~req'[r].probe
          /\ \/ req'[r].acct = NoOne /\ req'[r].pc \in {"idle", "choosing"}
             \/ /\ req'[r].acct = req[r].acct /\ req'[r].rev = req[r].rev
                /\ req'[r].pc = "relaying"
      BY <2>1, <2>3, RequestMoves
    <2> QED
      BY <1>1, <1>2, <1>3, <2>2, <2>4, LetGoKeepsSlots
  <1>7. CASE Relay(r)
    <2>1. /\ UNCHANGED rt \/ Update(r, CountFailure(y, req[r].started, now))
          /\ Return(r, "idle") /\ req[r].pc = "relaying"
      BY <1>7 DEF Relay, At
    <2>2. rt' = [rt EXCEPT ![req[r].acct] = CountFailure(y, req[r].started, now)]
          \/ rt' = rt
      BY <2>1 DEF Update
    <2>3. \A a \in Accounts : rt'[a].probe = rt[a].probe
      <3> HIDE DEF y
      <3> QED
        BY <1>3, <1>4, <2>2, UpdateSlots DEF y
    <2>4. \A a \in Accounts : ~Holds(r, a)
      BY <2>1 DEF SlotInv, CopyOK, At, Holds
    <2>5. /\ \A s \in Requests \ {r} : req'[s] = req[s]
          /\ req'[r].acct = NoOne /\ ~req'[r].probe
          /\ req'[r].pc \in {"idle", "choosing"}
      BY <2>1, RequestMoves DEF Places
    <2> QED
      BY <1>1, <1>2, <2>3, <2>4, <2>5, LetGoKeepsSlots
  <1> QED
    BY <1>5, <1>6, <1>7

\* Outcomes that go through configMu: ignored, or the beginning of a write.
LEMMA SlotsLocked ==
    ASSUME Healthy, SlotInv, NEW r \in Requests,
           \/ \E reason \in RecoverableReasons : Block(r, reason)
           \/ RestrictAccount(r) \/ Verify(r)
    PROVE  SlotInv'
  <1>1. lock = NoOne /\ cand = cfg
    BY DEF Block, RestrictAccount, Verify, SlotInv, NoLostUpdate
  <1>2. req[r].pc \notin {"idle", "choosing", "writing"}
    BY DEF Block, RestrictAccount, Verify, At
  <1> DEFINE a == req[r].acct
             y == rt[a]
  <1>3. /\ a \in Accounts /\ req[r].started \in Nat
        /\ y \in Runtime /\ Sound(y, now) /\ now \in Nat \ {0}
    BY <1>2, OutcomeContext DEF Healthy
  <1>4. ASSUME UNCHANGED <<cfg, lock, cand>>, NEW place, Settle(r, place),
               \A b \in Accounts : rt'[b].probe = rt[b].probe
        PROVE  SlotInv'
    <2>1. /\ \A s \in Requests \ {r} : req'[s] = req[s]
          /\ req'[r].acct = req[r].acct /\ req'[r].rev = req[r].rev
          /\ req'[r].probe = req[r].probe /\ req'[r].pc = "settled"
      BY <1>4, RequestMoves
    <2> QED
      BY <1>2, <1>4, <2>1, MoveKeepsSlots
  <1>5. ASSUME NEW place, req' = [req EXCEPT ![r].pc = "writing", ![r].next = place]
        PROVE  /\ \A s \in Requests \ {r} : req'[s] = req[s]
               /\ req'[r].acct = req[r].acct /\ req'[r].rev = req[r].rev
               /\ req'[r].probe = req[r].probe /\ req'[r].pc = "writing"
    BY <1>5 DEF Healthy, RequestsTyped, Request
  <1>6. cfg \in [Accounts -> [rev : Nat \ {0}, blocked : BlockReasons,
                             enabled : BOOLEAN, verified : BOOLEAN]]
    BY DEF Healthy, ConfigsTyped, Config
  <1>7. CASE \E reason \in RecoverableReasons : Block(r, reason)
    <2>1. PICK reason \in RecoverableReasons : Block(r, reason)
      BY <1>7
    <2> DEFINE blocked == [cfg EXCEPT ![a].blocked = reason]
    <2>2. \A b \in Accounts : rt'[b].probe = rt[b].probe
      <3>1. \A hint \in Hints \cup {NoHint} :
              /\ RecoveryCooldown(y, reason, hint, now) \in Runtime
              /\ RecoveryCooldown(y, reason, hint, now).probe = y.probe
        <4>1. reason \in CooldownReasons \ {NoReason, Upstream}
          BY DEF RecoverableReasons, CooldownReasons, NoReason, Upstream
        <4> QED
          BY <1>3, <4>1, RecoveryCooldownSound
      <3>2. \/ rt' = rt
            \/ \E hint \in Hints \cup {NoHint} :
                  rt' = [rt EXCEPT ![a] = RecoveryCooldown(y, reason, hint, now)]
        BY <2>1 DEF Block
      <3> QED
        BY <1>3, <3>1, <3>2, UpdateSlots
    <2>3. CASE UNCHANGED <<cfg, lock, cand>> /\ Settle(r, NextAccount(r))
      BY <1>4, <2>2, <2>3
    <2>4. CASE /\ cfg' = blocked /\ StartWrite(r, blocked)
               /\ cfg[a].blocked \notin HardReasons
               /\ req' = [req EXCEPT ![r].pc = "writing", ![r].next = NextAccount(r)]
      <3>1. cand' = cfg' /\ lock' = r
        BY <2>4 DEF StartWrite
      <3>2. \A b \in Accounts :
               /\ cfg'[b].rev = cfg[b].rev
               /\ cfg[b].blocked \in HardReasons => cfg'[b].blocked \in HardReasons
        BY <1>6, <2>4
      <3> QED
        BY <1>1, <1>2, <1>5, <2>2, <2>4, <3>1, <3>2, WriteKeepsSlots
    <2> QED
      <3>1. \/ UNCHANGED <<cfg, lock, cand>> /\ Settle(r, NextAccount(r))
            \/ /\ cfg' = blocked /\ StartWrite(r, blocked)
               /\ cfg[a].blocked \notin HardReasons
               /\ req' = [req EXCEPT ![r].pc = "writing", ![r].next = NextAccount(r)]
        BY <2>1 DEF Block
      <3> QED
        BY <2>3, <2>4, <3>1
  <1>8. CASE RestrictAccount(r)
    <2>1. CASE ~Current(r)
      BY <1>4, <1>8, <2>1 DEF RestrictAccount
    <2>2. CASE Current(r)
      <3> DEFINE blocked == [cfg EXCEPT ![a].blocked = "restricted"]
      <3>1. /\ rt' = [rt EXCEPT ![a] = HardBlock(y, now)] /\ cfg' = blocked
            /\ lock' = r /\ cand' = blocked
            /\ req' = [req EXCEPT ![r].pc = "writing", ![r].next = NextAccount(r)]
        BY <1>8, <2>2 DEF RestrictAccount, StartWrite
      <3>2. \A b \in Accounts :
               /\ cfg'[b].rev = cfg[b].rev
               /\ cfg'[b].blocked = IF b = a THEN "restricted" ELSE cfg[b].blocked
        BY <1>6, <3>1
      <3>3. ~HardBlock(y, now).probe
        BY <1>3 DEF HardBlock, MarkSuccess, EmptyRuntime
      <3>4. \A b \in Accounts : \/ rt'[b].probe = rt[b].probe
                                \/ ~rt'[b].probe /\ b = a
        BY <1>3, <3>1, <3>3 DEF Healthy, RuntimesOK
      <3>5. \A b \in Accounts :
               /\ cfg'[b].rev = cfg[b].rev /\ cand'[b].rev = cfg[b].rev
               /\ cfg[b].blocked \in HardReasons => cfg'[b].blocked \in HardReasons
               /\ \/ rt'[b].probe = rt[b].probe
                  \/ ~rt'[b].probe /\ cfg'[b].blocked \in HardReasons
               /\ cand'[b].blocked = cfg'[b].blocked
        BY <3>1, <3>2, <3>4 DEF HardReasons
      <3> QED
        BY <1>1, <1>2, <1>5, <3>1, <3>5, WriteKeepsSlots
    <2> QED
      BY <2>1, <2>2
  <1>9. CASE Verify(r)
    <2>1. \A b \in Accounts : rt'[b].probe = rt[b].probe
      <3>1. MarkSuccess(y, now) \in Runtime /\ MarkSuccess(y, now).probe = y.probe
        BY <1>3, MarkSuccessSound
      <3>2. rt' = [rt EXCEPT ![a] = MarkSuccess(y, now)] \/ rt' = rt
        BY <1>9 DEF Verify
      <3> QED
        BY <1>3, <3>1, <3>2, UpdateSlots
    <2>2. CASE UNCHANGED <<cfg, lock, cand>> /\ Settle(r, "idle")
      BY <1>4, <2>1, <2>2
    <2> DEFINE unblocked == IF Recoverable(a) THEN NoReason ELSE cfg[a].blocked
               verified == [cfg EXCEPT ![a].verified = TRUE, ![a].blocked = unblocked]
    <2>3. CASE /\ cfg' = cfg /\ StartWrite(r, verified)
               /\ req' = [req EXCEPT ![r].pc = "writing", ![r].next = "idle"]
      <3>1. cand' = verified /\ lock' = r
        BY <2>3 DEF StartWrite
      <3>2. \A b \in Accounts :
               /\ cand'[b].rev = cfg[b].rev
               /\ cand'[b].blocked = IF b = a THEN unblocked ELSE cfg[b].blocked
        <4> HIDE DEF unblocked
        <4> QED
          BY <1>6, <3>1
      <3>3. \A b \in Accounts : cand'[b].blocked # cfg[b].blocked =>
               cfg[b].blocked \in RecoverableReasons /\ cand'[b].blocked = NoReason
        BY <3>2 DEF Recoverable
      <3> QED
        BY <1>1, <1>2, <1>5, <2>1, <2>3, <3>1, <3>2, <3>3, WriteKeepsSlots
    <2> QED
      <3>1. \/ UNCHANGED <<cfg, lock, cand>> /\ Settle(r, "idle")
            \/ /\ cfg' = cfg /\ StartWrite(r, verified)
               /\ req' = [req EXCEPT ![r].pc = "writing", ![r].next = "idle"]
        BY <1>9 DEF Verify
      <3> QED
        BY <2>2, <2>3, <3>1
  <1> QED
    BY <1>7, <1>8, <1>9

\* The end of a write: the revisions that changed carry their slots away.
LEMMA SlotsWritten ==
    ASSUME Healthy, SlotInv, WriteSucceeds \/ WriteFails
    PROVE  SlotInv'
  <1>1. WriterSettles /\ lock' = NoOne /\ cand' = cfg'
    BY DEF WriteSucceeds, WriteFails
  <1>2. \A r \in Requests : /\ req'[r].acct = req[r].acct /\ req'[r].rev = req[r].rev
                            /\ req'[r].probe = req[r].probe
                            /\ req'[r].pc = IF r = lock THEN "settled" ELSE req[r].pc
    BY <1>1 DEF WriterSettles, Healthy, RequestsTyped, Request
  <1>3. \A r \in Requests : r = lock <=> req[r].pc = "writing"
    BY DEF SlotInv, WriterOK, At
  <1>4. \A a \in Accounts :
           /\ cfg[a].rev \in Nat /\ cfg'[a].rev \in Nat /\ cfg'[a].rev >= cfg[a].rev
           /\ cfg'[a].rev = cfg[a].rev =>
                /\ rt'[a] = rt[a]
                /\ cfg[a].blocked \in HardReasons => cfg'[a].blocked \in HardReasons
           /\ cfg'[a].rev # cfg[a].rev => ~rt'[a].probe
    <2>1. CASE WriteSucceeds
      <3>1. cfg' = cand /\ rt' = [a \in Accounts |->
                 IF cand[a].rev = cfg[a].rev THEN rt[a] ELSE EmptyRuntime]
        BY <2>1 DEF WriteSucceeds
      <3>2. ~EmptyRuntime.probe
        BY DEF EmptyRuntime
      <3>3. \A a \in Accounts :
               cand[a].rev = cfg[a].rev /\ cfg[a].blocked \in HardReasons =>
                   cand[a].blocked \in HardReasons
        BY SlotTypes DEF SlotInv, NoLostUpdate, Recoverable, RecoverableReasons, HardReasons
      <3> QED
        BY <3>1, <3>2, <3>3, SlotTypes DEF SlotInv, WriterOK
    <2>2. CASE WriteFails
      BY <2>2, SlotTypes DEF WriteFails
    <2> QED
      BY <2>1, <2>2
  <1>5. \A r \in Requests : \A a \in Accounts :
           /\ Holds(r, a)' => Holds(r, a) /\ cfg'[a].rev = cfg[a].rev
           /\ Holds(r, a) /\ cfg'[a].rev = cfg[a].rev => Holds(r, a)'
    <2> SUFFICES ASSUME NEW r \in Requests, NEW a \in Accounts
                 PROVE  /\ Holds(r, a)' => Holds(r, a) /\ cfg'[a].rev = cfg[a].rev
                        /\ Holds(r, a) /\ cfg'[a].rev = cfg[a].rev => Holds(r, a)'
      OBVIOUS
    <2>1. req[r].acct = a => req[r].rev \in Nat /\ req[r].rev <= cfg[a].rev
      BY SlotTypes DEF SlotInv, CopyOK
    <2> QED
      BY <1>2, <1>4, <2>1 DEF Holds, Current
  <1>6. WriterOK'
    <2>1. \A r \in Requests : ~At(r, {"writing"})'
      BY <1>2, <1>3 DEF At
    <2>2. \A r \in Requests : lock' # r
      BY <1>1
    <2>3. \A a \in Accounts : cand'[a].rev >= cfg'[a].rev
      BY <1>1, <1>4
    <2> QED
      BY <2>1, <2>2, <2>3 DEF WriterOK
  <1>7. NoLostUpdate'
    BY <1>1 DEF NoLostUpdate
  <1>8. CopyOK'
    <2> SUFFICES ASSUME NEW r \in Requests
                 PROVE  /\ req'[r].acct # NoOne => req'[r].rev <= cfg'[req'[r].acct].rev
                        /\ req'[r].probe => req'[r].acct # NoOne
                        /\ req'[r].pc \in {"idle", "choosing"} <=> req'[r].acct = NoOne
                        /\ req'[r].pc = "accepting" => req'[r].probe
                        /\ req'[r].pc = "relaying" => ~req'[r].probe
      BY DEF CopyOK, At
    <2>1. req[r].acct # NoOne => /\ req[r].acct \in Accounts /\ req[r].rev \in Nat
                                 /\ req[r].rev <= cfg[req[r].acct].rev
      BY SlotTypes DEF SlotInv, CopyOK
    <2>2. /\ req[r].probe => req[r].acct # NoOne
          /\ req[r].pc \in {"idle", "choosing"} <=> req[r].acct = NoOne
          /\ req[r].pc = "accepting" => req[r].probe
          /\ req[r].pc = "relaying" => ~req[r].probe
      BY DEF SlotInv, CopyOK, At
    <2>3. req[r].acct # NoOne => req[r].rev <= cfg'[req[r].acct].rev
      BY <1>4, <2>1
    <2> QED
      BY <1>2, <1>3, <2>2, <2>3
  <1>9. HolderOK'
    BY <1>4, <1>5 DEF SlotInv, HolderOK
  <1>10. SlotHasOwner'
    <2> SUFFICES ASSUME NEW a \in Accounts, rt'[a].probe
                 PROVE  \E r \in Requests : Holds(r, a)'
      BY DEF SlotHasOwner
    <2>1. cfg'[a].rev = cfg[a].rev /\ rt[a].probe
      BY <1>4
    <2>2. PICK r \in Requests : Holds(r, a)
      BY <2>1 DEF SlotInv, SlotHasOwner
    <2> QED
      BY <1>5, <2>1, <2>2
  <1>11. SingleProbe'
    BY <1>5 DEF SlotInv, SingleProbe
  <1> QED
    BY <1>6, <1>7, <1>8, <1>9, <1>10, <1>11 DEF SlotInv

\* The administrator, the refreshers, restarts and time hold no slots.
LEMMA SlotsElsewhere ==
    ASSUME Healthy, SlotInv,
           \/ Crash \/ Tick
           \/ \E a \in Accounts : \/ Save(a) \/ Reset(a) \/ Resume(a)
                                  \/ BalanceRecovers(a) \/ UsageRefreshed(a)
    PROVE  SlotInv'
  <1>1. ASSUME UNCHANGED <<cfg, req>>, WriterOK', NoLostUpdate',
               \A a \in Accounts : rt'[a].probe = rt[a].probe
        PROVE  SlotInv'
    <2>1. \A r \in Requests : \A a \in Accounts : Holds(r, a)' <=> Holds(r, a)
      BY <1>1 DEF Holds, Current
    <2>2. CopyOK'
      BY <1>1 DEF SlotInv, CopyOK, At
    <2>3. HolderOK' /\ SlotHasOwner' /\ SingleProbe'
      BY <1>1, <2>1 DEF SlotInv, HolderOK, SlotHasOwner, SingleProbe
    <2> QED
      BY <1>1, <2>2, <2>3 DEF SlotInv
  <1>2. ASSUME UNCHANGED <<cfg, req, lock, cand>>,
               \A a \in Accounts : rt'[a].probe = rt[a].probe
        PROVE  SlotInv'
    <2>1. WriterOK' /\ NoLostUpdate'
      BY <1>2 DEF SlotInv, WriterOK, At, NoLostUpdate, Recoverable
    <2> QED
      BY <1>1, <1>2, <2>1
  <1>3. CASE Crash
    <2>1. /\ cand' = cfg' /\ lock' = NoOne
          /\ \A a \in Accounts : ~rt'[a].probe
          /\ \A r \in Requests : req'[r] = Idle
      BY <1>3 DEF Crash, EmptyRuntime
    <2>2. \A r \in Requests : /\ req'[r].pc = "idle" /\ req'[r].acct = NoOne
                              /\ ~req'[r].probe
      BY <2>1 DEF Idle
    <2>3. \A a \in Accounts : cand'[a].rev = cfg'[a].rev /\ cfg'[a].rev \in Nat
      BY <1>3, <2>1 DEF Crash, Healthy, ConfigsTyped, Config
    <2>4. WriterOK' /\ NoLostUpdate' /\ CopyOK'
      BY <2>1, <2>2, <2>3 DEF WriterOK, NoLostUpdate, CopyOK, At
    <2>5. HolderOK' /\ SlotHasOwner' /\ SingleProbe'
      BY <2>1, <2>2 DEF HolderOK, SlotHasOwner, SingleProbe, Holds
    <2> QED
      BY <2>4, <2>5 DEF SlotInv
  <1>4. CASE Tick
    BY <1>2, <1>4 DEF Tick
  <1>5. ASSUME NEW a \in Accounts, Save(a) PROVE SlotInv'
    <2>1. UNCHANGED <<cfg, rt, req>> /\ lock = NoOne /\ lock' = Admin
      BY <1>5 DEF Save, StartWrite
    <2>2. \A b \in Accounts : /\ cand'[b].rev >= cfg[b].rev
                              /\ cand'[b].blocked # cfg[b].blocked =>
                                    cand'[b].rev > cfg[b].rev
      <3>1. /\ cfg \in [Accounts -> [rev : Nat \ {0}, blocked : BlockReasons,
                                   enabled : BOOLEAN, verified : BOOLEAN]]
            /\ \A b \in Accounts : cfg[b].rev \in Nat
        BY DEF Healthy, ConfigsTyped, Config
      <3>2. PICK new \in {Rekeyed(cfg[a]), Touched(cfg[a]),
                         [cfg[a] EXCEPT !.enabled = ~@]} :
               cand' = [cfg EXCEPT ![a] = new]
        BY <1>5 DEF Save, StartWrite
      <3>3. /\ new.rev \in Nat /\ new.rev >= cfg[a].rev
            /\ new.blocked # cfg[a].blocked => new.rev > cfg[a].rev
        <4>1. cfg[a] \in [rev : Nat \ {0}, blocked : BlockReasons,
                         enabled : BOOLEAN, verified : BOOLEAN]
          BY <3>1
        <4>2. CASE new = Rekeyed(cfg[a])
          BY <4>1, <4>2 DEF Rekeyed
        <4>3. CASE new = Touched(cfg[a])
          BY <4>1, <4>3 DEF Touched
        <4>4. CASE new = [cfg[a] EXCEPT !.enabled = ~@]
          BY <4>1, <4>4
        <4> QED
          BY <4>2, <4>3, <4>4
      <3> QED
        BY <3>1, <3>2, <3>3
    <2>3. WriterOK'
      BY <2>1, <2>2 DEF SlotInv, WriterOK, At
    <2>4. NoLostUpdate'
      BY <2>1, <2>2 DEF NoLostUpdate
    <2> QED
      BY <1>1, <2>1, <2>3, <2>4
  <1>6. ASSUME NEW a \in Accounts, Reset(a) \/ Resume(a) PROVE SlotInv'
    <2>1. \A b \in Accounts : rt'[b].probe = rt[b].probe
      <3> DEFINE x == Wake(rt[a], now)
      <3>1. x.probe = rt[a].probe
        BY WakeSound DEF Healthy, RuntimesOK
      <3>2. rt' = [rt EXCEPT ![a] = x]
        BY <1>6 DEF Reset, Resume, WakeUp
      <3> HIDE DEF x
      <3> QED
        BY <3>1, <3>2 DEF Healthy, RuntimesOK
    <2> QED
      BY <1>2, <1>6, <2>1 DEF Reset, Resume, WakeUp
  <1>7. ASSUME NEW a \in Accounts, BalanceRecovers(a) PROVE SlotInv'
    <2>1. \A b \in Accounts : rt'[b].probe = rt[b].probe
      <3>1. rt \in [Accounts -> Runtime]
        BY DEF Healthy, RuntimesOK
      <3>2. rt' = [rt EXCEPT ![a].until = now]
        BY <1>7 DEF BalanceRecovers
      <3> QED
        BY <3>1, <3>2 DEF Runtime
    <2> QED
      BY <1>2, <1>7, <2>1 DEF BalanceRecovers
  <1>8. ASSUME NEW a \in Accounts, UsageRefreshed(a) PROVE SlotInv'
    <2>1. \A b \in Accounts : rt'[b].probe = rt[b].probe
      <3>1. rt \in [Accounts -> Runtime]
        BY DEF Healthy, RuntimesOK
      <3>2. CASE \E delay \in Hints \ {0} :
               rt' = [rt EXCEPT ![a].reason = "quota", ![a].until = now + delay]
        <4>1. PICK delay \in Hints \ {0} :
               rt' = [rt EXCEPT ![a].reason = "quota", ![a].until = now + delay]
          BY <3>2
        <4> DEFINE x == [rt[a] EXCEPT !.reason = "quota", !.until = now + delay]
        <4>2. x.probe = rt[a].probe
          BY <3>1 DEF Runtime
        <4>3. rt' = [rt EXCEPT ![a] = x]
          BY <4>1
        <4> HIDE DEF x
        <4> QED
          BY <3>1, <4>2, <4>3
      <3>3. CASE rt' = [rt EXCEPT ![a].reason = NoReason, ![a].until = Never]
        <4> DEFINE x == [rt[a] EXCEPT !.reason = NoReason, !.until = Never]
        <4>1. x.probe = rt[a].probe
          BY <3>1 DEF Runtime
        <4>2. rt' = [rt EXCEPT ![a] = x]
          BY <3>3
        <4> HIDE DEF x
        <4> QED
          BY <3>1, <4>1, <4>2
      <3> QED
        BY <1>8, <3>2, <3>3 DEF UsageRefreshed
    <2> QED
      BY <1>2, <1>8, <2>1 DEF UsageRefreshed
  <1> QED
    BY <1>3, <1>4, <1>5, <1>6, <1>7, <1>8

-----------------------------------------------------------------------------
(* The theorems.                                                           *)

IInv == Healthy /\ SlotInv

\* Nothing is running when the router starts.
LEMMA InitInv == Init => IInv
  <1> SUFFICES ASSUME Init PROVE IInv
    OBVIOUS
  <1>1. Healthy
    BY HealthyInit
  <1>2. /\ cand = cfg /\ lock = NoOne
        /\ \A a \in Accounts : ~rt[a].probe
        /\ \A r \in Requests : req[r].pc = "idle" /\ req[r].acct = NoOne /\ ~req[r].probe
    BY DEF Init, Idle, EmptyRuntime
  <1>3. \A a \in Accounts : cfg[a].rev \in Nat
    BY <1>1, SlotTypes
  <1>4. WriterOK /\ NoLostUpdate /\ CopyOK
    BY <1>2, <1>3 DEF WriterOK, NoLostUpdate, CopyOK, At
  <1>5. HolderOK /\ SlotHasOwner /\ SingleProbe
    BY <1>2 DEF HolderOK, SlotHasOwner, SingleProbe, Holds
  <1> QED
    BY <1>1, <1>4, <1>5 DEF IInv, SlotInv

\* Every action of every actor keeps the invariant.
LEMMA StepInv ==
    ASSUME IInv, [Next]_vars
    PROVE  IInv'
  <1> USE DEF IInv
  <1>1. ASSUME NEW r \in Requests,
               \/ Arrive(r) \/ Choose(r) \/ Abandon(r) \/ Dispatch(r) \/ Gated(r)
               \/ Disconnect(r) \/ Headers(r) \/ AcceptProbe(r)
        PROVE  IInv'
    BY <1>1, HealthyAttempt, SlotsAttempt
  <1>2. ASSUME NEW r \in Requests,
               \/ Fail(r) \/ RateLimited(r) \/ Incompatible(r) \/ OtherStatus(r)
               \/ Succeed(r) \/ Finish(r) \/ Relay(r)
        PROVE  IInv'
    BY <1>2, HealthyOutcome, SlotsOutcome
  <1>3. ASSUME NEW r \in Requests,
               \/ \E reason \in RecoverableReasons : Block(r, reason)
               \/ RestrictAccount(r) \/ Verify(r)
        PROVE  IInv'
    BY <1>3, HealthyLocked, SlotsLocked
  <1>4. CASE \/ WriteSucceeds \/ WriteFails \/ Crash \/ Tick
             \/ \E a \in Accounts : \/ Save(a) \/ Reset(a) \/ Resume(a)
                                    \/ BalanceRecovers(a) \/ UsageRefreshed(a)
    BY <1>4, HealthyElsewhere, SlotsWritten, SlotsElsewhere DEF SlotInv
  <1>5. CASE UNCHANGED vars
    <2>1. Healthy'
      BY <1>5 DEF vars, Healthy, ConfigsTyped, RuntimesOK, RequestsTyped
    <2>2. \A r \in Requests : \A a \in Accounts : Holds(r, a)' <=> Holds(r, a)
      BY <1>5 DEF vars, Holds, Current
    <2>3. WriterOK' /\ NoLostUpdate' /\ CopyOK'
      BY <1>5 DEF vars, SlotInv, WriterOK, NoLostUpdate, CopyOK, At, Recoverable
    <2>4. HolderOK' /\ SlotHasOwner' /\ SingleProbe'
      BY <1>5, <2>2 DEF vars, SlotInv, HolderOK, SlotHasOwner, SingleProbe
    <2> QED
      BY <2>1, <2>3, <2>4 DEF SlotInv
  <1> QED
    BY <1>1, <1>2, <1>3, <1>4, <1>5 DEF Next, Progress

\* The state of the router satisfies the inductive invariant at all times.
THEOREM Invariance == Spec => []IInv
  <1>1. Init => IInv
    BY InitInv
  <1>2. IInv /\ [Next]_vars => IInv'
    BY StepInv
  <1> QED
    BY <1>1, <1>2, PTL DEF Spec

\* Accounts, health records, requests and the file keep their types.
THEOREM TypeCorrect == Spec => []TypeOK
  <1>1. IInv => TypeOK
    BY HealthyParts DEF IInv
  <1> QED
    BY <1>1, Invariance, PTL

\* Every cooldown, however it came about, has what its readers rely on.
THEOREM HealthSound == Spec => []CooldownHasReason
  <1>1. IInv => CooldownHasReason
    BY HealthyParts DEF IInv
  <1> QED
    BY <1>1, Invariance, PTL

\* The slot invariant as the runs check it.
THEOREM SlotInvariant == Spec => []SlotInv
  <1>1. IInv => SlotInv
    BY DEF IInv
  <1> QED
    BY <1>1, Invariance, PTL

\* No path of handleProxy leaks the half-open slot.
THEOREM SlotsAreOwned == Spec => []SlotHasOwner
  <1>1. IInv => SlotHasOwner
    BY DEF IInv, SlotInv
  <1> QED
    BY <1>1, Invariance, PTL

\* At most one half-open request per account revision.
THEOREM OneProbeAtATime == Spec => []SingleProbe
  <1>1. IInv => SingleProbe
    BY DEF IInv, SlotInv
  <1> QED
    BY <1>1, Invariance, PTL

\* A write in flight undoes no block.
THEOREM NoUpdateIsLost == Spec => []NoLostUpdate
  <1>1. IInv => NoLostUpdate
    BY DEF IInv, SlotInv
  <1> QED
    BY <1>1, Invariance, PTL

\* Who may change what the router routes by: a block or a ban, the end of a
\* write, or a restart.
LEMMA ConfigChanges ==
    ASSUME [Next]_vars, ~Crash, ~UNCHANGED cfg
    PROVE  \/ cfg' = cand
           \/ \E r \in Requests : \E reason \in RecoverableReasons :
                /\ cfg[req[r].acct].blocked \notin HardReasons
                /\ cfg' = [cfg EXCEPT ![req[r].acct].blocked = reason]
           \/ \E r \in Requests :
                cfg' = [cfg EXCEPT ![req[r].acct].blocked = "restricted"]
  <1>1. ASSUME NEW r \in Requests, Arrive(r) \/ Choose(r) PROVE FALSE
    BY <1>1 DEF Arrive, Choose, Select, Reject, StopWaiting
  <1>2. ASSUME NEW r \in Requests, Progress(r),
               ~(\E reason \in RecoverableReasons : Block(r, reason)), ~RestrictAccount(r)
        PROVE  FALSE
    BY <1>2 DEF Progress, Abandon, Dispatch, Gated, Disconnect, Headers,
         AcceptProbe, Fail, RateLimited, Incompatible, OtherStatus, Succeed,
         Verify, Finish, Relay
  <1>3. ASSUME NEW a \in Accounts,
               \/ Save(a) \/ Reset(a) \/ Resume(a)
               \/ BalanceRecovers(a) \/ UsageRefreshed(a)
        PROVE  FALSE
    BY <1>3 DEF Save, Reset, Resume, WakeUp, BalanceRecovers, UsageRefreshed
  <1>4. CASE \E r \in Requests : \E reason \in RecoverableReasons : Block(r, reason)
    BY <1>4 DEF Block
  <1>5. CASE \E r \in Requests : RestrictAccount(r)
    BY <1>5 DEF RestrictAccount
  <1>6. CASE WriteSucceeds
    BY <1>6 DEF WriteSucceeds
  <1>7. CASE WriteFails \/ Tick \/ UNCHANGED vars
    BY <1>7 DEF WriteFails, Tick, vars
  <1> QED
    BY <1>1, <1>2, <1>3, <1>4, <1>5, <1>6, <1>7 DEF Next

\* A ban survives every interleaving of saves, blocks and late answers.
THEOREM BansStick == Spec => HardBlockSticks
  <1>1. ASSUME IInv, [Next]_vars
        PROVE  [~Crash => \A a \in Accounts :
                   cfg[a].blocked \in HardReasons =>
                       cfg'[a].blocked = cfg[a].blocked \/ cfg'[a].rev > cfg[a].rev]_vars
    <2> SUFFICES ASSUME ~Crash, NEW a \in Accounts, cfg[a].blocked \in HardReasons
                 PROVE  cfg'[a].blocked = cfg[a].blocked \/ cfg'[a].rev > cfg[a].rev
      OBVIOUS
    <2>1. cfg \in [Accounts -> [rev : Nat \ {0}, blocked : BlockReasons,
                               enabled : BOOLEAN, verified : BOOLEAN]]
      BY <1>1 DEF IInv, Healthy, ConfigsTyped, Config
    <2>2. CASE cfg' = cand
      <3>1. cand[a].rev \in Nat /\ cfg[a].rev \in Nat /\ cand[a].rev >= cfg[a].rev
        BY <1>1, SlotTypes DEF IInv, SlotInv, WriterOK
      <3>2. cand[a].blocked # cfg[a].blocked => cand[a].rev > cfg[a].rev
        BY <1>1 DEF IInv, SlotInv, NoLostUpdate, Recoverable, RecoverableReasons,
             HardReasons
      <3> QED
        BY <2>2, <3>1, <3>2
    <2>3. ASSUME NEW r \in Requests, NEW reason \in RecoverableReasons,
                 cfg[req[r].acct].blocked \notin HardReasons,
                 cfg' = [cfg EXCEPT ![req[r].acct].blocked = reason]
          PROVE  cfg'[a] = cfg[a]
      BY <2>1, <2>3
    <2>4. ASSUME NEW r \in Requests,
                 cfg' = [cfg EXCEPT ![req[r].acct].blocked = "restricted"]
          PROVE  cfg'[a].blocked = cfg[a].blocked
      BY <2>1, <2>4 DEF HardReasons
    <2> QED
      BY <1>1, <2>2, <2>3, <2>4, ConfigChanges
  <1> QED
    BY <1>1, Invariance, PTL DEF Spec, HardBlockSticks

\* What a restart loads: with writes that succeed it is the current
\* configuration, whenever nobody is writing.
THEOREM DiskFollows ==
    ASSUME "write_failure" \notin Environment
    PROVE  Spec => []DiskInSync
  <1>1. Init => DiskInSync
    BY DEF Init, DiskInSync
  <1>2. ASSUME IInv, DiskInSync, [Next]_vars
        PROVE  DiskInSync'
    <2>1. CASE UNCHANGED <<cfg, disk, lock>>
      BY <1>2, <2>1 DEF DiskInSync
    <2>2. ASSUME NEW r \in Requests, Progress(r)
          PROVE  UNCHANGED <<cfg, disk, lock>> \/ lock' = r
      BY <2>2 DEF Progress, Abandon, Dispatch, Gated, Disconnect, Headers,
           AcceptProbe, Fail, RateLimited, Incompatible, OtherStatus, Succeed,
           Verify, Finish, Relay, Block, RestrictAccount, StartWrite
    <2>3. ASSUME NEW r \in Requests, Arrive(r) \/ Choose(r)
          PROVE  UNCHANGED <<cfg, disk, lock>>
      BY <2>3 DEF Arrive, Choose, Select, Reject, StopWaiting
    <2>4. ASSUME NEW a \in Accounts, Save(a)
          PROVE  lock' = Admin
      BY <2>4 DEF Save, StartWrite
    <2>5. ASSUME NEW a \in Accounts,
                 Reset(a) \/ Resume(a) \/ BalanceRecovers(a) \/ UsageRefreshed(a)
          PROVE  UNCHANGED <<cfg, disk, lock>>
      BY <2>5 DEF Reset, Resume, WakeUp, BalanceRecovers, UsageRefreshed
    <2>6. CASE WriteSucceeds \/ Crash
      BY <2>6 DEF WriteSucceeds, Crash, DiskInSync
    <2>7. CASE Tick \/ UNCHANGED vars
      BY <2>1, <2>7 DEF Tick, vars
    <2>8. ~WriteFails
      BY DEF WriteFails
    <2>9. ASSUME lock' # NoOne PROVE DiskInSync'
      BY <2>9 DEF DiskInSync
    <2> QED
      BY <1>2, <2>1, <2>2, <2>3, <2>4, <2>5, <2>6, <2>7, <2>8, <2>9 DEF Next
  <1> QED
    BY <1>1, <1>2, Invariance, PTL DEF Spec

-----------------------------------------------------------------------------
(* What a request may change: nothing when its copy of the account is old,  *)
(* and otherwise only what its evidence is newer than.                      *)

\* A goroutine works on its own record.
LEMMA OthersUntouched ==
    ASSUME Healthy, NEW s \in Requests, NEW r \in Requests \ {s},
           Arrive(s) \/ Choose(s) \/ Progress(s)
    PROVE  req'[r] = req[r]
  <1>1. req \in [Requests -> Request]
    BY DEF Healthy, RequestsTyped
  <1>2. \A place : Goto(s, place) \/ Settle(s, place) \/ Return(s, place) =>
           req'[r] = req[r]
    BY RequestMoves
  <1>3. CASE \/ Arrive(s) \/ Reject(s) \/ StopWaiting(s) \/ Abandon(s) \/ Gated(s)
             \/ Disconnect(s) \/ Headers(s) \/ Fail(s) \/ RateLimited(s)
             \/ Incompatible(s) \/ OtherStatus(s) \/ Succeed(s) \/ Finish(s) \/ Relay(s)
    BY <1>2, <1>3 DEF Arrive, Reject, StopWaiting, Abandon, Gated, Disconnect, Headers,
         Fail, RateLimited, Incompatible, OtherStatus, Succeed, Finish, Relay
  <1>4. CASE Select(s)
    <2>1. \E v : req' = [req EXCEPT ![s] = v]
      BY <1>4 DEF Select
    <2> QED
      BY <1>1, <2>1
  <1>5. CASE Dispatch(s) \/ AcceptProbe(s)
    BY <1>1, <1>5 DEF Dispatch, AcceptProbe
  <1>6. ASSUME \/ \E place : Settle(s, place)
               \/ \E place : req' = [req EXCEPT ![s].pc = "writing", ![s].next = place]
        PROVE  req'[r] = req[r]
    BY <1>1, <1>2, <1>6
  <1>7. CASE (\E reason \in RecoverableReasons : Block(s, reason)) \/ RestrictAccount(s) \/ Verify(s)
    BY <1>6, <1>7 DEF Block, RestrictAccount, Verify
  <1> QED
    BY <1>3, <1>4, <1>5, <1>7 DEF Choose, Progress

\* Only the goroutine itself moves on, unless it waits for its own write.
LEMMA OwnStep ==
    ASSUME IInv, [Next]_vars, ~Crash, NEW r \in Requests,
           ~At(r, {"idle", "choosing", "writing"}), req'[r] # req[r]
    PROVE  Progress(r)
  <1>1. Healthy /\ req \in [Requests -> Request]
    BY DEF IInv, Healthy, RequestsTyped
  <1>2. ASSUME NEW s \in Requests, Arrive(s) \/ Choose(s) \/ Progress(s)
        PROVE  Progress(r)
    <2>1. s = r
      BY <1>1, <1>2, OthersUntouched
    <2>2. ~Arrive(r) /\ ~Choose(r)
      BY DEF Arrive, Choose, Select, Reject, StopWaiting, At
    <2> QED
      BY <1>2, <2>1, <2>2
  <1>3. ASSUME WriteSucceeds \/ WriteFails PROVE FALSE
    <2>1. WriterSettles
      BY <1>3 DEF WriteSucceeds, WriteFails
    <2>2. lock # r
      BY DEF IInv, SlotInv, WriterOK, At
    <2> QED
      BY <1>1, <2>1, <2>2 DEF WriterSettles
  <1>4. ASSUME \/ Tick \/ UNCHANGED vars
               \/ \E a \in Accounts : \/ Save(a) \/ Reset(a) \/ Resume(a)
                                      \/ BalanceRecovers(a) \/ UsageRefreshed(a)
        PROVE  FALSE
    BY <1>4 DEF Tick, vars, Save, Reset, Resume, WakeUp, BalanceRecovers, UsageRefreshed
  <1> QED
    BY <1>2, <1>3, <1>4 DEF Next

\* Every path checks sameAccountRevision before it writes.
LEMMA StaleProgress ==
    ASSUME NEW r \in Requests, Progress(r), ~Current(r)
    PROVE  UNCHANGED <<rt, cfg>>
  <1>1. Released(r) = rt
    BY DEF Released
  <1>2. \A x : Update(r, x) => rt' = rt
    BY DEF Update
  <1>3. CASE Abandon(r) \/ Gated(r) \/ Disconnect(r) \/ Finish(r)
    BY <1>1, <1>3 DEF Abandon, Gated, Disconnect, Finish
  <1>4. CASE Fail(r) \/ RateLimited(r) \/ Incompatible(r) \/ OtherStatus(r) \/ Relay(r)
    BY <1>2, <1>4 DEF Fail, RateLimited, Incompatible, OtherStatus, Relay
  <1>5. CASE Dispatch(r) \/ Headers(r) \/ AcceptProbe(r)
    BY <1>5 DEF Dispatch, Headers, AcceptProbe
  <1>6. CASE RestrictAccount(r) \/ \E reason \in RecoverableReasons : Block(r, reason)
    BY <1>6 DEF RestrictAccount, Block
  <1>7. CASE Succeed(r) \/ Verify(r)
    BY <1>7 DEF Succeed, Verify, Proven
  <1> QED
    BY <1>3, <1>4, <1>5, <1>6, <1>7 DEF Progress

\* A report about an earlier revision of the account changes neither its
\* health, nor its probe slot, nor the configuration.
THEOREM OldReportsChangeNothing == Spec => StaleIsHarmless
  <1>1. ASSUME IInv, [Next]_vars
        PROVE  [\A r \in Requests :
                  LET reports == /\ req[r].pc \notin {"idle", "choosing", "writing"}
                                 /\ ~Current(r) /\ req'[r] # req[r] /\ ~Crash
                  IN  reports => rt' = rt /\ cfg' = cfg]_vars
    BY <1>1, OwnStep, StaleProgress DEF At
  <1> QED
    BY <1>1, Invariance, PTL DEF Spec, StaleIsHarmless

-----------------------------------------------------------------------------
(* Evidence: what a writer writes concerns its own account, and an outcome  *)
(* is dated by the moment its request was sent.                             *)

\* While r writes, its copy stays current, and what it writes differs from
\* what is configured in the block of r's own account at most.
OwnWrite ==
    \A r \in Requests : lock = r =>
        /\ Current(r)
        /\ \A a \in Accounts : cand[a].blocked # cfg[a].blocked => req[r].acct = a

\* Whatever reports an outcome was sent at some time.
StartedOK ==
    \A r \in Requests : ~At(r, {"idle", "choosing", "picked"}) => req[r].started > Never

EvidenceInv == OwnWrite /\ StartedOK

\* configMu is not taken, or it is taken by r for a change of its own account.
LEMMA OwnWriteStep ==
    ASSUME IInv, OwnWrite, NEW r \in Requests, Progress(r)
    PROVE  OwnWrite'
  <1>1. Healthy /\ NoLostUpdate
    BY DEF IInv, SlotInv
  <1>2. lock # r
    <2>1. ~At(r, {"writing"})
      BY DEF Progress, Abandon, Dispatch, Gated, Disconnect, Headers, AcceptProbe,
           Fail, RateLimited, Incompatible, OtherStatus, RestrictAccount, Succeed, Verify,
           Finish, Relay, Block, At
    <2> QED
      BY <2>1 DEF IInv, SlotInv, WriterOK
  <1>3. \A s \in Requests \ {r} : req'[s] = req[s]
    BY <1>1, OthersUntouched
  <1>4. CASE UNCHANGED <<cfg, lock, cand>>
    BY <1>2, <1>3, <1>4 DEF OwnWrite, Current
  <1>5. ASSUME lock' = r, cfg' = cfg, Current(r), req'[r].acct = req[r].acct,
               req'[r].rev = req[r].rev,
               \A a \in Accounts : cand'[a].blocked # cfg[a].blocked => req[r].acct = a
        PROVE  OwnWrite'
    BY <1>5 DEF OwnWrite, Current
  <1>6. \A place : req' = [req EXCEPT ![r].pc = "writing", ![r].next = place] =>
           req'[r].acct = req[r].acct /\ req'[r].rev = req[r].rev
    BY <1>1 DEF Healthy, RequestsTyped, Request
  <1>7. cfg \in [Accounts -> [rev : Nat \ {0}, blocked : BlockReasons,
                             enabled : BOOLEAN, verified : BOOLEAN]]
    BY <1>1 DEF Healthy, ConfigsTyped, Config
  <1>8. ASSUME NEW reason,
               cfg' = [cfg EXCEPT ![req[r].acct].blocked = reason],
               cand' = cfg', lock' = r, Current(r),
               \E place : req' = [req EXCEPT ![r].pc = "writing", ![r].next = place]
        PROVE  OwnWrite'
    <2>1. req[r].acct \in Accounts => cfg'[req[r].acct].rev = cfg[req[r].acct].rev
      BY <1>7, <1>8
    <2>2. req[r].acct \notin Accounts => cfg' = cfg
      BY <1>7, <1>8
    <2> QED
      BY <1>6, <1>8, <2>1, <2>2 DEF OwnWrite, Current
  <1>9. CASE \E reason \in RecoverableReasons : Block(r, reason)
    BY <1>4, <1>8, <1>9 DEF Block, StartWrite
  <1>10. CASE RestrictAccount(r)
    BY <1>4, <1>8, <1>10 DEF RestrictAccount, StartWrite
  <1>11. CASE Verify(r)
    <2> DEFINE a == req[r].acct
               unblocked == IF Recoverable(a) THEN NoReason ELSE cfg[a].blocked
               verified == [cfg EXCEPT ![a].verified = TRUE, ![a].blocked = unblocked]
    <2>1. \/ UNCHANGED <<cfg, lock, cand>>
          \/ /\ Proven(r) /\ cfg' = cfg /\ lock' = r /\ cand' = verified
             /\ req' = [req EXCEPT ![r].pc = "writing", ![r].next = "idle"]
      BY <1>11 DEF Verify, StartWrite
    <2>2. \A b \in Accounts : verified[b].blocked # cfg[b].blocked => a = b
      <3> HIDE DEF unblocked
      <3> QED
        BY <1>7
    <2> QED
      <3> HIDE DEF verified
      <3> QED
        BY <1>4, <1>5, <1>6, <2>1, <2>2 DEF Proven
  <1>12. CASE \/ Abandon(r) \/ Dispatch(r) \/ Gated(r) \/ Disconnect(r) \/ Headers(r)
              \/ AcceptProbe(r) \/ Fail(r) \/ RateLimited(r) \/ Incompatible(r)
              \/ OtherStatus(r) \/ Succeed(r) \/ Finish(r) \/ Relay(r)
    BY <1>4, <1>12 DEF Abandon, Dispatch, Gated, Disconnect, Headers, AcceptProbe,
         Fail, RateLimited, Incompatible, OtherStatus, Succeed, Finish, Relay
  <1> QED
    BY <1>9, <1>10, <1>11, <1>12 DEF Progress

\* The time of sending is kept until the request is over.
LEMMA StartedStep ==
    ASSUME IInv, StartedOK, NEW r \in Requests, Arrive(r) \/ Choose(r) \/ Progress(r)
    PROVE  StartedOK'
  <1>1. Healthy /\ req \in [Requests -> Request] /\ now \in Nat \ {0}
    BY DEF IInv, Healthy, RequestsTyped
  <1>2. \A s \in Requests \ {r} : req'[s] = req[s]
    BY <1>1, OthersUntouched
  <1>3. SUFFICES req'[r].pc \notin {"idle", "choosing", "picked"} => req'[r].started > Never
    BY <1>2 DEF StartedOK, At
  <1>4. ASSUME req[r].pc \notin {"idle", "choosing", "picked"},
               req'[r].started = req[r].started
        PROVE  req'[r].started > Never
    BY <1>4 DEF StartedOK, At
  <1>5. \A place : Goto(r, place) \/ Settle(r, place) => req'[r].started = req[r].started
    BY <1>1 DEF Goto, Settle, Request
  <1>6. \A place : req' = [req EXCEPT ![r].pc = "writing", ![r].next = place] =>
           req'[r].started = req[r].started
    BY <1>1 DEF Request
  <1>7. CASE Arrive(r)
    BY <1>1, <1>7, RequestMoves DEF Arrive
  <1>8. CASE Select(r)
    <2>1. \E v : v.pc = "picked" /\ req' = [req EXCEPT ![r] = v]
      BY <1>8 DEF Select, Idle
    <2> QED
      BY <1>1, <2>1
  <1>9. CASE \/ Reject(r) \/ StopWaiting(r) \/ Abandon(r) \/ Gated(r) \/ Disconnect(r)
             \/ Relay(r)
    BY <1>1, <1>9, RequestMoves DEF Reject, StopWaiting, Abandon, Gated, Disconnect,
         Relay, Places
  <1>10. CASE Dispatch(r)
    <2>1. req'[r].started = now
      BY <1>1, <1>10 DEF Dispatch, Request
    <2> QED
      BY <1>1, <2>1 DEF Never
  <1>11. CASE AcceptProbe(r)
    <2>1. req'[r].started = req[r].started
      BY <1>1, <1>11 DEF AcceptProbe, Request
    <2> QED
      BY <1>4, <1>11, <2>1 DEF AcceptProbe, At
  <1>12. CASE Finish(r)
    <2>1. req[r].next \in Places
      BY <1>1 DEF Request
    <2>2. CASE req[r].next = "relaying"
      <3>1. req'[r].started = req[r].started
        BY <1>1, <1>12, <2>2 DEF Finish, Return, Request
      <3> QED
        BY <1>4, <1>12, <3>1 DEF Finish, At
    <2>3. CASE req[r].next # "relaying"
      BY <1>1, <1>12, <2>1, <2>3, RequestMoves DEF Finish
    <2> QED
      BY <2>2, <2>3
  <1>13. CASE \/ Headers(r) \/ Fail(r) \/ RateLimited(r) \/ Incompatible(r)
              \/ OtherStatus(r) \/ Succeed(r)
    BY <1>4, <1>5, <1>13 DEF Headers, Fail, RateLimited, Incompatible, OtherStatus,
         Succeed, At
  <1>14. CASE (\E reason \in RecoverableReasons : Block(r, reason)) \/ RestrictAccount(r) \/ Verify(r)
    BY <1>4, <1>5, <1>6, <1>14 DEF Block, RestrictAccount, Verify, At
  <1> QED
    BY <1>7, <1>8, <1>9, <1>10, <1>11, <1>12, <1>13, <1>14 DEF Choose, Progress

\* Every action of every actor keeps what outcomes rely on.
LEMMA EvidenceStep ==
    ASSUME IInv, EvidenceInv, [Next]_vars
    PROVE  EvidenceInv'
  <1>1. req \in [Requests -> Request]
    BY DEF IInv, Healthy, RequestsTyped
  <1>2. ASSUME lock' \notin Requests PROVE OwnWrite'
    BY <1>2 DEF OwnWrite
  <1>3. ASSUME UNCHANGED <<cfg, cand, lock, req>> PROVE EvidenceInv'
    BY <1>3 DEF EvidenceInv, OwnWrite, StartedOK, Current, At
  <1>4. ASSUME NEW r \in Requests, Arrive(r) \/ Choose(r)
        PROVE  OwnWrite'
    <2>1. UNCHANGED <<cfg, lock, cand>> /\ ~At(r, {"writing"})
      BY <1>4 DEF Arrive, Choose, Select, Reject, StopWaiting, At
    <2>2. lock # r
      BY <2>1 DEF IInv, SlotInv, WriterOK
    <2>3. \A s \in Requests \ {r} : req'[s] = req[s]
      BY <1>4, OthersUntouched DEF IInv
    <2> QED
      BY <2>1, <2>2, <2>3 DEF EvidenceInv, OwnWrite, Current
  <1>5. ASSUME NEW r \in Requests, Progress(r) PROVE OwnWrite'
    BY <1>5, OwnWriteStep DEF EvidenceInv
  <1>6. ASSUME WriteSucceeds \/ WriteFails PROVE EvidenceInv'
    <2>1. WriterSettles /\ lock' = NoOne
      BY <1>6 DEF WriteSucceeds, WriteFails
    <2>2. \A r \in Requests : req'[r].started = req[r].started
      BY <1>1, <2>1 DEF WriterSettles, Request
    <2>3. \A r \in Requests : req'[r].pc = req[r].pc \/ (r = lock /\ req'[r].pc = "settled")
      BY <1>1, <2>1 DEF WriterSettles, Request
    <2>4. \A r \in Requests : r = lock => req[r].pc = "writing"
      BY DEF IInv, SlotInv, WriterOK, At
    <2>5. StartedOK'
      BY <2>2, <2>3, <2>4 DEF EvidenceInv, StartedOK, At
    <2> QED
      BY <1>2, <2>1, <2>5 DEF EvidenceInv
  <1>7. CASE Crash
    <2>1. StartedOK'
      BY <1>7 DEF Crash, StartedOK, At, Idle
    <2> QED
      BY <1>2, <1>7, <2>1 DEF Crash, EvidenceInv
  <1>8. ASSUME NEW a \in Accounts, Save(a) PROVE EvidenceInv'
    <2>1. lock' = Admin /\ UNCHANGED req
      BY <1>8 DEF Save, StartWrite
    <2> QED
      BY <1>2, <2>1 DEF EvidenceInv, StartedOK, At
  <1>9. CASE \/ Tick \/ UNCHANGED vars
             \/ \E a \in Accounts : \/ Reset(a) \/ Resume(a)
                                    \/ BalanceRecovers(a) \/ UsageRefreshed(a)
    BY <1>3, <1>9 DEF Tick, vars, Reset, Resume, WakeUp, BalanceRecovers, UsageRefreshed
  <1> QED
    BY <1>4, <1>5, <1>6, <1>7, <1>8, <1>9, StartedStep DEF Next, EvidenceInv

\* Evidence is owned and dated at all times.
THEOREM EvidenceInvariant == Spec => []EvidenceInv
  <1>1. Init => EvidenceInv
    BY DEF Init, EvidenceInv, OwnWrite, StartedOK, At, Idle
  <1>2. IInv /\ EvidenceInv /\ [Next]_vars => EvidenceInv'
    BY EvidenceStep
  <1> QED
    BY <1>1, <1>2, Invariance, PTL DEF Spec

\* A quota or authentication block ends only with the write of a request that
\* succeeded with the account as it is configured.
THEOREM SuccessEndsBlocks == Spec => BlockEndsWithSuccess
  <1>1. ASSUME IInv, EvidenceInv, [Next]_vars
        PROVE  [~Crash => \A a \in Accounts :
                  Recoverable(a) /\ cfg'[a].blocked = NoReason /\ cfg'[a].rev = cfg[a].rev =>
                      /\ lock \in Requests /\ req[lock].pc = "writing"
                      /\ req[lock].acct = a /\ Current(lock)]_vars
    <2> SUFFICES ASSUME ~Crash, NEW a \in Accounts, Recoverable(a),
                        cfg'[a].blocked = NoReason, cfg'[a].rev = cfg[a].rev
                 PROVE  /\ lock \in Requests /\ req[lock].pc = "writing"
                        /\ req[lock].acct = a /\ Current(lock)
      OBVIOUS
    <2>1. cfg \in [Accounts -> [rev : Nat \ {0}, blocked : BlockReasons,
                               enabled : BOOLEAN, verified : BOOLEAN]]
      BY <1>1 DEF IInv, Healthy, ConfigsTyped, Config
    <2>2. cfg[a].blocked # NoReason
      BY DEF Recoverable, RecoverableReasons, NoReason
    <2>3. cfg' = cand
      <3>1. ASSUME NEW b, NEW reason \in RecoverableReasons \cup {"restricted"},
                   cfg' = [cfg EXCEPT ![b].blocked = reason]
            PROVE  FALSE
        <4>1. cfg'[a].blocked \in {cfg[a].blocked, reason}
          BY <2>1, <3>1
        <4> QED
          BY <2>2, <4>1 DEF RecoverableReasons, NoReason
      <3> QED
        BY <1>1, <2>2, <3>1, ConfigChanges
    <2>4. cand[a].blocked # cfg[a].blocked /\ cand[a].rev = cfg[a].rev
      BY <2>2, <2>3
    <2>5. lock \in Requests
      <3>1. cfg[a].rev \in Nat
        BY <1>1, SlotTypes DEF IInv
      <3> QED
        BY <1>1, <2>4, <3>1 DEF IInv, SlotInv, NoLostUpdate
    <2> QED
      BY <1>1, <2>4, <2>5 DEF EvidenceInv, OwnWrite, IInv, SlotInv, WriterOK, At
  <1> QED
    BY <1>1, Invariance, EvidenceInvariant, PTL DEF Spec, BlockEndsWithSuccess

-----------------------------------------------------------------------------
(* Nothing raises a failure count or ends a back-off on old evidence.       *)

\* From y to x no failure is counted and no back-off ends.
Calm(y, x) == ~(x.failures > y.failures) /\ (y.recovery > 0 => x.recovery # 0)

\* The step that EvidenceIsFresh allows for account a.
Fresh(a) ==
    /\ rt'[a].failures > rt[a].failures =>
          \E r \in Requests : req[r].acct = a /\ Current(r)
                             /\ req[r].started > rt[a].barrier
    /\ rt[a].recovery > 0 /\ rt'[a].recovery = 0 /\ cfg[a].blocked \notin HardReasons =>
          \E r \in Requests : req[r].acct = a /\ Current(r)
                             /\ req[r].started >= rt[a].barrier

\* Calm changes of a health record.
LEMMA CalmChanges ==
    ASSUME NEW y \in Runtime, NEW t \in Nat
    PROVE  /\ Calm(y, y) /\ Calm(y, Accept(y)) /\ Calm(y, Wake(y, t))
           /\ Calm(y, Reachable(y, t))
           /\ \A b \in BOOLEAN : Calm(y, [y EXCEPT !.probe = b])
           /\ Calm(y, [y EXCEPT !.until = t])
           /\ \A reason : Calm(y, [y EXCEPT !.reason = reason, !.until = t])
  <1>1. /\ y.failures \in Nat /\ y.recovery \in Nat
        /\ \A x : x.failures = y.failures /\ x.recovery = y.recovery => Calm(y, x)
        /\ \A x : x.failures = 0 /\ x.recovery = y.recovery => Calm(y, x)
    BY DEF Runtime, Calm
  <1>2. Accept(y).failures = y.failures /\ Accept(y).recovery = y.recovery
    BY DEF Accept, Runtime
  <1>3. Wake(y, t).failures = y.failures /\ Wake(y, t).recovery = y.recovery
    BY DEF Wake, Runtime
  <1>4. Reachable(y, t).failures = 0 /\ Reachable(y, t).recovery = y.recovery
    BY DEF Reachable, ClearUpstream, Runtime
  <1>5. /\ \A b \in BOOLEAN : /\ [y EXCEPT !.probe = b].failures = y.failures
                              /\ [y EXCEPT !.probe = b].recovery = y.recovery
        /\ [y EXCEPT !.until = t].failures = y.failures
        /\ [y EXCEPT !.until = t].recovery = y.recovery
        /\ \A reason :
             /\ [y EXCEPT !.reason = reason, !.until = t].failures = y.failures
             /\ [y EXCEPT !.reason = reason, !.until = t].recovery = y.recovery
    BY DEF Runtime
  <1> QED
    BY <1>1, <1>2, <1>3, <1>4, <1>5

\* A refusal that starts or lengthens a recovery cooldown.
LEMMA CooldownIsCalm ==
    ASSUME NEW y \in Runtime, NEW t \in Nat, NEW reason, NEW hint
    PROVE  Calm(y, RecoveryCooldown(y, reason, hint, t))
  <1> DEFINE startsOver ==
                \/ y.reason # reason
                \/ y.lastRecovery = Never
                \/ t - y.lastRecovery > FailureReset
             attempts == IF startsOver THEN 1 ELSE y.recovery + 1
  <1>1. attempts > 0
    BY DEF Runtime
  <1>2. /\ RecoveryCooldown(y, reason, hint, t).recovery = attempts
        /\ RecoveryCooldown(y, reason, hint, t).failures = 0
    <2> HIDE DEF startsOver
    <2> QED
      BY DEF RecoveryCooldown, Runtime, startsOver
  <1> HIDE DEF attempts
  <1> QED
    BY <1>1, <1>2 DEF Calm, Runtime

\* A failure is counted only if it began after the last one, and it ends no
\* recovery back-off.
LEMMA CountedIsNewer ==
    ASSUME NEW y \in Runtime, NEW t \in Nat, NEW started \in Nat \ {0}
    PROVE  /\ CountFailure(y, started, t).failures > y.failures => started > y.barrier
           /\ CountFailure(y, started, t).recovery = y.recovery
  <1>1. CASE FailureIsLate(y, started)
    <2>1. CountFailure(y, started, t) = y
      BY <1>1 DEF CountFailure
    <2> QED
      BY <2>1 DEF Runtime
  <1>2. CASE ~FailureIsLate(y, started)
    <2>1. started > y.barrier
      BY <1>2 DEF FailureIsLate, Runtime, Never
    <2>2. CountFailure(y, started, t).recovery = y.recovery
      BY DEF CountFailure, Runtime
    <2> QED
      BY <2>1, <2>2
  <1> QED
    BY <1>1, <1>2

\* A step that is calm for every account.
LEMMA CalmIsFresh ==
    ASSUME IInv, \A a \in Accounts : Calm(rt[a], rt'[a])
    PROVE  \A a \in Accounts : Fresh(a)
  <1> TAKE a \in Accounts
  <1>1. rt[a].failures \in Nat /\ rt[a].recovery \in Nat
    BY DEF IInv, Healthy, RuntimesOK, Runtime
  <1> QED
    BY <1>1 DEF Calm, Fresh

\* A calm change of one record.
LEMMA OneCalm ==
    ASSUME IInv, NEW a \in Accounts, NEW x,
           rt' = [rt EXCEPT ![a] = x] \/ rt' = rt, Calm(rt[a], x)
    PROVE  \A b \in Accounts : Fresh(b)
  <1>1. rt \in [Accounts -> Runtime]
    BY DEF IInv, Healthy, RuntimesOK
  <1>2. \A b \in Accounts : rt'[b] = rt[b] \/ (b = a /\ rt'[b] = x)
    BY <1>1
  <1>3. \A b \in Accounts : Calm(rt[b], rt[b])
    BY <1>1 DEF Calm, Runtime
  <1> QED
    BY <1>2, <1>3, CalmIsFresh

\* What handleProxy writes at the end of an attempt is backed by that attempt.
LEMMA ProgressIsFresh ==
    ASSUME IInv, EvidenceInv, NEW r \in Requests, Progress(r), NEW a \in Accounts,
           cfg'[a] = cfg[a]
    PROVE  Fresh(a)
  <1>1. ~At(r, {"idle", "choosing"})
    BY DEF Progress, Abandon, Dispatch, Gated, Disconnect, Headers, AcceptProbe,
         Fail, RateLimited, Incompatible, OtherStatus, RestrictAccount, Succeed, Verify,
         Finish, Relay, Block, At
  <1> DEFINE b == req[r].acct
             y == rt[b]
  <1>2. /\ b \in Accounts /\ y \in Runtime /\ now \in Nat /\ req[r].started \in Nat
        /\ rt \in [Accounts -> Runtime]
    BY <1>1, OutcomeContext DEF IInv, Healthy, RuntimesOK, At
  <1>3. ASSUME UNCHANGED rt PROVE Fresh(a)
    <2>1. Calm(y, y)
      BY <1>2, CalmChanges
    <2> QED
      BY <1>2, <1>3, <2>1, OneCalm
  <1>4. ASSUME NEW x, Calm(y, x), Update(r, x) PROVE Fresh(a)
    BY <1>2, <1>4, OneCalm DEF Update
  <1>5. CASE Abandon(r) \/ Gated(r) \/ Disconnect(r) \/ Finish(r)
    <2> DEFINE x == [y EXCEPT !.probe = FALSE]
    <2>1. rt' = [rt EXCEPT ![b] = x] \/ rt' = rt
      BY <1>5 DEF Abandon, Gated, Disconnect, Finish, Released
    <2>2. Calm(y, x)
      BY <1>2, CalmChanges
    <2> HIDE DEF x
    <2> QED
      BY <1>2, <2>1, <2>2, OneCalm
  <1>6. CASE Dispatch(r) \/ Headers(r)
    BY <1>3, <1>6 DEF Dispatch, Headers
  <1>7. CASE AcceptProbe(r)
    <2>1. rt' = [rt EXCEPT ![b] = Accept(y)] \/ rt' = rt
      BY <1>7 DEF AcceptProbe
    <2>2. Calm(y, Accept(y))
      BY <1>2, CalmChanges
    <2> QED
      BY <1>2, <2>1, <2>2, OneCalm
  <1>8. CASE Incompatible(r) \/ OtherStatus(r)
    <2>1. Update(r, Reachable(y, now))
      BY <1>8 DEF Incompatible, OtherStatus
    <2>2. Calm(y, Reachable(y, now))
      BY <1>2, CalmChanges
    <2> QED
      BY <1>4, <2>1, <2>2
  <1>9. CASE RateLimited(r)
    <2>1. \E hint : Update(r, y) \/ Update(r, RecoveryCooldown(y, "rate_limit", hint, now))
      BY <1>9 DEF RateLimited
    <2>2. Calm(y, y) /\ \A hint : Calm(y, RecoveryCooldown(y, "rate_limit", hint, now))
      BY <1>2, CalmChanges, CooldownIsCalm
    <2> QED
      BY <1>4, <2>1, <2>2
  <1>10. CASE \E reason \in RecoverableReasons : Block(r, reason)
    <2>1. PICK reason \in RecoverableReasons : Block(r, reason)
      BY <1>10
    <2>2. \/ UNCHANGED rt
          \/ \E hint : rt' = [rt EXCEPT ![b] = RecoveryCooldown(y, reason, hint, now)]
      BY <2>1 DEF Block
    <2>3. \A hint : Calm(y, RecoveryCooldown(y, reason, hint, now))
      BY <1>2, CooldownIsCalm
    <2> QED
      BY <1>2, <1>3, <2>2, <2>3, OneCalm
  <1>11. CASE Fail(r) \/ Relay(r)
    <2> DEFINE x == CountFailure(y, req[r].started, now)
    <2>1. UNCHANGED rt \/ Update(r, x)
      BY <1>11 DEF Fail, Relay
    <2>2. CASE UNCHANGED rt
      BY <1>3, <2>2
    <2>3. CASE ~UNCHANGED rt
      <3>1. Current(r) /\ rt' = [rt EXCEPT ![b] = x]
        BY <2>1, <2>3 DEF Update
      <3>2. req[r].started \in Nat \ {0}
        BY <1>2, <1>11 DEF EvidenceInv, StartedOK, At, Fail, Relay, Never
      <3>3. x.failures > y.failures => req[r].started > y.barrier
        BY <1>2, <3>2, CountedIsNewer
      <3>4. x.recovery = y.recovery
        BY <1>2, <3>2, CountedIsNewer
      <3>5. Calm(rt[a], rt[a])
        BY <1>2, CalmChanges
      <3> HIDE DEF x
      <3>6. rt'[a] = rt[a] \/ (a = b /\ rt'[a] = x)
        BY <1>2, <3>1
      <3>7. CASE rt'[a] = rt[a]
        BY <1>2, <3>7 DEF Fresh, Runtime
      <3>8. CASE a = b /\ rt'[a] = x
        BY <3>1, <3>3, <3>4, <3>8 DEF Fresh
      <3> QED
        BY <3>6, <3>7, <3>8
    <2> QED
      BY <2>2, <2>3
  <1>12. CASE Succeed(r) \/ Verify(r)
    <2> DEFINE x == MarkSuccess(y, now)
    <2>1. UNCHANGED rt \/ (Proven(r) /\ rt' = [rt EXCEPT ![b] = x])
      BY <1>12 DEF Succeed, Verify
    <2>2. CASE Proven(r) /\ rt' = [rt EXCEPT ![b] = x]
      <3>1. Current(r) /\ req[r].started >= y.barrier
        <4>1. y.barrier \in Nat
          BY <1>2 DEF Runtime
        <4>2. Current(r) /\ ~(req[r].started < y.barrier)
          BY <2>2 DEF Proven, SuccessIsLate
        <4> HIDE DEF y
        <4> QED
          BY <1>2, <4>1, <4>2
      <3>2. x.failures = 0
        BY DEF MarkSuccess, EmptyRuntime
      <3> HIDE DEF x
      <3>3. rt'[a] = rt[a] \/ (a = b /\ rt'[a] = x)
        BY <1>2, <2>2
      <3>4. CASE rt'[a] = rt[a]
        BY <1>2, <3>4 DEF Fresh, Runtime
      <3>5. CASE a = b /\ rt'[a] = x
        BY <1>2, <3>1, <3>2, <3>5 DEF Fresh, Runtime
      <3> QED
        BY <3>3, <3>4, <3>5
    <2> QED
      BY <1>3, <2>1, <2>2
  <1>13. CASE RestrictAccount(r)
    <2>1. CASE ~Current(r)
      BY <1>3, <1>13, <2>1 DEF RestrictAccount
    <2>2. CASE Current(r)
      <3> DEFINE x == HardBlock(y, now)
      <3>1. /\ rt' = [rt EXCEPT ![b] = x]
            /\ cfg' = [cfg EXCEPT ![b].blocked = "restricted"]
        BY <1>13, <2>2 DEF RestrictAccount
      <3>2. x.failures = 0
        BY DEF HardBlock, MarkSuccess, EmptyRuntime
      <3>3. a = b => cfg[a].blocked \in HardReasons
        <4>1. cfg \in [Accounts -> [rev : Nat \ {0}, blocked : BlockReasons,
                                   enabled : BOOLEAN, verified : BOOLEAN]]
          BY DEF IInv, Healthy, ConfigsTyped, Config
        <4>2. a = b => cfg'[a].blocked = "restricted"
          BY <1>2, <3>1, <4>1
        <4> QED
          BY <4>2 DEF HardReasons
      <3> HIDE DEF x
      <3>4. rt'[a] = rt[a] \/ (a = b /\ rt'[a] = x)
        BY <1>2, <3>1
      <3>5. CASE rt'[a] = rt[a]
        BY <1>2, <3>5 DEF Fresh, Runtime
      <3>6. CASE a = b /\ rt'[a] = x
        BY <1>2, <3>2, <3>3, <3>6 DEF Fresh, Runtime
      <3> QED
        BY <3>4, <3>5, <3>6
    <2> QED
      BY <2>1, <2>2
  <1> QED
    BY <1>5, <1>6, <1>7, <1>8, <1>9, <1>10, <1>11, <1>12, <1>13 DEF Progress

\* Nobody else counts a failure, and only new credentials forget a back-off.
LEMMA OthersAreFresh ==
    ASSUME IInv, NEW a \in Accounts, cfg'[a] = cfg[a],
           \/ WriteSucceeds \/ WriteFails \/ Tick \/ UNCHANGED vars
           \/ \E r \in Requests : Arrive(r) \/ Choose(r)
           \/ \E b \in Accounts : \/ Save(b) \/ Reset(b) \/ Resume(b)
                                  \/ BalanceRecovers(b) \/ UsageRefreshed(b)
    PROVE  Fresh(a)
  <1>1. rt \in [Accounts -> Runtime] /\ now \in Nat /\ now \in Nat \ {0}
    BY DEF IInv, Healthy, RuntimesOK
  <1>2. ASSUME rt'[a] = rt[a] PROVE Fresh(a)
    BY <1>1, <1>2 DEF Fresh, Runtime
  <1>3. CASE WriteSucceeds
    <2>1. cand[a].rev = cfg[a].rev
      BY <1>3 DEF WriteSucceeds
    <2> QED
      BY <1>2, <1>3, <2>1 DEF WriteSucceeds
  <1>4. CASE \/ WriteFails \/ Tick \/ UNCHANGED vars \/ \E b \in Accounts : Save(b)
    BY <1>2, <1>4 DEF WriteFails, Tick, vars, Save
  <1>5. ASSUME NEW r \in Requests, Arrive(r) \/ Choose(r) PROVE Fresh(a)
    <2>1. CASE Arrive(r) \/ Reject(r) \/ StopWaiting(r)
      BY <1>2, <2>1 DEF Arrive, Reject, StopWaiting
    <2>2. CASE Select(r)
      <3>1. PICK b \in Candidates(r) :
               rt' = IF SoftFailure(b) THEN [rt EXCEPT ![b].probe = TRUE] ELSE rt
        BY <2>2 DEF Select
      <3>2. b \in Accounts
        BY DEF Candidates, Regular, Probes, DueProbes, Emergency, Foremost
      <3> DEFINE x == [rt[b] EXCEPT !.probe = TRUE]
      <3>3. Calm(rt[b], x)
        BY <1>1, <3>2, CalmChanges
      <3>4. rt' = [rt EXCEPT ![b] = x] \/ rt' = rt
        BY <3>1
      <3> HIDE DEF x
      <3> QED
        BY <3>2, <3>3, <3>4, OneCalm
    <2> QED
      BY <1>5, <2>1, <2>2 DEF Choose
  <1>6. ASSUME NEW b \in Accounts,
               Reset(b) \/ Resume(b) \/ BalanceRecovers(b) \/ UsageRefreshed(b)
        PROVE  Fresh(a)
    <2>1. CASE Reset(b) \/ Resume(b)
      <3>1. rt' = [rt EXCEPT ![b] = Wake(rt[b], now)]
        BY <2>1 DEF Reset, Resume, WakeUp
      <3>2. Calm(rt[b], Wake(rt[b], now))
        BY <1>1, CalmChanges
      <3> QED
        BY <3>1, <3>2, OneCalm
    <2>2. CASE BalanceRecovers(b)
      <3> DEFINE x == [rt[b] EXCEPT !.until = now]
      <3>1. rt' = [rt EXCEPT ![b] = x]
        BY <2>2 DEF BalanceRecovers
      <3>2. Calm(rt[b], x)
        BY <1>1, CalmChanges
      <3> HIDE DEF x
      <3> QED
        BY <3>1, <3>2, OneCalm
    <2>3. CASE UsageRefreshed(b)
      <3>1. PICK reason \in {"quota", NoReason}, until \in Nat :
               rt' = [rt EXCEPT ![b].reason = reason, ![b].until = until]
        <4>1. ASSUME NEW delay \in Hints PROVE now + delay \in Nat
          <5>1. delay \in Nat
            BY RoutingAssumption
          <5> QED
            BY <1>1, <5>1
        <4>2. Never \in Nat
          BY DEF Never
        <4> QED
          BY <2>3, <4>1, <4>2 DEF UsageRefreshed
      <3> DEFINE x == [rt[b] EXCEPT !.reason = reason, !.until = until]
      <3>2. rt' = [rt EXCEPT ![b] = x]
        BY <3>1
      <3>3. Calm(rt[b], x)
        BY <1>1, CalmChanges
      <3> HIDE DEF x
      <3> QED
        BY <3>2, <3>3, OneCalm
    <2> QED
      BY <1>6, <2>1, <2>2, <2>3
  <1> QED
    BY <1>3, <1>4, <1>5, <1>6

\* Between restarts a failure is counted, and a back-off ends, only on evidence
\* newer than the last setback, whatever answers arrive late.
THEOREM OldEvidenceIsIgnored == Spec => EvidenceIsFresh
  <1>1. ASSUME IInv, EvidenceInv, [Next]_vars
        PROVE  [~Crash => \A a \in Accounts :
                  cfg'[a] = cfg[a] =>
                  /\ rt'[a].failures > rt[a].failures =>
                        \E r \in Requests : req[r].acct = a /\ Current(r)
                                           /\ req[r].started > rt[a].barrier
                  /\ rt[a].recovery > 0 /\ rt'[a].recovery = 0
                     /\ cfg[a].blocked \notin HardReasons =>
                        \E r \in Requests : req[r].acct = a /\ Current(r)
                                           /\ req[r].started >= rt[a].barrier]_vars
    <2> SUFFICES ASSUME ~Crash, NEW a \in Accounts, cfg'[a] = cfg[a]
                 PROVE  Fresh(a)
      BY DEF Fresh
    <2> QED
      BY <1>1, ProgressIsFresh, OthersAreFresh DEF Next
  <1> QED
    BY <1>1, Invariance, EvidenceInvariant, PTL DEF Spec, EvidenceIsFresh

=============================================================================
