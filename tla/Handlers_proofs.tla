-------------------------- MODULE Handlers_proofs ---------------------------
(****************************************************************************)
(* What the handlers of the registry, of the runtime and of the store and  *)
(* the store's snapshots keep, for every set of callers, names, records and*)
(* events: the inductive invariant of each module is true when its part    *)
(* begins and kept by every step, with the lemmas on sequences that the    *)
(* proofs share.                                                           *)
(****************************************************************************)
EXTENDS RegistryHandler, RuntimeHandler, StoreHandler, StoreSnapshot, FiniteSetTheorems, TLAPS

\* Appending to a sequence adds one element at its end.
LEMMA AppendFacts ==
  ASSUME NEW S, NEW s \in Seq(S), NEW e \in S
  PROVE  /\ Append(s, e) \in Seq(S) /\ Len(Append(s, e)) = Len(s) + 1
         /\ Append(s, e)[Len(s) + 1] = e
         /\ \A i \in 1 .. Len(s) : Append(s, e)[i] = s[i]
         /\ Len(s) \in Nat
  OBVIOUS

\* The first of a sequence, and what is left without it.
LEMMA TailFacts ==
  ASSUME NEW S, NEW s \in Seq(S), s # <<>>
  PROVE  /\ Head(s) \in S /\ Head(s) = s[1] /\ Tail(s) \in Seq(S)
         /\ Len(s) \in Nat /\ Len(s) >= 1 /\ Len(Tail(s)) = Len(s) - 1
         /\ \A i \in 1 .. Len(s) - 1 : Tail(s)[i] = s[i + 1]
  OBVIOUS

\* An element of a sequence.
LEMMA SeqElement ==
  ASSUME NEW S, NEW s \in Seq(S), NEW i \in 1 .. Len(s)
  PROVE  s[i] \in S
  OBVIOUS

\* A finite set as a sequence has each of its elements once.
LEMMA SetSequences ==
  ASSUME NEW S, IsFiniteSet(S), NEW s \in SetToSeqs(S)
  PROVE  /\ s \in Seq(S) /\ Len(s) = Cardinality(S) /\ ToSet(s) = S
         /\ \A i, j \in 1 .. Len(s) : i # j => s[i] # s[j]
<1>1. Cardinality(S) \in Nat
  BY FS_CardinalityType
<1>2. PICK n : n = Cardinality(S)
  OBVIOUS
<1>3. n \in Nat /\ s \in [1 .. n -> S] /\ \A i, j \in 1 .. n : i # j => s[i] # s[j]
  BY <1>1, <1>2 DEF SetToSeqs
<1>4. s \in Seq(S) /\ Len(s) = n
  BY <1>3
<1>5. s \in Injection(1 .. n, S)
  BY <1>3 DEF Injection, IsInjective
<1>6. Cardinality(1 .. n) = n
  BY <1>3, FS_Interval
<1>7. s \in Surjection(1 .. n, S)
  BY <1>2, <1>5, <1>6, FS_Injection
<1>8. ToSet(s) = S
  BY <1>3, <1>7 DEF ToSet, Surjection
<1>9. \A i, j \in 1 .. Len(s) : i # j => s[i] # s[j]
  BY ONLY <1>3, <1>4
<1> QED BY ONLY <1>2, <1>4, <1>8, <1>9

-----------------------------------------------------------------------------
(****************************************************************************)
(* Induction, and what it gives: functions that are defined by recursion and *)
(* sequences that are flattened.                                           *)
(****************************************************************************)

\* Numbers have a first one.
LEMMA LeastNumber ==
  ASSUME NEW T, T \subseteq Nat, T # {}
  PROVE  \E n \in T : \A m \in T : n <= m
<1>1. PICK n \in T : \A m \in T : ~ (<<m, n>> \in OpToRel(<, Nat))
  BY NatLessThanWellFounded, WFMin, Zenon
<1>2. \A m \in T : m \in Nat /\ n \in Nat
  BY <1>1
<1>3. \A m \in T : m < n => <<m, n>> \in OpToRel(<, Nat)
  BY <1>2, Zenon DEF OpToRel
<1>4. \A m \in T : ~ (m < n)
  BY <1>1, <1>3, Zenon
<1> QED BY <1>2, <1>4

\* A set that the first number of an interval is in, and with each number the
\* next one, has the whole interval.
LEMMA UpTo ==
  ASSUME NEW m \in Nat, NEW n \in Nat, NEW S,
         m \in S, \A i \in m .. n - 1 : i \in S => i + 1 \in S
  PROVE  m .. n \subseteq S
<1> DEFINE T == (m .. n) \ S
<1> SUFFICES ASSUME T # {} PROVE FALSE
  OBVIOUS
<1>1. T \subseteq Nat
  OBVIOUS
<1>2. PICK i \in T : \A j \in T : i <= j
  BY <1>1, LeastNumber
<1>3. i # m /\ i \in m .. n
  OBVIOUS
<1>4. i - 1 \in m .. n - 1 /\ ~ (i <= i - 1)
  BY <1>3
<1>5. i - 1 \in S
  BY <1>2, <1>4
<1>6. i - 1 + 1 = i
  BY <1>3
<1>7. i \in S
  BY <1>4, <1>5, <1>6
<1> QED BY <1>7

\* f has a value for each number from m to n: the first, and what follows from the one before.
Follows(f, m, n, T, first, step) ==
  /\ f \in [m .. n -> T] /\ f[m] = first
  /\ \A i \in m + 1 .. n : f[i] = step[i][f[i - 1]]

\* What is defined by what is before it is there.
LEMMA Recursion ==
  ASSUME NEW m \in Nat, NEW n \in Nat, m <= n, NEW T, NEW first \in T,
         NEW step \in [m + 1 .. n -> [T -> T]]
  PROVE  \E f : Follows(f, m, n, T, first, step)
<1> DEFINE Begun(k, f) == f[m] = first /\ \A i \in m + 1 .. k : f[i] = step[i][f[i - 1]]
           S == {k \in m .. n : \E f \in [m .. k -> T] : Begun(k, f)}
<1>1. m \in S
  <2>1. [i \in m .. m |-> first] \in [m .. m -> T] /\ Begun(m, [i \in m .. m |-> first])
    OBVIOUS
  <2>2. m \in m .. n
    OBVIOUS
  <2> QED BY <2>1, <2>2
<1>2. ASSUME NEW k \in m .. n - 1, k \in S PROVE k + 1 \in S
  <2>1. PICK f \in [m .. k -> T] : Begun(k, f)
    BY <1>2
  <2>2. PICK g : g = [i \in m .. k + 1 |-> IF i = k + 1 THEN step[k + 1][f[k]] ELSE f[i]]
    OBVIOUS
  <2>3. step[k + 1][f[k]] \in T
    OBVIOUS
  <2>4. g \in [m .. k + 1 -> T]
    BY <2>2, <2>3
  <2>5. Begun(k + 1, g)
    <3>1. g[m] = first
      BY <2>1, <2>2
    <3>2. ASSUME NEW i \in m + 1 .. k + 1 PROVE g[i] = step[i][g[i - 1]]
      <4>1. CASE i = k + 1
        BY <2>2, <4>1
      <4>2. CASE i # k + 1
        BY <2>1, <2>2, <4>2
      <4> QED BY <4>1, <4>2
    <3> QED BY <3>1, <3>2
  <2>6. k + 1 \in m .. n
    OBVIOUS
  <2> QED BY <2>4, <2>5, <2>6
<1> HIDE DEF S
<1>3. n \in S
  <2>1. m .. n \subseteq S
    BY ONLY m \in Nat, n \in Nat, <1>1, <1>2, UpTo
  <2> QED BY <2>1
<1>4. PICK f \in [m .. n -> T] : Begun(n, f)
  BY <1>3 DEF S
<1> QED BY <1>4 DEF Follows

\* FlattenSeq unfolds: one more sequence each time.
LEMMA FlattenUnfolds ==
  ASSUME NEW T, NEW seqs \in Seq(Seq(T)), seqs # <<>>
  PROVE  \E f \in [1 .. Len(seqs) -> Seq(T)] :
           /\ f[1] = seqs[1] /\ FlattenSeq(seqs) = f[Len(seqs)]
           /\ \A i \in 2 .. Len(seqs) : f[i] = f[i - 1] \o seqs[i]
<1> DEFINE n == Len(seqs)
           Unfolded(f) == f = [i \in 1 .. n |-> IF i = 1 THEN seqs[i] ELSE f[i - 1] \o seqs[i]]
<1>1. n \in Nat /\ n >= 1 /\ \A i \in 1 .. n : seqs[i] \in Seq(T)
  OBVIOUS
<1>2. PICK U : U = Seq(T)
  OBVIOUS
<1>3. \A a \in U, b \in U : a \o b \in U
  BY <1>2
<1>4. PICK step : step = [i \in 1 + 1 .. n |-> [a \in U |-> a \o seqs[i]]]
  OBVIOUS
<1>5. step \in [1 + 1 .. n -> [U -> U]]
  <2>1. \A i \in 1 + 1 .. n : seqs[i] \in U
    BY <1>1, <1>2
  <2>2. \A i \in 1 + 1 .. n : [a \in U |-> a \o seqs[i]] \in [U -> U]
    BY <1>3, <2>1
  <2> QED BY <1>4, <2>2
<1> HIDE DEF n
<1>6. PICK g \in [1 .. n -> U] : g[1] = seqs[1] /\ \A i \in 1 + 1 .. n : g[i] = step[i][g[i - 1]]
  <2>1. seqs[1] \in U /\ 1 <= n /\ 1 \in Nat /\ n \in Nat
    BY <1>1, <1>2
  <2>2. \E g : Follows(g, 1, n, U, seqs[1], step)
    BY ONLY <1>5, <2>1, Recursion
  <2> QED BY <2>2 DEF Follows
<1>7. ASSUME NEW i \in 2 .. n PROVE g[i] = g[i - 1] \o seqs[i]
  <2>1. i - 1 \in 1 .. n /\ i \in 1 + 1 .. n
    BY <1>1
  <2>2. g[i] = step[i][g[i - 1]]
    BY <1>6, <2>1
  <2> QED BY <1>4, <1>6, <2>1, <2>2
<1>8. Unfolded(g)
  <2>1. \A i \in 1 .. n : g[i] = IF i = 1 THEN seqs[i] ELSE g[i - 1] \o seqs[i]
    <3>1. ASSUME NEW i \in 1 .. n PROVE i = 1 \/ (i # 1 /\ i \in 2 .. n)
      BY <1>1
    <3> QED BY ONLY <1>6, <1>7, <3>1, Zenon
  <2>2. g = [i \in 1 .. n |-> g[i]]
    BY <1>6
  <2> QED BY <2>1, <2>2
<1>9. PICK f : f = CHOOSE h : Unfolded(h)
  OBVIOUS
<1>10. Unfolded(f)
  BY <1>8, <1>9
<1>11. FlattenSeq(seqs) = f[n]
  <2>1. Len(seqs) # 0
    BY <1>1 DEF n
  <2> QED BY <1>9, <2>1 DEF FlattenSeq, n
<1>12. f[1] = seqs[1] /\ \A i \in 2 .. n : f[i] = f[i - 1] \o seqs[i]
  <2>1. 1 \in 1 .. n /\ \A i \in 2 .. n : i \in 1 .. n /\ i # 1
    BY <1>1
  <2>2. \A i \in 1 .. n : f[i] = IF i = 1 THEN seqs[i] ELSE f[i - 1] \o seqs[i]
    BY ONLY <1>10, Zenon
  <2> QED BY ONLY <2>1, <2>2, Zenon
<1>13. f \in [1 .. n -> U]
  <2> DEFINE S == {i \in 1 .. n : f[i] \in U}
  <2>1. 1 \in S
    BY <1>1, <1>2, <1>12
  <2>2. ASSUME NEW i \in 1 .. n - 1, i \in S PROVE i + 1 \in S
    <3>1. i + 1 \in 2 .. n /\ i + 1 \in 1 .. n /\ i + 1 - 1 = i
      BY <1>1
    <3>2. f[i + 1] = f[i] \o seqs[i + 1]
      <4>1. PICK j : j = i + 1
        OBVIOUS
      <4>2. j \in 2 .. n /\ j - 1 = i
        BY ONLY <3>1, <4>1
      <4>3. f[j] = f[j - 1] \o seqs[j]
        BY ONLY <1>12, <4>2, Zenon
      <4> QED BY ONLY <4>1, <4>2, <4>3, Zenon
    <3> QED BY <1>1, <1>2, <1>3, <2>2, <3>1, <3>2
  <2> HIDE DEF S
  <2>3. 1 \in Nat
    OBVIOUS
  <2>4. 1 .. n \subseteq S
    BY ONLY <1>1, <2>1, <2>2, <2>3, UpTo
  <2>5. \A i \in 1 .. n : f[i] \in U
    BY <2>4 DEF S
  <2> QED BY <1>10, <2>5
<1> QED BY <1>2, <1>11, <1>12, <1>13 DEF n

\* Where the elements of a sequence come from: the one at q is the one at col[q] of
\* the sequence row[q] of the first k, no two from one place, and none left out.
Placed(flat, seqs, k, row, col) ==
  /\ \A q \in 1 .. Len(flat) : /\ row[q] \in 1 .. k /\ col[q] \in 1 .. Len(seqs[row[q]])
                               /\ flat[q] = seqs[row[q]][col[q]]
  /\ \A q, r \in 1 .. Len(flat) : row[q] = row[r] /\ col[q] = col[r] => q = r
  /\ \A i \in 1 .. k : \A j \in 1 .. Len(seqs[i]) :
       \E q \in 1 .. Len(flat) : row[q] = i /\ col[q] = j

LEMMA PlacedMore ==
  ASSUME NEW T, NEW seqs \in Seq(Seq(T)), NEW k \in 1 .. Len(seqs) - 1, NEW flat \in Seq(T),
         NEW row, NEW col, Placed(flat, seqs, k, row, col)
  PROVE  \E r, c : Placed(flat \o seqs[k + 1], seqs, k + 1, r, c)
<1>1. PICK n, last, m : n = Len(flat) /\ last = seqs[k + 1] /\ m = Len(last)
  OBVIOUS
<1>2. n \in Nat /\ m \in Nat /\ k \in Nat /\ last \in Seq(T)
  BY <1>1
<1>3. PICK more : more = flat \o last
  OBVIOUS
<1>4. /\ Len(more) = n + m
      /\ \A q \in 1 .. n : more[q] = flat[q]
      /\ \A q \in 1 .. n + m : q > n => more[q] = last[q - n]
  BY <1>1, <1>2, <1>3
<1>5. PICK r : r = [q \in 1 .. n + m |-> IF q > n THEN k + 1 ELSE row[q]]
  OBVIOUS
<1>6. PICK c : c = [q \in 1 .. n + m |-> IF q > n THEN q - n ELSE col[q]]
  OBVIOUS
<1>7. /\ \A q \in 1 .. n : /\ row[q] \in 1 .. k /\ col[q] \in 1 .. Len(seqs[row[q]])
                           /\ flat[q] = seqs[row[q]][col[q]]
      /\ \A q, p \in 1 .. n : row[q] = row[p] /\ col[q] = col[p] => q = p
      /\ \A i \in 1 .. k : \A j \in 1 .. Len(seqs[i]) : \E q \in 1 .. n : row[q] = i /\ col[q] = j
  BY <1>1 DEF Placed
<1>8. ASSUME NEW q \in 1 .. n + m
      PROVE  /\ r[q] \in 1 .. k + 1 /\ c[q] \in 1 .. Len(seqs[r[q]])
             /\ more[q] = seqs[r[q]][c[q]]
  <2>1. CASE q > n
    <3>1. r[q] = k + 1 /\ c[q] = q - n /\ q - n \in 1 .. m
      BY <1>2, <1>5, <1>6, <2>1
    <3> QED BY <1>1, <1>2, <1>4, <2>1, <3>1
  <2>2. CASE ~(q > n)
    <3>1. PICK i, j : i = row[q] /\ j = col[q]
      OBVIOUS
    <3>2. q \in 1 .. n /\ r[q] = i /\ c[q] = j
      BY <1>2, <1>5, <1>6, <2>2, <3>1
    <3>3. i \in 1 .. k /\ j \in 1 .. Len(seqs[i]) /\ flat[q] = seqs[i][j]
      BY <1>7, <3>1, <3>2
    <3>4. more[q] = flat[q] /\ i \in 1 .. k + 1
      BY ONLY <1>2, <1>4, <3>2, <3>3
    <3> QED BY ONLY <3>2, <3>3, <3>4, Zenon
  <2> QED BY <2>1, <2>2
<1>9. ASSUME NEW q \in 1 .. n + m, NEW p \in 1 .. n + m, r[q] = r[p], c[q] = c[p] PROVE q = p
  <2>1. CASE q > n /\ p > n
    BY <1>2, <1>6, <1>9, <2>1
  <2>2. CASE ~(q > n) /\ ~(p > n)
    <3>1. q \in 1 .. n /\ p \in 1 .. n
      BY <1>2, <2>2
    <3> QED BY <1>5, <1>6, <1>7, <1>9, <2>2, <3>1
  <2>3. CASE q > n /\ ~(p > n)
    <3>1. p \in 1 .. n /\ r[q] = k + 1 /\ r[p] = row[p]
      BY <1>2, <1>5, <2>3
    <3>2. row[p] \in 1 .. k /\ row[p] = k + 1
      BY <1>7, <1>9, <3>1
    <3> QED BY ONLY <1>2, <3>2
  <2>4. CASE p > n /\ ~(q > n)
    <3>1. q \in 1 .. n /\ r[p] = k + 1 /\ r[q] = row[q]
      BY <1>2, <1>5, <2>4
    <3>2. row[q] \in 1 .. k /\ row[q] = k + 1
      BY <1>7, <1>9, <3>1
    <3> QED BY ONLY <1>2, <3>2
  <2> QED BY <2>1, <2>2, <2>3, <2>4
<1>10. ASSUME NEW i \in 1 .. k + 1, NEW j \in 1 .. Len(seqs[i])
       PROVE  \E q \in 1 .. n + m : r[q] = i /\ c[q] = j
  <2>1. CASE i = k + 1
    <3>1. j \in 1 .. m
      BY <1>1, <2>1
    <3>2. n + j \in 1 .. n + m /\ n + j > n /\ n + j - n = j
      BY <1>2, <3>1
    <3>3. r[n + j] = k + 1 /\ c[n + j] = j
      BY <1>2, <1>5, <1>6, <3>2
    <3> QED BY ONLY <2>1, <3>2, <3>3
  <2>2. CASE i # k + 1
    <3>1. i \in 1 .. k
      BY <1>2, <2>2
    <3>2. PICK q \in 1 .. n : row[q] = i /\ col[q] = j
      BY <1>7, <3>1
    <3>3. q \in 1 .. n + m /\ ~(q > n)
      BY <1>2
    <3> QED BY <1>5, <1>6, <3>2, <3>3
  <2> QED BY <2>1, <2>2
<1>11. Placed(more, seqs, k + 1, r, c)
  BY ONLY <1>4, <1>8, <1>9, <1>10 DEF Placed
<1> QED BY <1>1, <1>3, <1>11

\* What is flattened has what the sequences have, as often as they have it.
LEMMA FlattenPlaces ==
  ASSUME NEW T, NEW seqs \in Seq(Seq(T))
  PROVE  /\ FlattenSeq(seqs) \in Seq(T)
         /\ \E row, col : Placed(FlattenSeq(seqs), seqs, Len(seqs), row, col)
<1>1. CASE seqs = <<>>
  <2>1. Len(seqs) = 0 /\ FlattenSeq(seqs) = <<>>
    BY <1>1 DEF FlattenSeq
  <2>2. Placed(<<>>, seqs, 0, <<>>, <<>>)
    BY DEF Placed
  <2> QED BY <2>1, <2>2
<1>2. CASE seqs # <<>>
  <2>1. PICK n : n = Len(seqs)
    OBVIOUS
  <2>2. n \in Nat /\ n >= 1 /\ 1 \in Nat
    BY <1>2, <2>1
  <2>3. PICK f \in [1 .. n -> Seq(T)] :
               /\ f[1] = seqs[1] /\ FlattenSeq(seqs) = f[n]
               /\ \A i \in 2 .. n : f[i] = f[i - 1] \o seqs[i]
    BY <1>2, <2>1, FlattenUnfolds
  <2> DEFINE S == {i \in 1 .. n : \E row, col : Placed(f[i], seqs, i, row, col)}
  <2>4. 1 \in S
    <3>1. PICK row : row = [q \in 1 .. Len(seqs[1]) |-> 1]
      OBVIOUS
    <3>2. PICK col : col = [q \in 1 .. Len(seqs[1]) |-> q]
      OBVIOUS
    <3>3. Placed(seqs[1], seqs, 1, row, col)
      BY <3>1, <3>2 DEF Placed
    <3> QED BY <2>2, <2>3, <3>3
  <2>5. ASSUME NEW i \in 1 .. n - 1, i \in S PROVE i + 1 \in S
    <3>1. PICK row, col : Placed(f[i], seqs, i, row, col)
      BY <2>5
    <3>2. i \in 1 .. Len(seqs) - 1 /\ i + 1 \in 2 .. n /\ i + 1 \in 1 .. n /\ i + 1 - 1 = i
      BY <2>1, <2>2
    <3>3. f[i + 1] = f[i] \o seqs[i + 1]
      <4>1. PICK j : j = i + 1
        OBVIOUS
      <4>2. j \in 2 .. n /\ j - 1 = i
        BY ONLY <3>2, <4>1
      <4>3. f[j] = f[j - 1] \o seqs[j]
        BY ONLY <2>3, <4>2, Zenon
      <4> QED BY ONLY <4>1, <4>2, <4>3, Zenon
    <3>4. i \in 1 .. n
      BY <2>2
    <3>5. f[i] \in Seq(T)
      BY <2>3, <3>4
    <3>6. \E r, c : Placed(f[i] \o seqs[i + 1], seqs, i + 1, r, c)
      BY ONLY <3>1, <3>2, <3>5, PlacedMore, seqs \in Seq(Seq(T))
    <3>7. \E r, c : Placed(f[i + 1], seqs, i + 1, r, c)
      BY ONLY <3>3, <3>6
    <3> QED BY <3>2, <3>7
  <2> HIDE DEF S
  <2>6. 1 .. n \subseteq S
    BY ONLY <2>2, <2>4, <2>5, UpTo
  <2>7. n \in S
    BY <2>2, <2>6
  <2>8. \E row, col : Placed(f[n], seqs, n, row, col)
    BY <2>7 DEF S
  <2> QED BY <2>1, <2>2, <2>3, <2>8
<1> QED BY <1>1, <1>2

-----------------------------------------------------------------------------
(****************************************************************************)
(* The registry: its events tell what it holds, and streams tell each      *)
(* watcher the changes of its own namespaces, in order.                    *)
(****************************************************************************)

\* Its elements are the old ones and the new one.
LEMMA AppendSet ==
  ASSUME NEW S, NEW s \in Seq(S), NEW e \in S
  PROVE  ToSet(Append(s, e)) = ToSet(s) \cup {e}
<1> DEFINE t == Append(s, e)
<1>1. /\ DOMAIN t = 1 .. Len(s) + 1 /\ DOMAIN s = 1 .. Len(s) /\ Len(s) \in Nat
      /\ t[Len(s) + 1] = e /\ \A i \in 1 .. Len(s) : t[i] = s[i]
  BY AppendFacts
<1> HIDE DEF t
<1>2. ASSUME NEW x \in ToSet(t) PROVE x \in ToSet(s) \cup {e}
  <2>1. PICK i \in 1 .. Len(s) + 1 : x = t[i]
    BY <1>1 DEF ToSet
  <2>2. CASE i = Len(s) + 1
    BY <1>1, <2>1, <2>2
  <2>3. CASE i \in 1 .. Len(s)
    BY <1>1, <2>1, <2>3 DEF ToSet
  <2> QED BY <1>1, <2>2, <2>3
<1>3. ASSUME NEW x \in ToSet(s) PROVE x \in ToSet(t)
  <2>1. PICK i \in 1 .. Len(s) : x = s[i]
    BY <1>1 DEF ToSet
  <2>2. i \in DOMAIN t /\ t[i] = x
    BY <1>1, <2>1
  <2> QED BY <2>2 DEF ToSet
<1>4. e \in ToSet(t)
  <2>1. Len(s) + 1 \in DOMAIN t
    BY <1>1
  <2> QED BY <1>1, <2>1 DEF ToSet
<1> QED BY <1>2, <1>3, <1>4 DEF t

\* A number above all of a sequence keeps it increasing.
LEMMA AppendIncreasing ==
  ASSUME NEW s \in Seq(Nat), NEW i \in Nat, \A x \in ToSet(s) : x < i,
         Increasing(s)
  PROVE  Increasing(Append(s, i))
<1> DEFINE t == Append(s, i)
<1>1. /\ Len(t) = Len(s) + 1 /\ Len(s) \in Nat
      /\ t[Len(s) + 1] = i /\ \A k \in 1 .. Len(s) : t[k] = s[k]
  BY AppendFacts
<1>2. \A k \in 1 .. Len(s) : s[k] < i
  BY DEF ToSet
<1>4. \A j, k \in 1 .. Len(s) : j < k => s[j] < s[k]
  BY DEF Increasing
<1> HIDE DEF t
<1>3. ASSUME NEW j \in 1 .. Len(t), NEW k \in 1 .. Len(t), j < k PROVE t[j] < t[k]
  <2>0. Len(t) = Len(s) + 1 /\ Len(s) \in Nat
    BY <1>1
  <2>1. j \in 1 .. Len(s) /\ (k \in 1 .. Len(s) \/ k = Len(s) + 1)
    BY ONLY <1>3, <2>0
  <2> QED BY <1>1, <1>2, <1>3, <1>4, <2>1
<1> QED BY <1>3 DEF t, Increasing

\* The parts of a name of the registry (handler.go withNamespace, withoutNamespace).
LEMMA NameParts ==
  ASSUME NEW name \in ServiceNames, NEW ns \in Namespaces
  PROVE  /\ withNamespace(name, ns) \in RegistryNames
         /\ withoutNamespace(withNamespace(name, ns)) = name
         /\ ns = DefaultNamespace => withNamespace(name, ns) = <<name>>
  BY DEF RegistryNames, withNamespace, withoutNamespace, Last

\* The registry starts empty.
LEMMA RegistryInitInv == RegistryInit => RegistryIInv
<1> SUFFICES ASSUME RegistryInit PROVE RegistryIInv
  OBVIOUS
<1> USE RegistryAssumption DEF RegistryInit
<1>1. RegistryTypeOK
  BY DEF RegistryTypeOK, StreamRecords
<1>2. UnblurredPublished /\ UnblurredInOrder /\ LastChangeDecides
  BY DEF UnblurredPublished, UnblurredInOrder, LastChangeDecides
<1>3. RegistryStreamsFaithful
  BY DEF RegistryStreamsFaithful, Increasing, Visible, ToSet
<1> QED BY <1>1, <1>2, <1>3 DEF RegistryIInv

\* Register and Deregister record a change that is not yet published.
LEMMA ChangeInv ==
  ASSUME RegistryIInv, NEW ns \in Namespaces, NEW name \in ServiceNames,
         NEW node \in RegistryNodes,
         Register(ns, name, node) \/ Deregister(ns, name, node)
  PROVE  RegistryIInv'
<1> DEFINE full == withNamespace(name, ns)
<1>1. PICK action \in {"create", "delete"} :
        /\ Change(action, ns, name, node)
        /\ action = "create" => registered' = registered \cup {<<full, node>>}
        /\ action = "delete" => registered' = registered \ {<<full, node>>}
  BY DEF Register, Deregister
<1> DEFINE c == [action |-> action, service |-> full, node |-> node]
<1>2. full \in RegistryNames /\ withoutNamespace(full) = name
      /\ (ns = DefaultNamespace => full = <<name>>)
  BY NameParts
<1>3. c \in ChangeRecords
      /\ c.service = full /\ c.action = action /\ c.node = node
  BY <1>2 DEF ChangeRecords
<1>4. /\ changes' = Append(changes, c)
      /\ publishing' = publishing \cup {Len(changes) + 1}
      /\ blurred' = IF ns = DefaultNamespace THEN blurred ELSE blurred \cup {<<name, node>>}
      /\ heard' = heard /\ watch' = watch /\ watched' = watched
  BY <1>1 DEF Change
<1>5. /\ Len(changes') = Len(changes) + 1 /\ changes'[Len(changes) + 1] = c
      /\ Len(changes) \in Nat
      /\ \A i \in 1 .. Len(changes) : changes'[i] = changes[i]
      /\ changes' \in Seq(ChangeRecords)
  BY <1>3, <1>4, AppendFacts DEF RegistryIInv, RegistryTypeOK
<1> HIDE DEF c, full
<1>n. PICK n \in Nat : n = Len(changes) + 1
  BY <1>5
<1>6. RegistryTypeOK'
  <2>1. registered' \subseteq RegistryNames \X RegistryNodes
    BY <1>1, <1>2 DEF RegistryIInv, RegistryTypeOK
  <2>2. heard' \in Seq(1 .. Len(changes'))
    BY <1>4, <1>5 DEF RegistryIInv, RegistryTypeOK
  <2>3. \A s \in RegistryStreams : watch[s].next \in watch[s].from + 1 .. Len(changes') + 1
    <3>1. \A s \in RegistryStreams : watch[s].from \in Nat /\ watch[s].next \in Nat
                                   /\ watch[s].next \in watch[s].from + 1 .. Len(changes) + 1
      BY DEF RegistryIInv, RegistryTypeOK, StreamRecords
    <3> QED BY <1>5, <3>1
  <2>4. publishing' \subseteq 1 .. Len(changes')
    <3>1. publishing \subseteq 1 .. Len(changes)
      BY DEF RegistryIInv, RegistryTypeOK
    <3>2. publishing' = publishing \cup {Len(changes) + 1} /\ Len(changes') = Len(changes) + 1
          /\ Len(changes) \in Nat
      BY <1>4, <1>5
    <3>3. 1 .. Len(changes') = 1 .. Len(changes) \cup {Len(changes) + 1}
      BY <3>2
    <3> QED BY <3>1, <3>2, <3>3
  <2> QED BY <1>4, <1>5, <2>1, <2>2, <2>3, <2>4 DEF RegistryIInv, RegistryTypeOK
<1>7. /\ \A i \in 1 .. Len(changes) : EventOf(i)' = EventOf(i)
      /\ EventOf(n).about' = <<name, node>>
  BY <1>n, <1>2, <1>3, <1>5 DEF EventOf
<1>8. UnblurredPublished'
  <2>1. SUFFICES ASSUME NEW j \in 1 .. n, EventOf(j).about' \notin blurred'
                 PROVE  /\ changes'[j].service = <<EventOf(j).about[1]>>'
                        /\ j \in publishing' \/ \E k \in 1 .. Len(heard') : heard'[k] = j
    BY <1>5, <1>n DEF UnblurredPublished
  <2>2. CASE j = n
    <3>1. ns = DefaultNamespace
      BY <1>4, <1>7, <2>1, <2>2
    <3> QED BY <1>2, <1>3, <1>4, <1>5, <1>7, <1>n, <2>2, <3>1
  <2>3. CASE j \in 1 .. Len(changes)
    <3>1. EventOf(j).about \notin blurred
      BY <1>4, <1>7, <2>1, <2>3
    <3> QED BY <1>4, <1>5, <1>7, <2>3, <3>1 DEF RegistryIInv, UnblurredPublished
  <2> QED BY <1>5, <1>n, <2>2, <2>3
<1>9. UnblurredInOrder'
  <2>1. \A k \in 1 .. Len(heard) : heard[k] \in 1 .. Len(changes)
    BY DEF RegistryIInv, RegistryTypeOK
  <2>2. SUFFICES ASSUME NEW k \in 1 .. Len(heard), EventOf(heard[k]).about' \notin blurred'
                 PROVE  /\ \A j \in k + 1 .. Len(heard) :
                            EventOf(heard[j]).about' = EventOf(heard[k]).about' => heard[k] < heard[j]
                        /\ \A i \in publishing' :
                            EventOf(i).about' = EventOf(heard[k]).about' => heard[k] < i
    BY <1>4 DEF UnblurredInOrder
  <2>3. \A j \in 1 .. Len(heard) : EventOf(heard[j])' = EventOf(heard[j])
    BY <1>4, <1>7, <2>1
  <2>4. EventOf(heard[k]).about \notin blurred
    BY <1>4, <2>2, <2>3
  <2>5. /\ \A j \in k + 1 .. Len(heard) :
             EventOf(heard[j]).about = EventOf(heard[k]).about => heard[k] < heard[j]
        /\ \A i \in publishing : EventOf(i).about = EventOf(heard[k]).about => heard[k] < i
    BY <2>4 DEF RegistryIInv, UnblurredInOrder
  <2>6. \A j \in k + 1 .. Len(heard) : j \in 1 .. Len(heard)
    BY DEF RegistryIInv, RegistryTypeOK
  <2>7. \A i \in publishing : i \in 1 .. Len(changes)
    BY DEF RegistryIInv, RegistryTypeOK
  <2>8. heard[k] < Len(changes) + 1
    BY <1>5, <2>1
  <2> QED BY <1>4, <1>7, <2>3, <2>5, <2>6, <2>7, <2>8
<1>10. LastChangeDecides'
  <2>1. \A i \in 1 .. Len(changes) : Instance(i)' = Instance(i)
    BY <1>5 DEF Instance
  <2>2. Instance(n)' = <<full, node>> /\ changes'[n].action = action
    BY <1>3, <1>5, <1>n DEF Instance
  <2>3. SUFFICES ASSUME NEW i \in 1 .. n, EventOf(i).about' \notin blurred',
                        \A j \in i + 1 .. n : Instance(j)' # Instance(i)'
                 PROVE  changes'[i].action = "create" <=> Instance(i)' \in registered'
    BY <1>5, <1>n DEF LastChangeDecides
  <2>4. CASE i = n
    BY <1>1, <2>2, <2>4
  <2>5. CASE i \in 1 .. Len(changes)
    <3>1. Instance(i)' = Instance(i) /\ Instance(i) # <<full, node>>
      <4>1. n \in i + 1 .. n
        BY <1>n, <1>5, <2>5
      <4> QED BY <2>1, <2>2, <2>3, <2>5, <4>1
    <3>2. EventOf(i).about \notin blurred
      BY <1>4, <1>7, <2>3, <2>5
    <3>3. \A j \in i + 1 .. Len(changes) : Instance(j) # Instance(i)
      <4>1. SUFFICES ASSUME NEW j \in i + 1 .. Len(changes) PROVE Instance(j) # Instance(i)
        OBVIOUS
      <4>2. j \in i + 1 .. n /\ j \in 1 .. Len(changes)
        BY <1>n, <1>5, <2>5
      <4> QED BY <2>1, <2>3, <2>5, <4>2
    <3>4. changes[i].action = "create" <=> Instance(i) \in registered
      BY <2>5, <3>2, <3>3 DEF RegistryIInv, LastChangeDecides
    <3> QED BY <1>1, <1>5, <2>5, <3>1, <3>4
  <2> QED BY <1>n, <1>5, <2>4, <2>5
<1>11. RegistryStreamsFaithful'
  <2>1. \A s \in RegistryStreams : watch[s].next - 1 <= Len(changes) /\ watch[s].next \in Nat
                                 /\ watch[s].from \in Nat
    BY DEF RegistryIInv, RegistryTypeOK, StreamRecords
  <2>2. \A s \in RegistryStreams : Visible(watch[s])' = Visible(watch[s])
    BY <1>4, <1>5, <2>1 DEF Visible
  <2> QED BY <1>4, <2>2 DEF RegistryIInv, RegistryStreamsFaithful
<1> QED BY <1>6, <1>8, <1>9, <1>10, <1>11 DEF RegistryIInv

\* A registration that expires leaves nothing to be told of its node.
LEMMA ExpireInv ==
  ASSUME RegistryIInv, NEW instance \in registered, Expire(instance[1], instance[2])
  PROVE  RegistryIInv'
<1>1. /\ registered' = registered \ {instance}
      /\ blurred' = blurred \cup {<<withoutNamespace(instance[1]), instance[2]>>}
      /\ UNCHANGED <<changes, publishing, heard, watch, watched>>
  <2>1. instance = <<instance[1], instance[2]>>
    BY DEF RegistryIInv, RegistryTypeOK
  <2> QED BY <2>1 DEF Expire
<1>2. \A i : EventOf(i)' = EventOf(i) /\ Instance(i)' = Instance(i)
  BY <1>1 DEF EventOf, Instance
<1>3. UnblurredPublished' /\ UnblurredInOrder'
  BY <1>1, <1>2 DEF RegistryIInv, UnblurredPublished, UnblurredInOrder
<1>4. LastChangeDecides'
  <2>1. SUFFICES ASSUME NEW i \in 1 .. Len(changes), EventOf(i).about \notin blurred',
                        \A j \in i + 1 .. Len(changes) : Instance(j) # Instance(i)
                 PROVE  changes[i].action = "create" <=> Instance(i) \in registered'
    BY <1>1, <1>2 DEF LastChangeDecides
  <2>2. EventOf(i).about \notin blurred
    BY <1>1, <2>1
  <2>3. changes[i].action = "create" <=> Instance(i) \in registered
    BY <2>1, <2>2 DEF RegistryIInv, LastChangeDecides
  <2>4. Instance(i) # instance
    BY <1>1, <2>1 DEF Instance, EventOf
  <2> QED BY <1>1, <2>3, <2>4
<1>5. RegistryTypeOK' /\ RegistryStreamsFaithful'
  BY <1>1 DEF RegistryIInv, RegistryTypeOK, RegistryStreamsFaithful, Visible
<1> QED BY <1>3, <1>4, <1>5 DEF RegistryIInv

\* A goroutine that publishes late, or not at all, blurs its service.
LEMMA PublishInv ==
  ASSUME RegistryIInv, NEW i \in publishing, PublishEvent(i)
  PROVE  RegistryIInv'
<1>1. /\ publishing' = publishing \ {i} /\ i \in 1 .. Len(changes)
      /\ UNCHANGED <<registered, changes, watch, watched>>
  BY DEF PublishEvent, RegistryIInv, RegistryTypeOK
<1>3. \A j : EventOf(j)' = EventOf(j) /\ Instance(j)' = Instance(j)
  BY <1>1 DEF EventOf, Instance
<1>2. LastChangeDecides' /\ RegistryStreamsFaithful'
  <2>1. blurred \subseteq blurred'
    BY DEF PublishEvent
  <2> QED BY <1>1, <1>3, <2>1 DEF RegistryIInv, LastChangeDecides, RegistryStreamsFaithful, Visible
<1>4. CASE heard' = heard /\ blurred' = blurred \cup {EventOf(i).about}
  <2>1. RegistryTypeOK'
    BY <1>1, <1>4 DEF RegistryIInv, RegistryTypeOK
  <2>2. UnblurredPublished' /\ UnblurredInOrder'
    BY <1>1, <1>3, <1>4 DEF RegistryIInv, UnblurredPublished, UnblurredInOrder
  <2> QED BY <1>2, <2>1, <2>2 DEF RegistryIInv
<1>5. CASE /\ heard' = Append(heard, i)
           /\ blurred' = IF \E j \in publishing : j < i /\ EventOf(j).about = EventOf(i).about
                        THEN blurred \cup {EventOf(i).about} ELSE blurred
  <2>1. heard \in Seq(1 .. Len(changes))
    BY DEF RegistryIInv, RegistryTypeOK
  <2>2. /\ Len(heard') = Len(heard) + 1 /\ heard'[Len(heard) + 1] = i /\ Len(heard) \in Nat
        /\ \A k \in 1 .. Len(heard) : heard'[k] = heard[k]
        /\ heard' \in Seq(1 .. Len(changes))
    BY <1>1, <1>5, <2>1, AppendFacts
  <2>3. RegistryTypeOK'
    BY <1>1, <2>2 DEF RegistryIInv, RegistryTypeOK
  <2>4. UnblurredPublished'
    <3>1. SUFFICES ASSUME NEW j \in 1 .. Len(changes), EventOf(j).about \notin blurred'
                   PROVE  /\ changes[j].service = <<EventOf(j).about[1]>>
                          /\ j \in publishing' \/ \E k \in 1 .. Len(heard') : heard'[k] = j
      BY <1>1, <1>3 DEF UnblurredPublished
    <3>2. EventOf(j).about \notin blurred
      BY <1>5, <3>1
    <3>3. /\ changes[j].service = <<EventOf(j).about[1]>>
          /\ j \in publishing \/ \E k \in 1 .. Len(heard) : heard[k] = j
      BY <3>2 DEF RegistryIInv, UnblurredPublished
    <3>4. j \in publishing \ {i} \/ j = i \/ \E k \in 1 .. Len(heard) : heard[k] = j
      BY <3>3
    <3>5. publishing' = publishing \ {i}
      BY <1>1
    <3>6. ASSUME NEW k \in 1 .. Len(heard), heard[k] = j
          PROVE  \E m \in 1 .. Len(heard') : heard'[m] = j
      <4>1. k \in 1 .. Len(heard') /\ heard'[k] = j
        BY <2>2, <3>6
      <4> QED BY <4>1
    <3>7. Len(heard) + 1 \in 1 .. Len(heard') /\ heard'[Len(heard) + 1] = i
      BY <2>2
    <3> QED BY <3>3, <3>4, <3>5, <3>6, <3>7
  <2>5. UnblurredInOrder'
    <3>1. SUFFICES ASSUME NEW k \in 1 .. Len(heard'), EventOf(heard'[k]).about \notin blurred'
                   PROVE  /\ \A j \in k + 1 .. Len(heard') :
                              EventOf(heard'[j]).about = EventOf(heard'[k]).about => heard'[k] < heard'[j]
                          /\ \A j \in publishing' : 
                              EventOf(j).about = EventOf(heard'[k]).about => heard'[k] < j
      BY <1>3 DEF UnblurredInOrder
    <3>2. EventOf(heard'[k]).about \notin blurred
      BY <1>5, <3>1
    <3>3. publishing \subseteq Nat
      BY DEF RegistryIInv, RegistryTypeOK
    <3>4. CASE k = Len(heard) + 1
      BY <1>1, <1>5, <2>2, <3>1, <3>3, <3>4
    <3>5. CASE k \in 1 .. Len(heard)
      <4>1. heard'[k] = heard[k]
        BY <2>2, <3>5
      <4>2. /\ \A j \in k + 1 .. Len(heard) :
                 EventOf(heard[j]).about = EventOf(heard[k]).about => heard[k] < heard[j]
            /\ \A j \in publishing : EventOf(j).about = EventOf(heard[k]).about => heard[k] < j
        BY <3>2, <3>5, <4>1 DEF RegistryIInv, UnblurredInOrder
      <4>3. \A j \in k + 1 .. Len(heard') : j = Len(heard) + 1 \/ j \in k + 1 .. Len(heard)
        BY <2>2
      <4> QED BY <1>1, <2>2, <4>1, <4>2, <4>3
    <3> QED BY <2>2, <3>4, <3>5
  <2> QED BY <1>2, <2>3, <2>4, <2>5 DEF RegistryIInv
<1> QED BY <1>4, <1>5 DEF PublishEvent

\* What is to be shown of a step of one stream.
LEMMA StreamMoves ==
  ASSUME RegistryIInv, NEW s \in RegistryStreams, NEW r \in StreamRecords, NEW q \in Seq(Nat),
         UNCHANGED <<registered, changes, publishing, heard, blurred>>,
         watch' = [watch EXCEPT ![s] = r], watched' = [watched EXCEPT ![s] = q],
         r.state # "new", r.next \in r.from + 1 .. Len(changes) + 1,
         Increasing(q), ToSet(q) = Visible(r)
  PROVE  RegistryIInv'
<1>1. UnblurredPublished' /\ UnblurredInOrder' /\ LastChangeDecides'
  BY DEF RegistryIInv, UnblurredPublished, UnblurredInOrder, LastChangeDecides, EventOf, Instance
<1>2. /\ \A t \in RegistryStreams \ {s} : watch'[t] = watch[t] /\ watched'[t] = watched[t]
      /\ watch'[s] = r /\ watched'[s] = q
      /\ watch' \in [RegistryStreams -> StreamRecords]
      /\ watched' \in [RegistryStreams -> Seq(Nat)]
  BY DEF RegistryIInv, RegistryTypeOK
<1>3. RegistryTypeOK'
  BY <1>2 DEF RegistryIInv, RegistryTypeOK
<1>4. RegistryStreamsFaithful'
  <2>1. \A x : Visible(x)' = Visible(x)
    BY DEF Visible
  <2> QED BY <1>2, <2>1 DEF RegistryIInv, RegistryStreamsFaithful
<1> QED BY <1>1, <1>3, <1>4 DEF RegistryIInv

\* A change of the name that the stream described by r has asked for and may see.
Told(r, full) == full \in r.of /\ canReadService(r.ns, full)

\* A stream that opens, is sent a change, fails or is left by its client.
LEMMA StreamInv ==
  ASSUME RegistryIInv, NEW s \in RegistryStreams,
         \/ NextResult(s) \/ WatchFails(s) \/ WatcherLeaves(s)
         \/ \E ns \in Namespaces, of \in WatchService : OpenWatch(s, ns, of)
  PROVE  RegistryIInv'
<1>1. UNCHANGED <<registered, changes, publishing, heard, blurred>>
  BY DEF NextResult, WatchFails, WatcherLeaves, OpenWatch
<1>2. /\ watch[s] \in StreamRecords /\ watched[s] \in Seq(Nat) /\ Len(changes) \in Nat
      /\ watch[s].next \in watch[s].from + 1 .. Len(changes) + 1
      /\ watch[s].state = "new" => watched[s] = <<>>
      /\ watched = [watched EXCEPT ![s] = watched[s]]
  BY DEF RegistryIInv, RegistryTypeOK
<1>3. Increasing(watched[s]) /\ ToSet(watched[s]) = Visible(watch[s])
  BY DEF RegistryIInv, RegistryStreamsFaithful
<1>4. watch[s].next \in Nat /\ watch[s].from \in Nat
  BY <1>2 DEF StreamRecords
<1>5. CASE NextResult(s)
  <2>1. PICK i \in Nat : i = watch[s].next /\ i \in 1 .. Len(changes)
    BY <1>2, <1>4, <1>5 DEF NextResult
  <2> DEFINE r == [watch[s] EXCEPT !.next = i + 1]
             e == [watch[s] EXCEPT !.state = "ended"]
  <2>2. /\ r \in StreamRecords /\ r.next = i + 1 /\ r.state # "new"
        /\ r.from = watch[s].from /\ r.ns = watch[s].ns /\ r.of = watch[s].of
    <3>1. watch[s].state = "open"
      BY <1>5 DEF NextResult
    <3>2. i + 1 \in Nat
      BY <2>1
    <3> QED BY ONLY <1>2, <3>1, <3>2 DEF StreamRecords
  <2>3. /\ e \in StreamRecords /\ e.next = watch[s].next /\ e.state # "new"
        /\ e.from = watch[s].from /\ e.ns = watch[s].ns /\ e.of = watch[s].of
    BY <1>2 DEF StreamRecords
  <2>4. \/ /\ ~Told(watch[s], changes[i].service)
           /\ watch' = [watch EXCEPT ![s] = r] /\ watched' = watched
        \/ /\ Told(watch[s], changes[i].service)
           /\ watch' = [watch EXCEPT ![s] = r] /\ watched' = [watched EXCEPT ![s] = Append(@, i)]
        \/ /\ watch' = [watch EXCEPT ![s] = e] /\ watched' = watched
    BY <1>5, <2>1 DEF NextResult, Told
  <2> HIDE DEF r, e
  <2>5. /\ i + 1 \in r.from + 1 .. Len(changes) + 1
        /\ r.from + 1 .. (i + 1) - 1 = (watch[s].from + 1 .. watch[s].next - 1) \cup {i}
    BY <1>2, <1>4, <2>1, <2>2
  <2>6. CASE /\ ~Told(watch[s], changes[i].service)
             /\ watch' = [watch EXCEPT ![s] = r] /\ watched' = watched
    <3>1. Visible(r) = Visible(watch[s])
      BY <2>2, <2>5, <2>6 DEF Visible, Told, canReadService
    <3>2. watched' = [watched EXCEPT ![s] = watched[s]] /\ watch' = [watch EXCEPT ![s] = r]
      BY <1>2, <2>6
    <3>3. r.next \in r.from + 1 .. Len(changes) + 1
      BY <2>2, <2>5
    <3>4. watched[s] \in Seq(Nat)
      BY <1>2
    <3> QED BY ONLY RegistryIInv, s \in RegistryStreams, <1>1, <1>3, <2>2, <3>1, <3>2, <3>3, <3>4,
                    StreamMoves
  <2>7. CASE /\ Told(watch[s], changes[i].service)
             /\ watch' = [watch EXCEPT ![s] = r] /\ watched' = [watched EXCEPT ![s] = Append(@, i)]
    <3> DEFINE q == Append(watched[s], i)
    <3>1. Visible(r) = Visible(watch[s]) \cup {i}
      BY <2>2, <2>5, <2>7 DEF Visible, Told, canReadService
    <3>2. \A x \in ToSet(watched[s]) : x < i
      <4>1. \A x \in watch[s].from + 1 .. watch[s].next - 1 : x < i
        BY <1>4, <2>1
      <4> QED BY <1>3, <4>1 DEF Visible
    <3>3. watched[s] \in Seq(Nat) /\ i \in Nat /\ Increasing(watched[s])
      BY <1>2, <1>3
    <3>4. Increasing(q) /\ q \in Seq(Nat)
      BY ONLY <3>2, <3>3, AppendIncreasing, AppendFacts
    <3>5. ToSet(q) = ToSet(watched[s]) \cup {i}
      BY ONLY <3>3, AppendSet
    <3>6. watched' = [watched EXCEPT ![s] = q]
      BY <2>7
    <3>7. ToSet(q) = Visible(r)
      BY <1>3, <3>1, <3>5
    <3> HIDE DEF q
    <3> QED BY <1>1, <2>2, <2>5, <2>7, <3>4, <3>6, <3>7, StreamMoves
  <2>8. CASE watch' = [watch EXCEPT ![s] = e] /\ watched' = watched
    <3>1. Visible(e) = Visible(watch[s])
      BY <2>3 DEF Visible
    <3> QED BY <1>1, <1>2, <1>3, <2>3, <2>8, <3>1, StreamMoves
  <2> QED BY <2>4, <2>6, <2>7, <2>8
<1>6. CASE WatchFails(s) \/ WatcherLeaves(s)
  <2>1. PICK r \in StreamRecords :
          /\ watch' = [watch EXCEPT ![s] = r] /\ watched' = watched
          /\ r.next = watch[s].next /\ r.state # "new"
          /\ r.from = watch[s].from /\ r.ns = watch[s].ns /\ r.of = watch[s].of
    <3>1. CASE WatchFails(s)
      <4> DEFINE r == [watch[s] EXCEPT !.state = "failed"]
      <4>1. /\ r \in StreamRecords /\ r.next = watch[s].next /\ r.state # "new"
            /\ r.from = watch[s].from /\ r.ns = watch[s].ns /\ r.of = watch[s].of
        BY <1>2 DEF StreamRecords
      <4>2. watch' = [watch EXCEPT ![s] = r] /\ watched' = watched
        BY <3>1 DEF WatchFails
      <4> HIDE DEF r
      <4> QED BY <4>1, <4>2
    <3>2. CASE WatcherLeaves(s)
      <4> DEFINE r == [watch[s] EXCEPT !.client = FALSE]
      <4>1. /\ r \in StreamRecords /\ r.next = watch[s].next /\ r.state # "new"
            /\ r.from = watch[s].from /\ r.ns = watch[s].ns /\ r.of = watch[s].of
        BY <1>2, <3>2 DEF StreamRecords, WatcherLeaves
      <4>2. watch' = [watch EXCEPT ![s] = r] /\ watched' = watched
        BY <3>2 DEF WatcherLeaves
      <4> HIDE DEF r
      <4> QED BY <4>1, <4>2
    <3> QED BY <1>6, <3>1, <3>2
  <2>2. Visible(r) = Visible(watch[s])
    BY <2>1 DEF Visible
  <2> QED BY <1>1, <1>2, <1>3, <2>1, <2>2, StreamMoves
<1>7. CASE \E ns \in Namespaces, of \in WatchService : OpenWatch(s, ns, of)
  <2>1. PICK ns \in Namespaces, of \in WatchService : OpenWatch(s, ns, of)
    BY <1>7
  <2>2. PICK r \in StreamRecords :
          /\ watch' = [watch EXCEPT ![s] = r] /\ watched' = watched /\ r.state # "new"
          /\ r.from = Len(changes) /\ r.next = Len(changes) + 1
    <3> DEFINE r == [state |-> "open", ns |-> ns, of |-> of, from |-> Len(changes),
                     next |-> Len(changes) + 1, client |-> TRUE]
    <3>1. /\ r \in StreamRecords /\ r.state # "new"
          /\ r.from = Len(changes) /\ r.next = Len(changes) + 1
      BY <1>2 DEF StreamRecords, WatchService
    <3>2. watch' = [watch EXCEPT ![s] = r] /\ watched' = watched
      BY <2>1 DEF OpenWatch
    <3> HIDE DEF r
    <3> QED BY <3>1, <3>2
  <2>3. watched[s] = <<>> /\ ToSet(watched[s]) = {}
    BY <1>2, <2>1 DEF OpenWatch, ToSet
  <2>4. Visible(r) = {} /\ r.next \in r.from + 1 .. Len(changes) + 1
    BY <1>2, <2>2 DEF Visible
  <2> QED BY <1>1, <1>2, <1>3, <2>2, <2>3, <2>4, StreamMoves
<1> QED BY <1>5, <1>6, <1>7

\* Every step of the registry keeps the strengthened invariant.
LEMMA RegistryStepInv == RegistryIInv /\ RegistryNext => RegistryIInv'
  BY ChangeInv, ExpireInv, PublishInv, StreamInv DEF RegistryNext

LEMMA RegistryStutter == RegistryIInv /\ UNCHANGED registryVars => RegistryIInv'
  BY DEF registryVars, RegistryIInv, RegistryTypeOK, UnblurredPublished, UnblurredInOrder,
         LastChangeDecides, RegistryStreamsFaithful, EventOf, Instance, Visible

\* Every change about a service is heard, in order, unless it is blurred: so the
\* last that is heard is the last that was made.
LEMMA RegistryIInvTells == RegistryIInv => EventsTellTheRegistry
<1> SUFFICES ASSUME RegistryIInv, NEW name \in ServiceNames, NEW node \in RegistryNodes,
                    NEW k \in 1 .. Len(heard), <<name, node>> \notin blurred,
                    EventOf(heard[k]).about = <<name, node>>,
                    \A j \in k + 1 .. Len(heard) : EventOf(heard[j]).about # <<name, node>>,
                    \A i \in publishing : EventOf(i).about # <<name, node>>
             PROVE  EventOf(heard[k]).type = "Create" <=> <<<<name>>, node>> \in registered
  BY DEF EventsTellTheRegistry
<1>1. heard[k] \in 1 .. Len(changes) /\ heard[k] \in Nat
  BY DEF RegistryIInv, RegistryTypeOK
<1>2. changes[heard[k]].service = <<name>> /\ Instance(heard[k]) = <<<<name>>, node>>
  BY <1>1 DEF RegistryIInv, UnblurredPublished, EventOf, Instance
<1>3. \A j \in heard[k] + 1 .. Len(changes) : Instance(j) # Instance(heard[k])
  <2>1. SUFFICES ASSUME NEW j \in heard[k] + 1 .. Len(changes),
                        changes[j].service = <<name>>, changes[j].node = node
                 PROVE  FALSE
    BY <1>2 DEF Instance
  <2>2. EventOf(j).about = <<name, node>> /\ j \in 1 .. Len(changes) /\ heard[k] < j
    BY <1>1, <2>1 DEF EventOf, withoutNamespace, Last
  <2>3. PICK l \in 1 .. Len(heard) : heard[l] = j
    BY <2>2 DEF RegistryIInv, UnblurredPublished
  <2>4. l < k
    BY <1>1, <2>2, <2>3
  <2>5. heard[l] < heard[k]
    <3>1. EventOf(heard[l]).about = <<name, node>> /\ EventOf(heard[k]).about = EventOf(heard[l]).about
      BY <2>2, <2>3
    <3>2. k \in l + 1 .. Len(heard)
      BY ONLY <2>4, l \in 1 .. Len(heard), k \in 1 .. Len(heard)
    <3>3. UnblurredInOrder
      BY DEF RegistryIInv
    <3>4. EventOf(heard[l]).about \notin blurred
      BY <3>1
    <3> QED BY ONLY <3>1, <3>2, <3>3, <3>4, l \in 1 .. Len(heard) DEF UnblurredInOrder
  <2> QED BY <1>1, <2>2, <2>3, <2>5
<1>4. changes[heard[k]].action = "create" <=> Instance(heard[k]) \in registered
  BY <1>1, <1>3 DEF RegistryIInv, LastChangeDecides
<1>5. changes[heard[k]].action \in {"create", "delete"}
  <2>1. changes \in Seq(ChangeRecords)
    BY DEF RegistryIInv, RegistryTypeOK
  <2>2. changes[heard[k]] \in ChangeRecords
    BY <1>1, <2>1, SeqElement
  <2> QED BY <2>2 DEF ChangeRecords
<1> QED BY <1>2, <1>4, <1>5 DEF EventOf, ActionToEventType

-----------------------------------------------------------------------------
(****************************************************************************)
(* The runtime: readers read their own namespace, nothing is told that was *)
(* not accepted, and a log stream that is told to stop has stopped.        *)
(****************************************************************************)

\* A prefix, element by element.
LEMMA PrefixElements ==
  ASSUME NEW S, NEW s \in Seq(S), NEW t \in Seq(S)
  PROVE  IsPrefix(s, t) <=> Len(s) <= Len(t) /\ \A i \in 1 .. Len(s) : s[i] = t[i]
  BY DEF IsPrefix

\* Two sequences joined, element by element.
LEMMA ConcatElements ==
  ASSUME NEW S, NEW s \in Seq(S), NEW t \in Seq(S)
  PROVE  /\ s \o t \in Seq(S) /\ Len(s \o t) = Len(s) + Len(t)
         /\ \A i \in 1 .. Len(s) : (s \o t)[i] = s[i]
         /\ \A i \in 1 .. Len(t) : (s \o t)[Len(s) + i] = t[i]
  OBVIOUS

LEMMA ConcatAssociates ==
  ASSUME NEW S, NEW r \in Seq(S), NEW s \in Seq(S), NEW t \in Seq(S)
  PROVE  (r \o s) \o t = r \o (s \o t)
  OBVIOUS

LEMMA ConcatOf ==
  ASSUME NEW S, NEW s \in Seq(S), NEW t \in Seq(S), NEW z, z = s \o t
  PROVE  /\ z \in Seq(S) /\ Len(z) = Len(s) + Len(t)
         /\ \A i \in 1 .. Len(s) : z[i] = s[i]
         /\ \A i \in 1 .. Len(t) : z[Len(s) + i] = t[i]
  BY ConcatElements

LEMMA KeyAssociates ==
  ASSUME NEW S, ":" \in S, NEW s,
         s.ns \in Seq(S), s.name \in Seq(S), s.version \in Seq(S)
  PROVE  RunKey(s) = s.ns \o <<":">> \o (s.name \o <<":">> \o s.version)
<1>1. <<":">> \in Seq(S)
  OBVIOUS
<1>2. PICK c : c = <<":">>
  OBVIOUS
<1>3. c \in Seq(S)
  BY <1>1, <1>2
<1>4. PICK m, x, y : m = s.ns /\ x = s.name /\ y = s.version
  OBVIOUS
<1>5. m \in Seq(S) /\ x \in Seq(S) /\ y \in Seq(S)
  BY <1>4
<1>6. m \o c \o x \o c \o y = m \o c \o (x \o c \o y)
  <2>1. PICK p, q : p = m \o c /\ q = x \o c
    OBVIOUS
  <2>2. p \in Seq(S) /\ q \in Seq(S)
    BY ONLY <1>3, <1>5, <2>1, ConcatElements
  <2>3. (p \o x) \o c = p \o (x \o c)
    BY ONLY <1>3, <1>5, <2>2, ConcatAssociates, SMTT(30)
  <2>4. (p \o q) \o y = p \o (q \o y)
    BY ONLY <1>5, <2>2, ConcatAssociates, SMTT(30)
  <2> QED BY ONLY <2>1, <2>3, <2>4
<1> QED BY <1>2, <1>4, <1>6 DEF RunKey

LEMMA EmptyIsPrefix ==
  ASSUME NEW S, NEW x \in Seq(S)
  PROVE  IsPrefix(<<>>, x)
<1>0. <<>> \in Seq(S)
  OBVIOUS
<1>1. PICK e : e = <<>> /\ e \in Seq(S)
  BY <1>0
<1>2. Len(e) <= Len(x) /\ \A i \in 1 .. Len(e) : e[i] = x[i]
  BY <1>1
<1>4. x \in Seq(S)
  OBVIOUS
<1>3. IsPrefix(e, x)
  BY ONLY <1>1, <1>2, <1>4, PrefixElements
<1> QED BY <1>1, <1>3

\* What comes before the first separator is the same on both sides of a prefix:
\* this is what keeps apart the keys of services (services.go).
LEMMA PrefixSplits ==
  ASSUME NEW S, ":" \in S, NEW a \in Seq(S), NEW b \in Seq(S), NEW u \in Seq(S), NEW v \in Seq(S),
         \A i \in 1 .. Len(a) : a[i] # ":", \A i \in 1 .. Len(b) : b[i] # ":"
  PROVE  IsPrefix(a \o <<":">> \o u, b \o <<":">> \o v) <=> a = b /\ IsPrefix(u, v)
<1> DEFINE x == a \o <<":">> \o u
           y == b \o <<":">> \o v
<1>1. ASSUME NEW c \in Seq(S), NEW w \in Seq(S), NEW z, z = c \o <<":">> \o w
      PROVE  /\ z \in Seq(S) /\ Len(z) = Len(c) + 1 + Len(w)
             /\ \A i \in 1 .. Len(c) : z[i] = c[i]
             /\ z[Len(c) + 1] = ":"
             /\ \A i \in 1 .. Len(w) : z[Len(c) + 1 + i] = w[i]
  <2>1. <<":">> \in Seq(S) /\ Len(<<":">>) = 1 /\ <<":">>[1] = ":"
    OBVIOUS
  <2>2. PICK m : /\ m = c \o <<":">>
                 /\ m \in Seq(S) /\ Len(m) = Len(c) + 1 /\ m[Len(c) + 1] = ":"
                 /\ \A i \in 1 .. Len(c) : m[i] = c[i]
    <3>1. c \in Seq(S)
      OBVIOUS
    <3>2. PICK m : m = c \o <<":">>
      OBVIOUS
    <3>3. /\ m \in Seq(S) /\ Len(m) = Len(c) + 1
          /\ \A i \in 1 .. Len(c) : m[i] = c[i]
          /\ \A i \in 1 .. Len(<<":">>) : m[Len(c) + i] = <<":">>[i]
      BY ONLY <2>1, <3>1, <3>2, ConcatOf
    <3>4. m[Len(c) + 1] = ":"
      BY ONLY <2>1, <3>3
    <3> QED BY <3>2, <3>3, <3>4
  <2>3. z = m \o w /\ w \in Seq(S)
    BY <1>1, <2>2
  <2>4. /\ z \in Seq(S) /\ Len(z) = Len(m) + Len(w)
        /\ \A i \in 1 .. Len(m) : z[i] = m[i]
        /\ \A i \in 1 .. Len(w) : z[Len(m) + i] = w[i]
    BY ONLY <2>2, <2>3, ConcatOf
  <2>5. Len(c) \in Nat
    OBVIOUS
  <2>6. Len(z) = Len(c) + 1 + Len(w) /\ z[Len(c) + 1] = ":"
    <3>1. Len(c) + 1 \in 1 .. Len(m)
      BY <2>2, <2>5
    <3> QED BY <2>2, <2>4, <3>1
  <2>7. \A i \in 1 .. Len(c) : z[i] = c[i]
    <3>1. \A i \in 1 .. Len(c) : i \in 1 .. Len(m)
      BY <2>2, <2>5
    <3> QED BY <2>2, <2>4, <3>1
  <2>8. \A i \in 1 .. Len(w) : z[Len(c) + 1 + i] = w[i]
    BY <2>2, <2>4
  <2> QED BY <2>4, <2>6, <2>7, <2>8
<1>2. /\ x \in Seq(S) /\ Len(x) = Len(a) + 1 + Len(u)
      /\ \A i \in 1 .. Len(a) : x[i] = a[i]
      /\ x[Len(a) + 1] = ":"
      /\ \A i \in 1 .. Len(u) : x[Len(a) + 1 + i] = u[i]
  BY <1>1
<1>3. /\ y \in Seq(S) /\ Len(y) = Len(b) + 1 + Len(v)
      /\ \A i \in 1 .. Len(b) : y[i] = b[i]
      /\ y[Len(b) + 1] = ":"
      /\ \A i \in 1 .. Len(v) : y[Len(b) + 1 + i] = v[i]
  BY <1>1
<1> HIDE DEF x, y
<1>4. Len(a) \in Nat /\ Len(b) \in Nat /\ Len(u) \in Nat /\ Len(v) \in Nat
  OBVIOUS
<1>5. IsPrefix(x, y) <=> Len(x) <= Len(y) /\ \A i \in 1 .. Len(x) : x[i] = y[i]
  <2>1. x \in Seq(S) /\ y \in Seq(S)
    BY <1>2, <1>3
  <2> QED BY ONLY <2>1, PrefixElements
<1>6. IsPrefix(u, v) <=> Len(u) <= Len(v) /\ \A i \in 1 .. Len(u) : u[i] = v[i]
  BY PrefixElements
<1>7. ASSUME IsPrefix(x, y) PROVE a = b /\ IsPrefix(u, v)
  <2>1. Len(x) <= Len(y) /\ \A i \in 1 .. Len(x) : x[i] = y[i]
    BY <1>5, <1>7
  <2>2. Len(a) = Len(b)
    <3>1. CASE Len(a) < Len(b)
      <4>1. Len(a) + 1 \in 1 .. Len(b) /\ Len(a) + 1 \in 1 .. Len(x)
        BY <1>2, <1>4, <3>1
      <4>2. y[Len(a) + 1] = b[Len(a) + 1] /\ x[Len(a) + 1] = y[Len(a) + 1]
        BY <1>3, <2>1, <4>1
      <4> QED BY <1>2, <4>1, <4>2
    <3>2. CASE Len(b) < Len(a)
      <4>1. Len(b) + 1 \in 1 .. Len(a) /\ Len(b) + 1 \in 1 .. Len(x)
        BY <1>2, <1>4, <3>2
      <4>2. x[Len(b) + 1] = a[Len(b) + 1] /\ x[Len(b) + 1] = y[Len(b) + 1]
        BY <1>2, <2>1, <4>1
      <4> QED BY <1>3, <4>1, <4>2
    <3> QED BY <1>4, <3>1, <3>2
  <2>3. \A i \in 1 .. Len(a) : a[i] = b[i]
    <3>1. \A i \in 1 .. Len(a) : i \in 1 .. Len(x)
      BY <1>2, <1>4
    <3> QED BY <1>2, <1>3, <2>1, <2>2, <3>1
  <2>4. a = b
    BY <2>2, <2>3
  <2>5. Len(u) <= Len(v)
    BY <1>2, <1>3, <1>4, <2>1, <2>2
  <2>6. \A i \in 1 .. Len(u) : u[i] = v[i]
    <3>1. SUFFICES ASSUME NEW i \in 1 .. Len(u) PROVE u[i] = v[i]
      OBVIOUS
    <3>2. Len(a) + 1 + i \in 1 .. Len(x) /\ i \in 1 .. Len(v)
      BY <1>2, <1>4, <2>5
    <3> QED BY <1>2, <1>3, <2>1, <2>2, <3>2
  <2> QED BY <1>6, <2>4, <2>5, <2>6
<1>8. ASSUME a = b, IsPrefix(u, v) PROVE IsPrefix(x, y)
  <2>1. Len(x) <= Len(y)
    BY <1>2, <1>3, <1>4, <1>6, <1>8
  <2>2. ASSUME NEW i \in 1 .. Len(x) PROVE x[i] = y[i]
    <3>1. CASE i \in 1 .. Len(a)
      BY <1>2, <1>3, <1>8, <3>1
    <3>2. CASE i = Len(a) + 1
      BY <1>2, <1>3, <1>8, <3>2
    <3>3. CASE i > Len(a) + 1
      <4>1. PICK k \in 1 .. Len(u) : i = Len(a) + 1 + k
        <5>1. i - (Len(a) + 1) \in 1 .. Len(u) /\ i = Len(a) + 1 + (i - (Len(a) + 1))
          BY <1>2, <1>4, <3>3
        <5> QED BY <5>1
      <4>2. k \in 1 .. Len(v) /\ u[k] = v[k]
        BY <1>4, <1>6, <1>8
      <4> QED BY <1>2, <1>3, <1>8, <4>1, <4>2
    <3> QED BY <1>2, <1>4, <3>1, <3>2, <3>3
  <2> QED BY <1>5, <2>1, <2>2
<1> QED BY <1>7, <1>8 DEF x, y

\* A caller who reads a name is given the services whose key begins with the
\* caller's namespace and the name: those of the namespace and the name.
LEMMA ReadsOwn == RuntimeTypeOK => ReadsOwnServices
<1>0. PICK S : /\ ":" \in S
               /\ RuntimeNamespaces \subseteq Seq(S) /\ RuntimeDefault \in Seq(S)
               /\ RunNames \subseteq Seq(S)
               /\ RunVersions \subseteq Seq(S) /\ Latest \in Seq(S)
  <2>1. ":" \in RunParts
    BY DEF RunParts
  <2>2. RunWords \subseteq Seq(RunParts)
    BY SeparatorAssumption
  <2> QED BY ONLY <2>1, <2>2 DEF RunWords
<1>n. /\ <<>> \notin RunNames
      /\ \A n \in RuntimeNamespaces \cup {RuntimeDefault} \cup RunNames :
           \A i \in 1 .. Len(n) : n[i] # ":"
  BY SeparatorAssumption
<1>e. <<>> \in Seq(S)
  OBVIOUS
<1> SUFFICES ASSUME RuntimeTypeOK, NEW ns \in RuntimeNamespaces, NEW name \in RunNames,
                    NEW v \in RunVersions \cup {<<>>}
             PROVE  readServices(ns, name, v) =
                      {s \in running : s.ns = RunsIn(ns) /\ s.name = name /\ IsPrefix(v, s.version)}
  <2>1. ASSUME RuntimeTypeOK, NEW s \in running PROVE IsPrefix(<<>>, s.version)
    <3>1. s.version \in Seq(S)
      BY <1>0, <1>e, <2>1 DEF RuntimeTypeOK, Runs, VersionOf
    <3>2. PICK x \in Seq(S) : x = s.version
      BY <3>1
    <3>3. IsPrefix(<<>>, x)
      BY EmptyIsPrefix
    <3> QED BY <3>2, <3>3
  <2> QED BY <2>1 DEF ReadsOwnServices
<1>1. readServices(ns, name, v) =
        {s \in running : IsPrefix(RunsIn(ns) \o <<":">> \o (name \o <<":">> \o v), RunKey(s))}
  BY <1>n DEF readServices
<1>2. ASSUME NEW s \in running
      PROVE  IsPrefix(RunsIn(ns) \o <<":">> \o (name \o <<":">> \o v), RunKey(s))
               <=> s.ns = RunsIn(ns) /\ s.name = name /\ IsPrefix(v, s.version)
  <2>1. /\ s.name \in RunNames
        /\ s.ns \in RuntimeNamespaces \cup {RuntimeDefault}
        /\ s.version \in RunVersions \cup {Latest}
    BY DEF RuntimeTypeOK, Runs, VersionOf, RunsIn
  <2>2. PICK n, m, x, y, z : n = RunsIn(ns) /\ m = s.ns /\ x = s.name /\ y = s.version /\ z = v
    OBVIOUS
  <2>3. n \in Seq(S) /\ m \in Seq(S) /\ x \in Seq(S) /\ y \in Seq(S) /\ v \in Seq(S)
        /\ name \in Seq(S)
    BY <1>0, <1>e, <2>1, <2>2 DEF RunsIn
  <2>4. /\ \A i \in 1 .. Len(name) : name[i] # ":"
        /\ \A i \in 1 .. Len(x) : x[i] # ":"
        /\ \A i \in 1 .. Len(m) : m[i] # ":"
        /\ \A i \in 1 .. Len(n) : n[i] # ":"
    <3>1. RunsIn(ns) \in RuntimeNamespaces \cup {RuntimeDefault}
      BY DEF RunsIn
    <3> QED BY <1>n, <2>1, <2>2, <3>1
  <2> DEFINE u == name \o <<":">> \o v
             w == x \o <<":">> \o y
  <2>5. <<":">> \in Seq(S)
    BY <1>0
  <2>6. u \in Seq(S) /\ w \in Seq(S)
    BY ONLY <2>3, <2>5, ConcatElements
  <2>7. IsPrefix(u, w) <=> name = x /\ IsPrefix(v, y)
    BY ONLY <1>0, <2>3, <2>4, PrefixSplits
  <2>8. RunKey(s) = m \o <<":">> \o w
    <3>2. s.ns \in Seq(S) /\ s.name \in Seq(S) /\ s.version \in Seq(S)
      BY <2>2, <2>3
    <3>3. RunKey(s) = s.ns \o <<":">> \o (s.name \o <<":">> \o s.version)
      BY <1>0, <3>2, KeyAssociates
    <3> QED BY <2>2, <3>3
  <2> HIDE DEF u, w
  <2>9. IsPrefix(n \o <<":">> \o u, m \o <<":">> \o w) <=> n = m /\ IsPrefix(u, w)
    BY ONLY <1>0, <2>3, <2>4, <2>6, PrefixSplits
  <2> QED BY <2>2, <2>7, <2>8, <2>9 DEF u
<1> QED BY <1>1, <1>2

\* The runtime's part of the invariant.
RuntimeIInv == RuntimeTypeOK /\ ToldWasAccepted /\ LogsStopped

LEMMA RuntimeInitInv == RuntimeInit => RuntimeIInv
<1> DEFINE new == [state |-> "new", client |-> TRUE, following |-> FALSE, records |-> 0,
                   sent |-> 0, closed |-> FALSE]
<1>1. new \in LogStates /\ new.sent <= new.records /\ ~new.following
  BY RuntimeHandlerAssumption DEF LogStates
<1> SUFFICES ASSUME RuntimeInit PROVE RuntimeIInv
  OBVIOUS
<1>2. logStream = [s \in LogStreams |-> new]
  BY DEF RuntimeInit
<1> HIDE DEF new
<1>3. logStream \in [LogStreams -> LogStates]
  BY <1>1, <1>2
<1>4. \A s \in LogStreams : logStream[s].sent <= logStream[s].records /\ ~logStream[s].following
  BY <1>1, <1>2
<1> QED BY <1>3, <1>4, RuntimeHandlerAssumption
        DEF RuntimeInit, RuntimeIInv, RuntimeTypeOK, ToldWasAccepted, LogsStopped

LEMMA CallRuntimeInv ==
  ASSUME RuntimeIInv, NEW op \in {"create", "update", "delete"}, NEW ns \in RuntimeNamespaces,
         NEW name \in RunNames, NEW version \in RunVersions, CallRuntime(op, ns, name, version)
  PROVE  RuntimeIInv'
<1> DEFINE srv == [ns |-> RunsIn(ns), name |-> name, version |-> VersionOf(version)]
<1>1. srv \in Runs
  BY DEF Runs
<1>2. Done(op, srv) \subseteq Runs
  BY <1>1 DEF Done, RuntimeIInv, RuntimeTypeOK
<1> HIDE DEF srv
<1>3. /\ runtimeCalls' \in 0 .. MaxRuntimeCalls /\ runtimeCalls \in 0 .. MaxRuntimeCalls
      /\ running' \subseteq Runs /\ logStream' = logStream
      /\ accepted' \subseteq accepted \cup {runtimeCalls} /\ accepted \subseteq accepted'
      /\ runtimeTopic' \subseteq accepted'
  <2>0. /\ running \subseteq Runs /\ runtimeCalls \in 0 .. MaxRuntimeCalls
        /\ runtimeTopic \subseteq accepted
    BY DEF RuntimeIInv, RuntimeTypeOK, ToldWasAccepted
  <2>1. /\ runtimeCalls < MaxRuntimeCalls /\ runtimeCalls' = runtimeCalls + 1
        /\ logStream' = logStream
        /\ \/ /\ running' = Done(op, srv)
              /\ accepted' = accepted \cup {runtimeCalls}
              /\ runtimeTopic' \in {runtimeTopic, runtimeTopic \cup {runtimeCalls}}
           \/ /\ running' \in {running, Done(op, srv)}
              /\ accepted' = accepted /\ runtimeTopic' = runtimeTopic
    BY DEF CallRuntime, srv
  <2>2. runtimeCalls' \in 0 .. MaxRuntimeCalls
    BY <2>0, <2>1, RuntimeHandlerAssumption
  <2>3. running' \subseteq Runs
    BY <1>2, <2>0, <2>1
  <2> QED BY <2>0, <2>1, <2>2, <2>3
<1> QED BY <1>3 DEF RuntimeIInv, RuntimeTypeOK, ToldWasAccepted, LogsStopped

LEMMA RuntimeStepInv == RuntimeIInv /\ RuntimeNext => RuntimeIInv'
<1> SUFFICES ASSUME RuntimeIInv, RuntimeNext PROVE RuntimeIInv'
  OBVIOUS
<1>1. CASE \E op \in {"create", "update", "delete"}, ns \in RuntimeNamespaces,
              name \in RunNames, version \in RunVersions : CallRuntime(op, ns, name, version)
  BY <1>1, CallRuntimeInv
<1>2. ASSUME NEW s \in LogStreams, OpenLogs(s) \/ LogGrows(s) \/ LogsProceeds(s) \/ LogClientLeaves(s)
      PROVE  RuntimeIInv'
  <2>0. logStream \in [LogStreams -> LogStates]
    BY DEF RuntimeIInv, RuntimeTypeOK
  <2>1. /\ logStream[s] \in LogStates /\ logStream[s].sent <= logStream[s].records
        /\ logStream[s].following => logStream[s].state = "open"
    BY DEF RuntimeIInv, RuntimeTypeOK, LogsStopped
  <2>2. PICK l : l = logStream'[s]
    OBVIOUS
  <2>3. /\ logStream' = [logStream EXCEPT ![s] = l]
        /\ l \in LogStates /\ l.sent <= l.records
        /\ l.following => l.state = "open"
    <3>1. CASE OpenLogs(s)
      BY <2>1, <2>2, <2>0, <3>1 DEF OpenLogs, LogStates
    <3>2. CASE LogGrows(s)
      <4>1. \/ /\ logStream[s].records < MaxLogRecords
               /\ logStream' = [logStream EXCEPT ![s].records = logStream[s].records + 1]
            \/ logStream' = [logStream EXCEPT ![s].closed = TRUE]
        BY <3>2 DEF LogGrows
      <4>2. logStream[s].records \in 0 .. MaxLogRecords
        BY <2>1 DEF LogStates
      <4>3. CASE logStream' = [logStream EXCEPT ![s].closed = TRUE]
        BY <2>0, <2>1, <2>2, <4>3 DEF LogStates
      <4>4. ASSUME logStream[s].records < MaxLogRecords,
                   logStream' = [logStream EXCEPT ![s].records = logStream[s].records + 1]
            PROVE  /\ logStream' = [logStream EXCEPT ![s] = l]
                   /\ l \in LogStates /\ l.sent <= l.records
                   /\ l.following => l.state = "open"
        <5>1. PICK r \in 0 .. MaxLogRecords : r = logStream[s].records + 1
          BY <4>2, <4>4, RuntimeHandlerAssumption
        <5>2. l = [logStream[s] EXCEPT !.records = r] /\ logStream' = [logStream EXCEPT ![s] = l]
          BY <2>0, <2>2, <4>4, <5>1
        <5>3. l \in LogStates /\ l.records = r /\ l.sent = logStream[s].sent
              /\ l.following = logStream[s].following /\ l.state = logStream[s].state
          BY <2>1, <5>2 DEF LogStates
        <5>4. l.sent <= l.records
          BY <2>1, <4>2, <5>1, <5>3 DEF LogStates
        <5> QED BY <2>1, <5>2, <5>3, <5>4
      <4> QED BY <4>1, <4>3, <4>4
    <3>3. CASE LogsProceeds(s)
      BY <2>1, <2>2, <2>0, <3>3, RuntimeHandlerAssumption DEF LogsProceeds, LogStates
    <3>4. CASE LogClientLeaves(s)
      BY <2>1, <2>2, <2>0, <3>4 DEF LogClientLeaves, LogStates
    <3> QED BY <1>2, <3>1, <3>2, <3>3, <3>4
  <2>4. UNCHANGED <<running, runtimeCalls, accepted, runtimeTopic>>
    BY <1>2 DEF OpenLogs, LogGrows, LogsProceeds, LogClientLeaves
  <2>5. logStream' \in [LogStreams -> LogStates]
    <3>1. l \in LogStates /\ logStream' = [logStream EXCEPT ![s] = l]
      BY <2>3
    <3> QED BY ONLY <2>0, <3>1
  <2>6. ASSUME NEW t \in LogStreams
        PROVE  /\ logStream'[t].sent <= logStream'[t].records
               /\ logStream'[t].following => logStream'[t].state = "open"
    <3>1. CASE t = s
      <4>1. logStream'[t] = l
        BY <2>0, <2>2, <3>1
      <4> QED BY <2>3, <4>1
    <3>2. CASE t # s
      <4>1. logStream'[t] = logStream[t]
        BY <2>0, <2>3, <3>2
      <4> QED BY <4>1 DEF RuntimeIInv, RuntimeTypeOK, LogsStopped
    <3> QED BY <3>1, <3>2
  <2> QED BY <2>4, <2>5, <2>6 DEF RuntimeIInv, RuntimeTypeOK, ToldWasAccepted, LogsStopped
<1> QED BY <1>1, <1>2 DEF RuntimeNext

LEMMA RuntimeStutter == RuntimeIInv /\ UNCHANGED runtimeVars => RuntimeIInv'
  BY DEF runtimeVars, RuntimeIInv, RuntimeTypeOK, ToldWasAccepted, LogsStopped

-----------------------------------------------------------------------------
(****************************************************************************)
(* The store: a table that has records is listed.                          *)
(****************************************************************************)

LEMMA StoreInitInv == StoreInit => StoreIInv
<1> SUFFICES ASSUME StoreInit PROVE StoreIInv
  OBVIOUS
<1>1. NoCall \in [at : {"idle"}, op : {"read", "write", "delete"},
                  pair : Databases \X Tables, key : StoreKeys \cup NoteKeys]
  <2>1. InternalPair \in Databases \X Tables
    BY DEF InternalPair, Databases, Tables
  <2>2. DatabaseNote(MicroDb) \in NoteKeys
    BY <2>1 DEF NoteKeys, Notes, InternalPair
  <2> QED BY <2>1, <2>2 DEF NoCall
<1>2. StoreTypeOK
  BY <1>1 DEF StoreInit, StoreTypeOK
<1>3. \A key : ~Noted(key)
  BY DEF StoreInit, Noted
<1>4. TablesListed
  BY <1>3 DEF StoreInit, TablesListed, ListTables
<1>5. KnownListed
  BY <1>1 DEF StoreInit, KnownListed
<1> QED BY <1>2, <1>4, <1>5 DEF StoreIInv

\* Requests and calls are about a database, a table and a key (store/handler get).
LEMMA RequestType ==
  ASSUME NEW req \in StoreRequests
  PROVE  /\ req.pair \in Databases \X Tables
         /\ req.op \in {"read", "write", "delete"} /\ req.key \in StoreKeys \cup NoteKeys
<1>1. ASSUME NEW named \in [ns : StoreNamespaces, database : NamedDatabases \cup {NoName},
                           table : NamedTables \cup {NoName}]
      PROVE  get(named) \in Databases \X Tables
  BY StoreAssumption DEF get, Databases, Tables
<1> QED BY <1>1 DEF StoreRequests

LEMMA PairType ==
  ASSUME StoreTypeOK, NEW c \in StoreCallers
  PROVE  /\ Pair(c) \in Databases \X Tables /\ Pair(c) = <<Pair(c)[1], Pair(c)[2]>>
         /\ Pair(c)[1] \in Databases /\ Pair(c)[2] \in Tables
         /\ storeCall[c].op \in {"read", "write", "delete"}
         /\ storeCall[c].key \in StoreKeys \cup NoteKeys
<1>1. /\ storeCall[c].op \in {"read", "write", "delete"} /\ storeCall[c].pair \in Databases \X Tables
      /\ storeCall[c].key \in StoreKeys \cup NoteKeys
  BY DEF StoreTypeOK
<1>2. \A p \in Databases \X Tables : p = <<p[1], p[2]>> /\ p[1] \in Databases /\ p[2] \in Tables
  OBVIOUS
<1> QED BY <1>1, <1>2 DEF Pair

\* Both notes of a pair are there.
BothNoted(p) == Noted(DatabaseNote(p[1])) /\ Noted(TableNote(p))

\* What is to be shown of a step: notes go only from pairs that are then taken as
\* unnoted, pairs cease to be so only when both their notes are there, and a record is
\* only written for a pair that is known.
LEMMA StoreMoves ==
  ASSUME StoreIInv, StoreTypeOK',
         \A p \in (Databases \X Tables) \ unnoted' : \A key \in Notes(p) : Noted(key) => Noted(key)',
         \A p \in unnoted : p \in unnoted' \/ BothNoted(p)',
         \A p \in known' : p \in known \/ p \in unnoted' \/ BothNoted(p)',
         \A p \in Databases \X Tables :
            Noted(TableNote(p))' => Noted(TableNote(p)) \/ p \in unnoted' \/ BothNoted(p)',
         \A r \in data' : r \in data \/ r[3] \notin StoreKeys \/ <<r[1], r[2]>> \in known,
         \A c \in StoreCallers :
            /\ storeCall'[c].at = "note table" =>
                 storeCall'[c] = storeCall[c] \/ Pair(c)' \in unnoted' \/ Noted(DatabaseNote(Pair(c)[1]))'
            /\ storeCall'[c].at \in {"read", "write", "delete"} => Pair(c)' \in known'
  PROVE  StoreIInv'
<1>1. \A p : Notes(p) = {DatabaseNote(p[1]), TableNote(p)}
  BY DEF Notes
<1>2. ASSUME NEW p \in Databases \X Tables, p \notin unnoted', p \notin unnoted
      PROVE  /\ Noted(DatabaseNote(p[1])) => Noted(DatabaseNote(p[1]))'
             /\ Noted(TableNote(p)) => Noted(TableNote(p))'
  BY <1>1, <1>2
<1>3. ASSUME NEW p \in known' PROVE p \in unnoted' \/ BothNoted(p)'
  <2>1. CASE p \in known
    <3>1. p \in Databases \X Tables /\ (p \in unnoted \/ BothNoted(p))
      BY <1>1, <2>1 DEF StoreIInv, KnownListed, StoreTypeOK, BothNoted
    <3> QED BY <1>2, <3>1 DEF BothNoted
  <2> QED BY <1>3, <2>1
<1>4. ASSUME NEW c \in StoreCallers, storeCall'[c].at = "note table"
      PROVE  Pair(c)' \in unnoted' \/ Noted(DatabaseNote(Pair(c)[1]))'
  <2>1. CASE storeCall'[c] = storeCall[c]
    <3>1. Pair(c)' = Pair(c) /\ storeCall[c].at = "note table"
      BY <1>4, <2>1 DEF Pair
    <3>2. Pair(c) \in unnoted \/ Noted(DatabaseNote(Pair(c)[1]))
      BY <3>1 DEF StoreIInv, KnownListed
    <3>3. Pair(c) \in Databases \X Tables
      BY PairType DEF StoreIInv
    <3>4. CASE Pair(c) \in unnoted
      BY <3>1, <3>4 DEF BothNoted
    <3>5. CASE Pair(c) \notin unnoted
      <4>1. PICK p \in Databases \X Tables : p = Pair(c)
        BY <3>3
      <4>2. p \in unnoted' \/ Noted(DatabaseNote(p[1]))'
        BY <1>2, <3>2, <3>5, <4>1
      <4> QED BY <3>1, <4>1, <4>2
    <3> QED BY <3>4, <3>5
  <2> QED BY <1>4, <2>1
<1>5. KnownListed'
  BY <1>1, <1>3, <1>4 DEF KnownListed, BothNoted
<1>6. TablesListed'
  <2>1. SUFFICES ASSUME NEW database \in Databases, NEW table \in Tables,
                        <<database, table>> \notin unnoted'
                 PROVE  /\ (\E r \in data' : <<r[1], r[2]>> = <<database, table>> /\ r[3] \in StoreKeys) =>
                              Noted(DatabaseNote(database))' /\ Noted(TableNote(<<database, table>>))'
                        /\ Noted(TableNote(<<database, table>>))' => Noted(DatabaseNote(database))'
    BY DEF TablesListed, ListDatabases, ListTables
  <2>2. PICK p \in Databases \X Tables : p = <<database, table>> /\ p[1] = database /\ p \notin unnoted'
    BY <2>1
  <2>3. CASE p \in unnoted
    BY <2>2, <2>3 DEF BothNoted
  <2>4. CASE p \notin unnoted
    <3>1. /\ (\E r \in data : <<r[1], r[2]>> = p /\ r[3] \in StoreKeys) => BothNoted(p)
          /\ Noted(TableNote(p)) => Noted(DatabaseNote(database))
      BY <2>2, <2>4 DEF StoreIInv, TablesListed, ListDatabases, ListTables, BothNoted
    <3>2. p \in known => BothNoted(p)
      BY <1>1, <2>4 DEF StoreIInv, KnownListed, BothNoted
    <3>3. BothNoted(p) => BothNoted(p)'
      BY <1>2, <2>2, <2>4 DEF BothNoted
    <3>4. (\E r \in data' : <<r[1], r[2]>> = p /\ r[3] \in StoreKeys) => BothNoted(p)'
      BY <3>1, <3>2, <3>3
    <3>5. Noted(TableNote(p))' => Noted(DatabaseNote(database))'
      BY <1>2, <2>2, <2>4, <3>1 DEF BothNoted
    <3> QED BY <2>2, <3>4, <3>5 DEF BothNoted
  <2> QED BY <2>3, <2>4
<1> QED BY <1>5, <1>6 DEF StoreIInv

StoreCallRecords ==
  [at : {"idle", "note database", "note table", "read", "write", "delete"},
   op : {"read", "write", "delete"}, pair : Databases \X Tables, key : StoreKeys \cup NoteKeys]

LEMMA NoCallType == NoCall \in StoreCallRecords /\ NoCall.at = "idle"
<1>1. InternalPair \in Databases \X Tables
  BY DEF InternalPair, Databases, Tables
<1>2. DatabaseNote(MicroDb) \in NoteKeys
  BY <1>1 DEF NoteKeys, Notes, InternalPair
<1> QED BY <1>1, <1>2 DEF NoCall, StoreCallRecords

\* What a step leaves the calls with.
CallsKept ==
  /\ storeCall' \in [StoreCallers -> StoreCallRecords]
  /\ \A o \in StoreCallers :
       /\ storeCall'[o].at = "note table" =>
            storeCall'[o] = storeCall[o] \/ Pair(o)' \in unnoted' \/ Noted(DatabaseNote(Pair(o)[1]))'
       /\ storeCall'[o].at \in {"read", "write", "delete"} => Pair(o)' \in known'

\* The calls, when one of them moves.
LEMMA OneStoreCall ==
  ASSUME StoreIInv, NEW c \in StoreCallers, NEW r \in StoreCallRecords,
         storeCall' = [storeCall EXCEPT ![c] = r], known \subseteq known',
         r.at \in {"read", "write", "delete"} => r.pair \in known',
         r.at = "note table" => r.pair \in unnoted' \/ Noted(DatabaseNote(r.pair[1]))'
  PROVE  CallsKept
<1>1. storeCall \in [StoreCallers -> StoreCallRecords]
  BY DEF StoreIInv, StoreTypeOK, StoreCallRecords
<1>2. storeCall' \in [StoreCallers -> StoreCallRecords]
  BY <1>1
<1>3. storeCall'[c] = r /\ Pair(c)' = r.pair
  BY <1>1 DEF Pair
<1>4. \A o \in StoreCallers \ {c} : storeCall'[o] = storeCall[o] /\ Pair(o)' = Pair(o)
  BY <1>1 DEF Pair
<1>5. \A o \in StoreCallers \ {c} :
        storeCall[o].at \in {"read", "write", "delete"} => Pair(o) \in known
  BY DEF StoreIInv, KnownListed
<1> QED BY <1>2, <1>3, <1>4, <1>5 DEF CallsKept

\* A call arrives, or is answered without a change of a note; or all calls are lost.
LEMMA StoreCallInv ==
  ASSUME StoreIInv,
         \/ StoreRestarts
         \/ \E c \in StoreCallers : \/ \E req \in StoreRequests : StoreArrives(c, req)
                                    \/ Read(c) \/ StoreFails(c)
  PROVE  StoreIInv'
<1>1. /\ data' = data /\ unnoted' = unnoted /\ known' \subseteq known
      /\ \A p : Noted(TableNote(p))' = Noted(TableNote(p))
      /\ \A key : Noted(key)' = Noted(key)
  BY DEF StoreRestarts, StoreArrives, Read, StoreFails, StoreAnswers, Noted
<1>2. CallsKept
  <2>1. CASE StoreRestarts
    <3>1. storeCall' = [c \in StoreCallers |-> NoCall]
      BY <2>1 DEF StoreRestarts
    <3> QED BY <3>1, NoCallType DEF CallsKept
  <2>2. ASSUME NEW c \in StoreCallers, Read(c) \/ StoreFails(c)
        PROVE  CallsKept
    <3>1. storeCall' = [storeCall EXCEPT ![c] = NoCall] /\ known \subseteq known'
      BY <2>2 DEF Read, StoreFails, StoreAnswers
    <3> QED BY <3>1, NoCallType, OneStoreCall
  <2>3. ASSUME NEW c \in StoreCallers, NEW req \in StoreRequests, StoreArrives(c, req)
        PROVE  CallsKept
    <3>1. PICK r : r = [at |-> IF Known(req.pair) THEN req.op ELSE "note database", op |-> req.op,
                        pair |-> req.pair, key |-> req.key]
      OBVIOUS
    <3>2. r \in StoreCallRecords /\ r.at # "note table"
          /\ (r.at \in {"read", "write", "delete"} => r.pair \in known)
      BY <3>1, RequestType DEF StoreCallRecords, Known
    <3>3. storeCall' = [storeCall EXCEPT ![c] = r] /\ known' = known
      BY <2>3, <3>1 DEF StoreArrives
    <3> QED BY <3>2, <3>3, OneStoreCall
  <2> QED BY <2>1, <2>2, <2>3
<1>3. StoreTypeOK'
  BY <1>1, <1>2 DEF StoreIInv, StoreTypeOK, StoreCallRecords, CallsKept
<1> QED BY <1>1, <1>2, <1>3, StoreMoves DEF CallsKept

\* New, which notes the pair of a call, or fails to.
LEMMA StoreNotesInv ==
  ASSUME StoreIInv, NEW c \in StoreCallers, NoteDatabase(c) \/ NoteTable(c) \/ NoteFails(c)
  PROVE  StoreIInv'
<1>1. /\ Pair(c) \in Databases \X Tables /\ Pair(c)[1] \in Databases
      /\ storeCall[c].op \in {"read", "write", "delete"}
      /\ storeCall[c] \in StoreCallRecords
      /\ data \subseteq Databases \X (Tables \cup {InternalTable}) \X (StoreKeys \cup NoteKeys)
  BY PairType DEF StoreIInv, StoreTypeOK, StoreCallRecords
<1>2. \A p : Notes(p) = {DatabaseNote(p[1]), TableNote(p)}
  BY DEF Notes
<1>3. MicroDb \in Databases /\ InternalTable \in Tables
      /\ DatabaseNote(Pair(c)[1]) \in NoteKeys /\ TableNote(Pair(c)) \in NoteKeys
  BY <1>1, <1>2 DEF Databases, Tables, NoteKeys
<1>4. \A key \in NoteKeys :
         <<MicroDb, InternalTable, key>> \in Databases \X Tables \X (StoreKeys \cup NoteKeys)
  BY <1>3
<1>5. CASE NoteDatabase(c)
  <2>1. PICK key \in NoteKeys : key = DatabaseNote(Pair(c)[1])
    BY <1>3
  <2>2. /\ data' = data \cup {<<MicroDb, InternalTable, key>>}
        /\ known' = known /\ unnoted' = unnoted
    BY <1>5, <2>1 DEF NoteDatabase
  <2>3. \A k : Noted(k)' <=> Noted(k) \/ k = key
    BY <2>2 DEF Noted
  <2>4. PICK r \in StoreCallRecords :
          r = [storeCall[c] EXCEPT !.at = "note table"] /\ r.at = "note table" /\ r.pair = Pair(c)
    <3>1. PICK rec \in StoreCallRecords : rec = storeCall[c] /\ rec.pair = Pair(c)
      BY <1>1 DEF Pair
    <3>2. [rec EXCEPT !.at = "note table"] \in StoreCallRecords
          /\ [rec EXCEPT !.at = "note table"].at = "note table"
          /\ [rec EXCEPT !.at = "note table"].pair = Pair(c)
      BY <3>1 DEF StoreCallRecords
    <3> QED BY <3>1, <3>2
  <2>5. storeCall' = [storeCall EXCEPT ![c] = r]
    BY <1>5, <2>4 DEF NoteDatabase
  <2>6. Noted(DatabaseNote(r.pair[1]))'
    BY <2>1, <2>3, <2>4
  <2>7. CallsKept
    BY <2>2, <2>4, <2>5, <2>6, OneStoreCall
  <2>8. StoreTypeOK'
    BY <1>4, <2>2, <2>7 DEF StoreIInv, StoreTypeOK, StoreCallRecords, CallsKept
  <2>9. \A p \in Databases \X Tables : TableNote(p) # key
    BY <2>1 DEF DatabaseNote, TableNote
  <2>10. \A p \in Databases \X Tables : Noted(TableNote(p))' => Noted(TableNote(p))
    BY <2>3, <2>9
  <2>11. \A s \in data' : s \in data \/ s[3] \notin StoreKeys
    <3>1. <<MicroDb, InternalTable, key>>[3] = key /\ key \notin StoreKeys
      BY StoreKeysAssumption
    <3> QED BY <2>2, <3>1
  <2> QED BY <2>2, <2>3, <2>7, <2>8, <2>10, <2>11, StoreMoves DEF CallsKept
<1>6. CASE NoteTable(c)
  <2>1. PICK key \in NoteKeys, q \in Databases \X Tables : key = TableNote(q) /\ q = Pair(c)
    BY <1>1, <1>3
  <2>2. /\ data' = data \cup {<<MicroDb, InternalTable, key>>}
        /\ known' = known \cup {q}
        /\ unnoted' = IF Noted(DatabaseNote(q[1])) THEN unnoted \ {q} ELSE unnoted
        /\ storeCall[c].at = "note table"
    BY <1>6, <2>1 DEF NoteTable
  <2>3. \A k : Noted(k)' <=> Noted(k) \/ k = key
    BY <2>2 DEF Noted
  <2>4. PICK r \in StoreCallRecords :
          r = [storeCall[c] EXCEPT !.at = storeCall[c].op] /\ r.at # "note table" /\ r.pair = q
    <3>1. PICK rec \in StoreCallRecords : rec = storeCall[c] /\ rec.pair = q
      BY <1>1, <2>1 DEF Pair
    <3>2. [rec EXCEPT !.at = rec.op] \in StoreCallRecords
          /\ [rec EXCEPT !.at = rec.op].at # "note table" /\ [rec EXCEPT !.at = rec.op].pair = q
      BY <3>1 DEF StoreCallRecords
    <3> QED BY <3>1, <3>2
  <2>5. storeCall' = [storeCall EXCEPT ![c] = r]
    BY <1>6, <2>4 DEF NoteTable
  <2>6. CallsKept
    <3>1. known' = known \cup {q} /\ r.pair = q /\ r.at # "note table"
      BY <2>2, <2>4
    <3>2. known \subseteq known' /\ r.pair \in known'
      BY ONLY <3>1
    <3> QED BY ONLY <2>5, <3>1, <3>2, StoreIInv, c \in StoreCallers, r \in StoreCallRecords, OneStoreCall
  <2>7. StoreTypeOK'
    BY <1>4, <2>2, <2>6 DEF StoreIInv, StoreTypeOK, StoreCallRecords, CallsKept
  <2>8. \A p \in Databases \X Tables : TableNote(p) = key => p = q
    BY <2>1 DEF TableNote
  <2>9. q \in unnoted \/ Noted(DatabaseNote(q[1]))
    BY <2>1, <2>2 DEF StoreIInv, KnownListed
  <2>10. Noted(DatabaseNote(q[1])) => BothNoted(q)'
    BY <2>1, <2>3 DEF BothNoted
  <2>11. q \in unnoted' \/ BothNoted(q)'
    BY <2>2, <2>9, <2>10
  <2>12. \A p \in unnoted : p \in unnoted' \/ BothNoted(p)'
    BY <2>2, <2>11
  <2>13. \A p \in Databases \X Tables :
           Noted(TableNote(p))' => Noted(TableNote(p)) \/ p \in unnoted' \/ BothNoted(p)'
    BY <2>3, <2>8, <2>11
  <2>14. \A s \in data' : s \in data \/ s[3] \notin StoreKeys
    <3>1. <<MicroDb, InternalTable, key>>[3] = key /\ key \notin StoreKeys
      BY StoreKeysAssumption
    <3> QED BY <2>2, <3>1
  <2>15. \A p \in known' : p \in known \/ p \in unnoted' \/ BothNoted(p)'
    BY <2>2, <2>11
  <2> QED BY <2>3, <2>6, <2>7, <2>12, <2>13, <2>14, <2>15, StoreMoves DEF CallsKept
<1>7. CASE NoteFails(c)
  <2>1. PICK q \in Databases \X Tables : q = Pair(c)
    BY <1>1
  <2>2. /\ data' = data /\ known' = known \cup {q} /\ unnoted' = unnoted \cup {q}
    BY <1>7, <2>1 DEF NoteFails
  <2>3. \A k : Noted(k)' <=> Noted(k)
    BY <2>2 DEF Noted
  <2>4. PICK r \in StoreCallRecords :
          r = [storeCall[c] EXCEPT !.at = storeCall[c].op] /\ r.at # "note table" /\ r.pair = q
    <3>1. PICK rec \in StoreCallRecords : rec = storeCall[c] /\ rec.pair = q
      BY <1>1, <2>1 DEF Pair
    <3>2. [rec EXCEPT !.at = rec.op] \in StoreCallRecords
          /\ [rec EXCEPT !.at = rec.op].at # "note table" /\ [rec EXCEPT !.at = rec.op].pair = q
      BY <3>1 DEF StoreCallRecords
    <3> QED BY <3>1, <3>2
  <2>5. storeCall' = [storeCall EXCEPT ![c] = r]
    BY <1>7, <2>4 DEF NoteFails
  <2>6. CallsKept
    <3>1. known' = known \cup {q} /\ r.pair = q /\ r.at # "note table"
      BY <2>2, <2>4
    <3>2. known \subseteq known' /\ r.pair \in known'
      BY ONLY <3>1
    <3> QED BY ONLY <2>5, <3>1, <3>2, StoreIInv, c \in StoreCallers, r \in StoreCallRecords, OneStoreCall
  <2>7. StoreTypeOK'
    BY <2>2, <2>6 DEF StoreIInv, StoreTypeOK, StoreCallRecords, CallsKept
  <2> QED BY <2>2, <2>3, <2>6, <2>7, StoreMoves DEF CallsKept
<1> QED BY <1>5, <1>6, <1>7

\* A write or a delete; a note that it changes is of pairs that are then unnoted.
LEMMA StoreChangeInv ==
  ASSUME StoreIInv, NEW c \in StoreCallers, Write(c) \/ StoreDelete(c)
  PROVE  StoreIInv'
<1>1. PICK q \in Databases \X Tables, key \in StoreKeys \cup NoteKeys :
        /\ q = Pair(c) /\ key = storeCall[c].key /\ q[1] \in Databases /\ q[2] \in Tables
        /\ Where(c) = <<q[1], q[2], key>> /\ <<q[1], q[2]>> = q
  BY PairType DEF StoreIInv, Where
<1>2. /\ data' = data \cup {Where(c)} \/ data' = data \ {Where(c)}
      /\ known' = known /\ unnoted' = unnoted \cup Touched(c) /\ q \in known
      /\ storeCall' = [storeCall EXCEPT ![c] = NoCall]
  BY <1>1 DEF Write, StoreDelete, StoreAnswers, StoreIInv, KnownListed
<1>3. CallsKept
  BY <1>2, NoCallType, OneStoreCall
<1>4. StoreTypeOK'
  <2>1. Touched(c) \subseteq Databases \X Tables
    BY DEF Touched
  <2>2. Where(c) \in Databases \X Tables \X (StoreKeys \cup NoteKeys)
    BY <1>1
  <2> QED BY <1>2, <1>3, <2>1, <2>2 DEF StoreIInv, StoreTypeOK, StoreCallRecords, CallsKept
<1>5. \A k : k # key => (Noted(k)' <=> Noted(k))
  BY <1>1, <1>2 DEF Noted
<1>6. \A p \in Databases \X Tables : key \in Notes(p) => p \in unnoted'
  BY <1>1, <1>2 DEF Touched
<1>7. \A p \in (Databases \X Tables) \ unnoted' : \A k \in Notes(p) : Noted(k) => Noted(k)'
  BY <1>5, <1>6
<1>8. \A p \in Databases \X Tables : Noted(TableNote(p))' => Noted(TableNote(p)) \/ p \in unnoted'
  <2>1. \A p : TableNote(p) \in Notes(p)
    BY DEF Notes
  <2> QED BY <1>5, <1>6, <2>1
<1>9. \A s \in data' : s \in data \/ <<s[1], s[2]>> \in known
  BY <1>1, <1>2
<1>10. \A p \in unnoted : p \in unnoted'
  BY <1>2
<1> QED BY <1>2, <1>3, <1>4, <1>7, <1>8, <1>9, <1>10, StoreMoves DEF CallsKept

LEMMA StoreStepInv == StoreIInv /\ StoreNext => StoreIInv'
BY StoreCallInv, StoreNotesInv, StoreChangeInv DEF StoreNext

LEMMA StoreStutter == StoreIInv /\ UNCHANGED storeVars => StoreIInv'
BY DEF StoreIInv, StoreTypeOK, KnownListed, TablesListed, storeVars, storeCounters, Noted, Pair,
       ListDatabases, ListTables

(****************************************************************************)
(* Snapshots: the writer's goroutine and the command share a channel, and a*)
(* restore decodes one record after the other into the same variable.      *)
(****************************************************************************)

LEMMA SnapshotInitInv == SnapshotInit => SnapshotIInv
<1> SUFFICES ASSUME SnapshotInit PROVE SnapshotIInv
  OBVIOUS
<1>1. SnapshotTypeOK
  BY DEF SnapshotInit, SnapshotTypeOK, Fields
<1>2. WriterInStep /\ KeysOnce
  BY DEF SnapshotInit, WriterInStep, KeysOnce
<1>3. RestoredSoFar
  <2>1. decoded.count = 0 /\ Len(file) = 0
    BY DEF SnapshotInit
  <2>2. \A f \in {"value", "expiry"} : decoded.r[f] = Zero
    BY DEF SnapshotInit
  <2>3. command = "start" /\ failedWrites = {} /\ \A k \in SnapshotKeys : target[k] = Absent
    BY DEF SnapshotInit
  <2> QED BY <2>1, <2>2, <2>3 DEF RestoredSoFar
<1> QED BY <1>1, <1>2, <1>3 DEF SnapshotIInv

\* What a restore has done is not changed by what leaves its state alone.
LEMMA RestoreKept ==
  ASSUME RestoredSoFar, UNCHANGED <<decoded, file, target, failedWrites>>,
         \/ command' = command
         \/ command \notin {"restore", "restored"} /\ command' \notin {"restore", "restored"}
  PROVE  RestoredSoFar'
<1>1. \A i : Restored(i)' <=> Restored(i)
  BY DEF Restored
<1>2. decoded' = decoded /\ file' = file /\ target' = target /\ failedWrites' = failedWrites
  OBVIOUS
<1>3. /\ (decoded.count <= Len(file))'
      /\ (command \notin {"restore", "restored"} => decoded.count = 0)'
      /\ (command = "restored" => decoded.count = Len(file))'
  BY <1>2 DEF RestoredSoFar
<1>4. (\A f \in {"value", "expiry"} :
         decoded.r[f] = Zero \/ \E j \in 1 .. decoded.count : decoded.r[f] = file[j].fields[f])'
  BY <1>2 DEF RestoredSoFar
<1>5. (\A i \in 1 .. decoded.count : Restored(i))'
  BY <1>1, <1>2 DEF RestoredSoFar
<1>6. (\A k \in SnapshotKeys :
         target[k] # Absent \/ k \in failedWrites =>
           \E i \in 1 .. decoded.count : file[i].key = k)'
  BY <1>2 DEF RestoredSoFar
<1> QED BY <1>3, <1>4, <1>5, <1>6 DEF RestoredSoFar

\* Steps of the others, and those of the command that move no record.
LEMMA SnapshotMoves ==
  ASSUME SnapshotIInv,
         \/ \E k \in SnapshotKeys, fields \in Fields \cup {Absent} : SourceChanges(k, fields)
         \/ StartSnapshot \/ SnapshotFails \/ CloseRecords \/ Wait
         \/ WriterAdds \/ EncodePanics \/ WriterDone
  PROVE  SnapshotIInv'
<1> USE DEF SourceChanges, StartSnapshot, SnapshotFails, CloseRecords, Wait, WriterAdds,
            EncodePanics, WriterDone, SnapshotRuns
<1>1. /\ UNCHANGED <<listed, handed, file, hand, decoded, target, failedWrites>>
      /\ \/ command' = command
         \/ command \notin {"restore", "restored"} /\ command' \notin {"restore", "restored"}
  OBVIOUS
<1>2. SnapshotTypeOK'
  <2>1. source \in [SnapshotKeys -> Fields \cup {Absent}]
    BY DEF SnapshotIInv, SnapshotTypeOK
  <2>2. source' \in [SnapshotKeys -> Fields \cup {Absent}]
    BY <2>1
  <2>3. /\ command' \in {"start", "list", "read", "wait", "saved", "restore", "restored", "failed"}
        /\ writer' \in {"none", "spawned", "receiving", "encoding", "done"}
    BY DEF SnapshotIInv, SnapshotTypeOK
  <2>4. wg' \in 0 .. 1
    BY DEF SnapshotIInv, SnapshotTypeOK, WriterInStep
  <2> QED BY <1>1, <2>2, <2>3, <2>4 DEF SnapshotIInv, SnapshotTypeOK
<1>3. WriterInStep'
  BY <1>1 DEF SnapshotIInv, WriterInStep, SnapshotTypeOK
<1>4. KeysOnce'
  BY <1>1 DEF SnapshotIInv, KeysOnce
<1>5. RestoredSoFar'
  BY <1>1, RestoreKept DEF SnapshotIInv
<1> QED BY <1>2, <1>3, <1>4, <1>5 DEF SnapshotIInv

LEMMA ListSourceInv ==
  ASSUME SnapshotIInv, ListSource
  PROVE  SnapshotIInv'
<1>1. PICK S \in SUBSET SnapshotKeys : listed' \in SetToSeqs(S)
  BY DEF ListSource
<1>2. IsFiniteSet(S)
  BY FS_Subset, SnapshotAssumption
<1>3. listed' \in Seq(S) /\ \A i, j \in 1 .. Len(listed') : i # j => listed'[i] # listed'[j]
  BY <1>1, <1>2, SetSequences
<1>4. listed' \in Seq(SnapshotKeys)
  BY <1>3
<1>5. /\ UNCHANGED <<source, sourceChanges, handed, writer, wg, hand, file, decoded, target,
                     failedWrites, snapshotFaults>>
      /\ command = "list" /\ command' = "read"
  BY DEF ListSource
<1>6. SnapshotTypeOK'
  BY <1>4, <1>5 DEF SnapshotIInv, SnapshotTypeOK
<1>7. WriterInStep'
  BY <1>5 DEF SnapshotIInv, WriterInStep
<1>8. KeysOnce'
  <2>1. handed' = <<>>
    BY <1>5 DEF SnapshotIInv, WriterInStep
  <2> QED BY <1>3, <2>1 DEF KeysOnce
<1>9. RestoredSoFar'
  BY <1>5, RestoreKept DEF SnapshotIInv
<1> QED BY <1>6, <1>7, <1>8, <1>9 DEF SnapshotIInv

\* The record that is sent is of a key that was not sent before.
LEMMA ReadAndSendInv ==
  ASSUME SnapshotIInv, ReadAndSend
  PROVE  SnapshotIInv'
<1> DEFINE k == Head(listed)
           r == [key |-> k, fields |-> source[k]]
<1>1. /\ listed \in Seq(SnapshotKeys) /\ listed # <<>> /\ handed \in Seq(SnapshotRecords)
      /\ file \in Seq(SnapshotRecords)
      /\ source \in [SnapshotKeys -> Fields \cup {Absent}] /\ source[k] # Absent
  BY DEF SnapshotIInv, SnapshotTypeOK, ReadAndSend
<1>2. /\ k \in SnapshotKeys /\ k = listed[1] /\ Tail(listed) \in Seq(SnapshotKeys)
      /\ Len(listed) \in Nat /\ Len(listed) >= 1 /\ Len(Tail(listed)) = Len(listed) - 1
      /\ \A i \in 1 .. Len(listed) - 1 : Tail(listed)[i] = listed[i + 1]
  BY <1>1, TailFacts
<1>3. r \in SnapshotRecords /\ r.key = k
  BY <1>1, <1>2 DEF SnapshotRecords
<1>4. /\ handed' = Append(handed, r) /\ hand' = r /\ listed' = Tail(listed)
      /\ writer = "receiving" /\ writer' = "encoding" /\ command = "read"
      /\ UNCHANGED <<source, sourceChanges, command, wg, file, decoded, target, failedWrites,
                     snapshotFaults>>
  BY DEF ReadAndSend
<1> HIDE DEF k, r
<1>5. /\ handed' \in Seq(SnapshotRecords) /\ Len(handed') = Len(handed) + 1
      /\ handed'[Len(handed) + 1] = r /\ Len(handed) \in Nat
      /\ \A i \in 1 .. Len(handed) : handed'[i] = handed[i]
  BY <1>1, <1>3, <1>4, AppendFacts
<1>6. SnapshotTypeOK'
  BY <1>2, <1>3, <1>4, <1>5 DEF SnapshotIInv, SnapshotTypeOK
<1>7. WriterInStep'
  BY <1>4 DEF SnapshotIInv, WriterInStep
<1>8. KeysOnce'
  <2>1. /\ \A i, j \in 1 .. Len(listed) : i # j => listed[i] # listed[j]
        /\ \A i, j \in 1 .. Len(handed) : i # j => handed[i].key # handed[j].key
        /\ \A i \in 1 .. Len(handed), j \in 1 .. Len(listed) : handed[i].key # listed[j]
    BY DEF SnapshotIInv, KeysOnce
  <2>2. \A i \in 1 .. Len(listed') : i \in 1 .. Len(listed) /\ i + 1 \in 1 .. Len(listed)
                                     /\ i + 1 # 1 /\ listed'[i] = listed[i + 1]
    BY <1>2, <1>4
  <2>3. 1 \in 1 .. Len(listed)
    BY <1>2
  <2>4. \A i \in 1 .. Len(listed') : listed'[i] # k
    BY <1>2, <2>1, <2>2, <2>3
  <2>5. ASSUME NEW i \in 1 .. Len(listed'), NEW j \in 1 .. Len(listed'), i # j
        PROVE  listed'[i] # listed'[j]
    BY <2>1, <2>2, <2>5
  <2>6. \A i \in 1 .. Len(handed') : i \in 1 .. Len(handed) \/ i = Len(handed) + 1
    BY <1>5
  <2>7. \A i \in 1 .. Len(handed) : handed[i].key # k
    BY <1>2, <2>1, <2>3
  <2>8. ASSUME NEW i \in 1 .. Len(handed'), NEW j \in 1 .. Len(handed'), i # j
        PROVE  handed'[i].key # handed'[j].key
    BY <1>3, <1>5, <2>1, <2>6, <2>7, <2>8
  <2>9. ASSUME NEW i \in 1 .. Len(handed'), NEW j \in 1 .. Len(listed')
        PROVE  handed'[i].key # listed'[j]
    <3>1. CASE i \in 1 .. Len(handed)
      <4>1. handed'[i] = handed[i]
        BY <1>5, <3>1
      <4>2. j + 1 \in 1 .. Len(listed) /\ listed'[j] = listed[j + 1]
        BY <2>2
      <4> QED
        BY ONLY <2>1, <3>1, <4>1, <4>2
    <3>2. CASE i = Len(handed) + 1
      BY <1>3, <1>5, <2>4, <3>2
    <3> QED
      BY <2>6, <3>1, <3>2
  <2> QED BY <2>5, <2>8, <2>9 DEF KeysOnce
<1>9. RestoredSoFar'
  BY <1>4, RestoreKept DEF SnapshotIInv
<1> QED BY <1>6, <1>7, <1>8, <1>9 DEF SnapshotIInv

\* The file grows only while nothing has been restored.
LEMMA EncodeInv ==
  ASSUME SnapshotIInv, Encode
  PROVE  SnapshotIInv'
<1>1. /\ file' = Append(file, hand) /\ hand' = Absent
      /\ writer = "encoding" /\ writer' = "receiving" /\ command \in {"list", "read", "wait"}
      /\ UNCHANGED <<source, sourceChanges, command, listed, handed, wg, decoded, target,
                     failedWrites, snapshotFaults>>
  BY DEF Encode, SnapshotRuns
<1>2. handed = Append(file, hand) /\ handed \in Seq(SnapshotRecords)
  BY <1>1 DEF SnapshotIInv, WriterInStep, SnapshotTypeOK
<1>3. SnapshotTypeOK'
  BY <1>1, <1>2 DEF SnapshotIInv, SnapshotTypeOK
<1>4. WriterInStep'
  BY <1>1, <1>2 DEF SnapshotIInv, WriterInStep
<1>5. KeysOnce'
  BY <1>1 DEF SnapshotIInv, KeysOnce
<1>6. RestoredSoFar'
  <2>1. /\ decoded.count = 0
        /\ \A f \in {"value", "expiry"} :
             decoded.r[f] = Zero \/ \E j \in 1 .. decoded.count : decoded.r[f] = file[j].fields[f]
        /\ \A k \in SnapshotKeys :
             target[k] # Absent \/ k \in failedWrites =>
               \E i \in 1 .. decoded.count : file[i].key = k
    BY <1>1 DEF SnapshotIInv, RestoredSoFar
  <2>2. 1 .. 0 = {}
    OBVIOUS
  <2>3. /\ \A f \in {"value", "expiry"} : decoded'.r[f] = Zero
        /\ \A k \in SnapshotKeys : ~(target'[k] # Absent \/ k \in failedWrites')
        /\ decoded'.count = 0 /\ command' \notin {"restore", "restored"}
    BY <1>1, <2>1, <2>2
  <2>4. Len(file') \in Nat
    BY <1>3 DEF SnapshotTypeOK
  <2> QED BY <2>2, <2>3, <2>4 DEF RestoredSoFar
<1> QED BY <1>3, <1>4, <1>5, <1>6 DEF SnapshotIInv

\* A record that is restored gets its fields, or, where they are zero, those of an
\* earlier one; its key has not been written before.
LEMMA RestoreInv ==
  ASSUME SnapshotIInv, StartRestore \/ RestoreRecord \/ RestoreEnds
  PROVE  SnapshotIInv'
<1>1. CASE StartRestore \/ RestoreEnds
  <2>1. /\ UNCHANGED <<source, sourceChanges, listed, handed, writer, wg, hand, file, decoded,
                       target, failedWrites, snapshotFaults>>
        /\ command \in {"saved", "restore"} /\ command' \in {"restore", "restored"}
        /\ command' = "restored" => decoded.count = Len(file)
    BY <1>1 DEF StartRestore, RestoreEnds
  <2>2. SnapshotTypeOK' /\ WriterInStep' /\ KeysOnce'
    BY <2>1 DEF SnapshotIInv, SnapshotTypeOK, WriterInStep, KeysOnce
  <2>3. \A i : Restored(i)' <=> Restored(i)
    BY <2>1 DEF Restored
  <2>4. decoded' = decoded /\ file' = file /\ target' = target /\ failedWrites' = failedWrites
    BY <2>1
  <2>5. (\A f \in {"value", "expiry"} :
           decoded.r[f] = Zero \/ \E j \in 1 .. decoded.count : decoded.r[f] = file[j].fields[f])'
    BY <2>4 DEF SnapshotIInv, RestoredSoFar
  <2>6. (\A i \in 1 .. decoded.count : Restored(i))'
    BY <2>3, <2>4 DEF SnapshotIInv, RestoredSoFar
  <2>7. (\A k \in SnapshotKeys :
           target[k] # Absent \/ k \in failedWrites =>
             \E i \in 1 .. decoded.count : file[i].key = k)'
    BY <2>4 DEF SnapshotIInv, RestoredSoFar
  <2>8. (decoded.count <= Len(file))'
    BY <2>4 DEF SnapshotIInv, RestoredSoFar
  <2> QED BY <2>1, <2>2, <2>4, <2>5, <2>6, <2>7, <2>8 DEF SnapshotIInv, RestoredSoFar
<1>2. CASE RestoreRecord
  <2>0. PICK n, new, r : /\ n = decoded.count /\ new = file[n + 1]
                         /\ r = Decode(new.fields, decoded.r)
    OBVIOUS
  <2>1. /\ command = "restore" /\ n < Len(file) /\ decoded' = [count |-> n + 1, r |-> r]
        /\ \/ target' = [target EXCEPT ![new.key] = r] /\ failedWrites' = failedWrites
           \/ failedWrites' = failedWrites \cup {new.key} /\ target' = target
        /\ UNCHANGED <<source, sourceChanges, command, listed, handed, writer, wg, hand, file>>
    BY <1>2, <2>0 DEF RestoreRecord
  <2>2. /\ n \in Nat /\ Len(file) \in Nat /\ n + 1 \in 1 .. Len(file)
        /\ file \in Seq(SnapshotRecords) /\ decoded.r \in Fields
        /\ target \in [SnapshotKeys -> Fields \cup {Absent}]
    BY <2>0, <2>1 DEF SnapshotIInv, SnapshotTypeOK
  <2>3. new \in SnapshotRecords /\ new.key \in SnapshotKeys /\ new.fields \in Fields
    <3>1. new \in SnapshotRecords
      BY <2>0, <2>2, SeqElement
    <3> QED BY <3>1 DEF SnapshotRecords
  <2>4. /\ r \in Fields
        /\ \A f \in {"value", "expiry"} :
             r[f] = IF new.fields[f] = Zero THEN decoded.r[f] ELSE new.fields[f]
    BY <2>0, <2>2, <2>3 DEF Decode, Fields
  <2>5. decoded'.count = n + 1 /\ decoded'.r = r /\ file' = file
    BY <2>1
  <2>6. SnapshotTypeOK'
    BY <2>1, <2>2, <2>3, <2>4 DEF SnapshotIInv, SnapshotTypeOK
  <2>7. WriterInStep' /\ KeysOnce'
    BY <2>1 DEF SnapshotIInv, WriterInStep, KeysOnce
  <2>8. file = handed
    BY <2>1 DEF SnapshotIInv, WriterInStep
  <2>9. \A i \in 1 .. n : i \in 1 .. Len(file) /\ i # n + 1 /\ file[i].key # new.key
    <3>1. \A i, j \in 1 .. Len(file) : i # j => file[i].key # file[j].key
      BY <2>8 DEF SnapshotIInv, KeysOnce
    <3>2. \A i \in 1 .. n : i \in 1 .. Len(file) /\ i # n + 1
      BY <2>2
    <3> QED BY <2>0, <2>2, <3>1, <3>2
  <2>10. target[new.key] = Absent /\ new.key \notin failedWrites
    BY <2>0, <2>3, <2>9 DEF SnapshotIInv, RestoredSoFar
  <2>11. ASSUME NEW i \in 1 .. n PROVE Restored(i)'
    <3>1. Restored(i)
      BY <2>0 DEF SnapshotIInv, RestoredSoFar
    <3>2. target'[file[i].key] = target[file[i].key]
      <4>1. file[i] \in SnapshotRecords
        BY <2>2, <2>9, SeqElement
      <4>2. file[i].key \in SnapshotKeys
        BY <4>1 DEF SnapshotRecords
      <4> QED BY <2>1, <2>2, <2>9, <4>2
    <3>3. file[i].key \in failedWrites' <=> file[i].key \in failedWrites
      BY <2>1, <2>9
    <3> QED BY <2>5, <3>1, <3>2, <3>3 DEF Restored
  <2>12. \A f \in {"value", "expiry"} :
           decoded.r[f] = Zero \/ \E j \in 1 .. n : decoded.r[f] = file[j].fields[f]
    BY <2>0 DEF SnapshotIInv, RestoredSoFar
  <2>13. \A f \in {"value", "expiry"} :
           \/ r[f] = new.fields[f]
           \/ new.fields[f] = Zero /\ \E j \in 1 .. n : r[f] = file[j].fields[f]
    BY <2>4, <2>12
  <2>14. Restored(n + 1)'
    <3>1. new = file'[n + 1] /\ (n + 1) - 1 = n
      BY <2>0, <2>2, <2>5
    <3>2. CASE target' = [target EXCEPT ![new.key] = r] /\ failedWrites' = failedWrites
      <4>1. target'[new.key] = r /\ new.key \notin failedWrites'
        BY <2>2, <2>3, <2>10, <3>2
      <4> QED BY <2>5, <2>13, <3>1, <4>1 DEF Restored
    <3>3. CASE failedWrites' = failedWrites \cup {new.key} /\ target' = target
      BY <2>10, <3>1, <3>3 DEF Restored
    <3> QED BY <2>1, <3>2, <3>3
  <2>15. \A i : i \in 1 .. n + 1 <=> i \in 1 .. n \/ i = n + 1
    BY <2>2
  <2>16. ASSUME NEW f \in {"value", "expiry"}
         PROVE  r[f] = Zero \/ \E j \in 1 .. n + 1 : r[f] = file[j].fields[f]
    BY <2>0, <2>4, <2>12, <2>15
  <2>17. ASSUME NEW k \in SnapshotKeys, target'[k] # Absent \/ k \in failedWrites'
         PROVE  \E i \in 1 .. n + 1 : file[i].key = k
    <3>1. CASE k = new.key
      BY <2>0, <2>15, <3>1
    <3>2. CASE k # new.key
      <4>1. target[k] # Absent \/ k \in failedWrites
        BY <2>1, <2>2, <2>17, <3>2
      <4>2. \E i \in 1 .. n : file[i].key = k
        BY <2>0, <4>1 DEF SnapshotIInv, RestoredSoFar
      <4> QED BY <2>15, <4>2
    <3> QED BY <3>1, <3>2
  <2>18. RestoredSoFar'
    <3>1. n + 1 <= Len(file')
      BY <2>2, <2>5
    <3>2. command' = "restore"
      BY <2>1
    <3>3. \A i \in 1 .. n + 1 : Restored(i)'
      BY <2>11, <2>14, <2>15
    <3> QED BY <2>5, <2>16, <2>17, <3>1, <3>2, <3>3 DEF RestoredSoFar
  <2> QED BY <2>6, <2>7, <2>18 DEF SnapshotIInv
<1> QED BY <1>1, <1>2

LEMMA SnapshotStepInv == SnapshotIInv /\ SnapshotNext => SnapshotIInv'
  BY SnapshotMoves, ListSourceInv, ReadAndSendInv, EncodeInv, RestoreInv DEF SnapshotNext

LEMMA SnapshotStutter == SnapshotIInv /\ UNCHANGED snapshotVars => SnapshotIInv'
<1> SUFFICES ASSUME SnapshotIInv, UNCHANGED snapshotVars PROVE SnapshotIInv'
  OBVIOUS
<1>1. SnapshotTypeOK' /\ WriterInStep' /\ KeysOnce'
  BY DEF snapshotVars, SnapshotIInv, SnapshotTypeOK, WriterInStep, KeysOnce
<1>2. RestoredSoFar'
  BY RestoreKept DEF snapshotVars, SnapshotIInv
<1> QED BY <1>1, <1>2 DEF SnapshotIInv

\* What a snapshot and a restore that have succeeded are worth.
LEMMA SnapshotIInvFaithful == SnapshotIInv => SnapshotComplete /\ RestoredAsSaved
<1> SUFFICES ASSUME SnapshotIInv PROVE SnapshotComplete /\ RestoredAsSaved
  OBVIOUS
<1>1. SnapshotComplete
  BY DEF SnapshotIInv, SnapshotTypeOK, WriterInStep, SnapshotComplete
<1>2. RestoredAsSaved
  BY DEF SnapshotIInv, RestoredSoFar, RestoredAsSaved
<1> QED BY <1>1, <1>2

=============================================================================
