--------------------------- MODULE LogViewProofs ---------------------------
(***************************************************************************)
(* Proofs about LogView, for any filters, page sizes and bounds: the pages *)
(* the backend cuts make up the log, nothing is skipped between two of     *)
(* them while the daemon writes, the list of pages leads to every          *)
(* neighbour, and what is shown when everything has arrived is what was    *)
(* asked for last.                                                         *)
(***************************************************************************)
EXTENDS LogView, TLAPS, WellFoundedInduction

----------------------------------------------------------------------------
(* A set of numbers has a least one.                                       *)
LEMMA LeastOf ==
  ASSUME NEW S, S \subseteq Nat, S # {}
  PROVE  \E x \in S : \A y \in S : x <= y
<1> DEFINE Less == OpToRel(<, Nat)
<1>1. PICK x \in S : \A y \in S : <<y, x>> \notin Less
  BY WFMin, NatLessThanWellFounded
<1>2. \A y \in Nat : y < x => <<y, x>> \in Less
  BY DEF OpToRel
<1> HIDE DEF Less
<1>3. \A y \in S : ~(y < x)
  BY <1>1, <1>2
<1> QED
  BY <1>3

(* What holds of 0 and is handed on holds of every number.                 *)
LEMMA HandedOn ==
  ASSUME NEW S, 0 \in S, \A n \in Nat : n \in S => n + 1 \in S
  PROVE  Nat \subseteq S
<1> SUFFICES ASSUME Nat \ S # {} PROVE FALSE
  OBVIOUS
<1>1. PICK n \in Nat \ S : \A m \in Nat \ S : n <= m
  BY LeastOf
<1>2. n # 0 /\ n - 1 \in Nat
  BY <1>1
<1>3. n - 1 \in S
  BY <1>1, <1>2
<1> QED
  BY <1>1, <1>2, <1>3

----------------------------------------------------------------------------
(* One turn of the loop that reads the file, and the loop.                 *)
Step(first, f, read, n) ==
  IF n < first THEN <<>>
  ELSE IF n \in f THEN Append(read[n - 1], n) ELSE read[n - 1]

Reads(first, last, f, read) == read = [n \in 0..last |-> Step(first, f, read, n)]

(* There is such a loop for a file of any length.                          *)
LEMMA Loops ==
  ASSUME NEW first \in Nat \ {0}, NEW f
  PROVE  \A last \in Nat : \E read : Reads(first, last, f, read)
<1> DEFINE S == {last \in Nat : \E read : Reads(first, last, f, read)}
<1>1. 0 \in S
  <2> DEFINE g == [n \in 0..0 |-> <<>>]
  <2>1. Reads(first, 0, f, g)
    BY DEF Reads, Step
  <2> QED
    BY <2>1
<1>2. ASSUME NEW last \in Nat, last \in S PROVE last + 1 \in S
  <2>1. PICK g : Reads(first, last, f, g)
    BY <1>2
  <2> DEFINE h == [n \in 0..last + 1 |-> IF n <= last THEN g[n] ELSE Step(first, f, g, n)]
  <2>2. ASSUME NEW n \in 0..last + 1 PROVE h[n] = Step(first, f, h, n)
    <3>1. Step(first, f, g, n) = Step(first, f, h, n)
      BY DEF Step
    <3> QED
      BY <2>1, <3>1 DEF Reads
  <2>3. Reads(first, last + 1, f, h)
    BY <2>2 DEF Reads
  <2> HIDE DEF h
  <2> QED
    BY <2>3
<1> HIDE DEF S
<1>3. Nat \subseteq S
  BY <1>1, <1>2, HandedOn
<1> QED
  BY <1>3 DEF S

(* The lines that pass are what the loop has at its end.                   *)
LEMMA PassingLoop ==
  ASSUME NEW first \in Nat \ {0}, NEW f, NEW last \in Nat
  PROVE  \E read : Reads(first, last, f, read) /\ Passing(first, last, f) = read[last]
<1> DEFINE Is(read) == read = [n \in 0..last |-> Step(first, f, read, n)]
           loop == CHOOSE read : Is(read)
<1>1. \E read : Is(read)
  BY Loops DEF Reads
<1>2. Is(loop)
  <2> HIDE DEF Is
  <2> QED BY <1>1
<1>3. Passing(first, last, f) = loop[last]
  BY DEF Passing, Step
<1> HIDE DEF loop
<1> QED
  BY <1>2, <1>3 DEF Reads
(* s has the lines of f from first to last, in the order of the file.       *)
Increasing(s) == \A i, j \in 1..Len(s) : i < j => s[i] < s[j]

LinesOf(s, first, last, f) ==
  /\ s \in Seq(Nat) /\ Increasing(s)
  /\ \A i \in 1..Len(s) : s[i] \in f /\ first <= s[i] /\ s[i] <= last
  /\ \A x \in f : x \in Nat /\ first <= x /\ x <= last => \E i \in 1..Len(s) : s[i] = x

(* A turn of the loop adds the next line, if it passes.                     *)
LEMMA LineAdded ==
  ASSUME NEW first \in Nat \ {0}, NEW n \in Nat, NEW f, NEW s, LinesOf(s, first, n, f)
  PROVE  LinesOf(IF n + 1 < first THEN <<>> ELSE IF n + 1 \in f THEN Append(s, n + 1) ELSE s,
                 first, n + 1, f)
<1>1. CASE n + 1 < first
  BY <1>1 DEF LinesOf, Increasing
<1>2. CASE n + 1 >= first /\ n + 1 \notin f
  BY <1>2 DEF LinesOf, Increasing
<1>3. CASE n + 1 >= first /\ n + 1 \in f
  <2> DEFINE t == Append(s, n + 1)
  <2>1. s \in Seq(Nat) /\ Len(s) \in Nat
    BY DEF LinesOf
  <2>2. /\ t \in Seq(Nat) /\ Len(t) = Len(s) + 1 /\ t[Len(t)] = n + 1
        /\ \A i \in 1..Len(s) : t[i] = s[i]
    BY <2>1
  <2> HIDE DEF t
  <2>3. \A i \in 1..Len(t) : i \in 1..Len(s) \/ i = Len(t)
    BY <2>1, <2>2
  <2>4. \A i \in 1..Len(s) : s[i] \in Nat /\ s[i] <= n
    BY <2>1 DEF LinesOf
  <2>5. Increasing(t)
    <3> SUFFICES ASSUME NEW i \in 1..Len(t), NEW j \in 1..Len(t), i < j PROVE t[i] < t[j]
      BY DEF Increasing
    <3>1. i \in 1..Len(s)
      BY <2>1, <2>2
    <3>2. CASE j \in 1..Len(s)
      BY <2>2, <3>1, <3>2 DEF LinesOf, Increasing
    <3>3. CASE j = Len(t)
      <4>1. t[i] <= n /\ t[j] = n + 1 /\ t[i] \in Nat
        BY <2>2, <2>4, <3>1, <3>3
      <4> QED
        BY <4>1
    <3> QED
      BY <2>3, <3>2, <3>3
  <2>6. \A i \in 1..Len(t) : t[i] \in f /\ first <= t[i] /\ t[i] <= n + 1
    <3> SUFFICES ASSUME NEW i \in 1..Len(t)
                 PROVE  t[i] \in f /\ first <= t[i] /\ t[i] <= n + 1
      OBVIOUS
    <3>1. CASE i \in 1..Len(s)
      <4>1. s[i] \in f /\ first <= s[i] /\ s[i] \in Nat /\ s[i] <= n
        BY <2>4, <3>1 DEF LinesOf
      <4>2. t[i] = s[i]
        BY <2>2, <3>1
      <4> QED
        BY <4>1, <4>2
    <3>2. CASE i = Len(t)
      BY <1>3, <2>2, <3>2
    <3> QED
      BY <2>3, <3>1, <3>2
  <2>7. ASSUME NEW x \in f, x \in Nat, first <= x, x <= n + 1
        PROVE  \E i \in 1..Len(t) : t[i] = x
    <3>1. CASE x = n + 1
      BY <2>1, <2>2, <3>1
    <3>2. CASE x <= n
      <4>1. PICK i \in 1..Len(s) : s[i] = x
        BY <2>7, <3>2 DEF LinesOf
      <4> QED
        BY <2>1, <2>2, <4>1
    <3> QED
      BY <2>7, <3>1, <3>2
  <2>8. LinesOf(t, first, n + 1, f)
    BY <2>2, <2>5, <2>6, <2>7 DEF LinesOf
  <2> QED
    BY <1>3, <2>8 DEF t
<1> QED
  BY <1>1, <1>2, <1>3

(* The filter lets through its lines of the file, in their order.           *)
LEMMA PassingLines ==
  ASSUME NEW first \in Nat \ {0}, NEW f, NEW last \in Nat
  PROVE  LinesOf(Passing(first, last, f), first, last, f)
<1>1. PICK read : Reads(first, last, f, read) /\ Passing(first, last, f) = read[last]
  BY PassingLoop
<1> DEFINE S == {n \in Nat : n <= last => LinesOf(read[n], first, n, f)}
<1>2. \A n \in 0..last : read[n] = Step(first, f, read, n)
  BY <1>1 DEF Reads
<1>3. 0 \in S
  <2>1. read[0] = <<>>
    BY <1>2 DEF Step
  <2>2. read[0] \in Seq(Nat) /\ 1..Len(read[0]) = {}
    BY <2>1
  <2>3. \A x \in Nat : ~(first <= x /\ x <= 0)
    OBVIOUS
  <2>4. LinesOf(read[0], first, 0, f)
    BY <2>2, <2>3 DEF LinesOf, Increasing
  <2> QED
    BY <2>4
<1>4. ASSUME NEW n \in Nat, n \in S PROVE n + 1 \in S
  <2> SUFFICES ASSUME n + 1 <= last PROVE LinesOf(read[n + 1], first, n + 1, f)
    OBVIOUS
  <2>1. LinesOf(read[n], first, n, f)
    BY <1>4
  <2>2. read[n + 1] = IF n + 1 < first THEN <<>>
                      ELSE IF n + 1 \in f THEN Append(read[n], n + 1) ELSE read[n]
    <3>1. n + 1 \in 0..last /\ (n + 1) - 1 = n
      OBVIOUS
    <3> QED
      BY <1>2, <3>1 DEF Step
  <2> QED
    BY <2>1, <2>2, LineAdded
<1> HIDE DEF S
<1>5. last \in S
  BY <1>3, <1>4, HandedOn
<1> QED
  BY <1>1, <1>5 DEF S

(* Of the lines that come later, counted from the newest, none is older.    *)
LEMMA LaterIsNewer ==
  ASSUME NEW f, NEW first \in Nat, NEW last \in Nat, NEW first2 \in Nat, NEW last2 \in Nat,
         first <= first2, last <= last2,
         NEW s, LinesOf(s, first, last, f), NEW t, LinesOf(t, first2, last2, f)
  PROVE  \A k \in Nat : k < Len(s) /\ k < Len(t) => s[Len(s) - k] <= t[Len(t) - k]
<1> DEFINE S == {k \in Nat : k < Len(s) /\ k < Len(t) => s[Len(s) - k] <= t[Len(t) - k]}
<1>1. /\ s \in Seq(Nat) /\ Len(s) \in Nat /\ t \in Seq(Nat) /\ Len(t) \in Nat
      /\ \A i \in 1..Len(s) : s[i] \in Nat /\ s[i] \in f /\ s[i] <= last
      /\ \A i \in 1..Len(t) : t[i] \in Nat /\ first2 <= t[i]
  BY DEF LinesOf
<1>2. ASSUME NEW i \in 1..Len(s), s[i] >= first2
      PROVE  \E j \in 1..Len(t) : t[j] = s[i]
  <2>1. s[i] \in f /\ s[i] \in Nat /\ s[i] <= last2
    BY <1>1
  <2> QED
    BY <1>2, <2>1 DEF LinesOf
<1> DEFINE S1 == 1..Len(s)
           T1 == 1..Len(t)
<1>0. /\ \A i, j \in S1 : i < j => s[i] < s[j]
      /\ \A i, j \in T1 : i < j => t[i] < t[j]
  BY DEF LinesOf, Increasing
<1>0a. /\ \A i \in S1 : i \in Nat /\ s[i] \in Nat
       /\ \A i \in T1 : i \in Nat /\ t[i] \in Nat /\ first2 <= t[i]
  BY <1>1
<1>3. ASSUME NEW i \in 1..Len(t), NEW j \in 1..Len(t), t[i] < t[j] PROVE i < j
  <2>1. i \in T1 /\ j \in T1
    OBVIOUS
  <2> HIDE DEF T1
  <2>2. i \in Nat /\ j \in Nat /\ t[i] \in Nat /\ t[j] \in Nat
    BY <1>0a, <2>1
  <2>3. j < i => t[j] < t[i]
    BY <1>0, <2>1
  <2> QED
    BY <1>3, <2>2, <2>3
<1>4. ASSUME NEW i \in 1..Len(t), NEW j \in 1..Len(t), i <= j PROVE t[i] <= t[j]
  <2>1. i \in T1 /\ j \in T1
    OBVIOUS
  <2> HIDE DEF T1
  <2>2. i \in Nat /\ j \in Nat /\ t[i] \in Nat /\ t[j] \in Nat
    BY <1>0a, <2>1
  <2>3. i < j => t[i] < t[j]
    BY <1>0, <2>1
  <2> QED
    BY <1>4, <2>2, <2>3
<1>5. 0 \in S
  <2> SUFFICES ASSUME 0 < Len(s), 0 < Len(t) PROVE s[Len(s)] <= t[Len(t)]
    BY <1>1
  <2>1. Len(s) \in 1..Len(s) /\ Len(t) \in 1..Len(t)
    BY <1>1
  <2>1a. s[Len(s)] \in Nat /\ t[Len(t)] \in Nat /\ first2 <= t[Len(t)]
    BY <1>0a, <2>1
  <2>2. CASE s[Len(s)] < first2
    BY <2>1a, <2>2
  <2>3. CASE s[Len(s)] >= first2
    <3>1. PICK j \in 1..Len(t) : t[j] = s[Len(s)]
      BY <1>2, <2>1, <2>3
    <3>2. j <= Len(t)
      BY <1>1
    <3>3. t[j] <= t[Len(t)]
      BY <1>4, <2>1, <3>2
    <3> QED
      BY <3>1, <3>3
  <2> QED
    BY <2>1a, <2>2, <2>3
<1>6. ASSUME NEW a \in 1..Len(s), NEW b \in 1..Len(t), s[a] <= t[b],
             NEW a1 \in 1..Len(s), NEW b1 \in 1..Len(t), a1 + 1 = a, b1 + 1 = b
      PROVE  s[a1] <= t[b1]
  <2>1. s[a1] < s[a]
    <3>1. \A i, j \in 1..Len(s) : i < j => s[i] < s[j]
      BY DEF LinesOf, Increasing
    <3>2. a1 < a
      BY <1>6, <1>1
    <3> QED
      BY <3>1, <3>2
  <2>2. /\ s[a1] \in Nat /\ s[a] \in Nat /\ t[b] \in Nat /\ t[b1] \in Nat
        /\ first2 <= t[b1]
    BY <1>1
  <2>3. CASE s[a1] < first2
    BY <2>2, <2>3
  <2>4. CASE s[a1] >= first2
    <3>1. PICK m \in 1..Len(t) : t[m] = s[a1]
      BY <1>2, <2>4
    <3>2. t[m] < t[b]
      <4>1. s[a1] \in Nat /\ s[a] \in Nat /\ t[b] \in Nat
        BY <2>2
      <4>1a. s[a] <= t[b]
        BY <1>6
      <4>2. s[a1] < t[b]
        <5>1. \A x, y, z \in Nat : x < y /\ y <= z => x < z
          OBVIOUS
        <5> QED
          BY <2>1, <4>1, <4>1a, <5>1, Zenon
      <4>3. t[m] = s[a1]
        BY <3>1
      <4> QED
        BY <4>2, <4>3, Zenon
    <3>3. m < b
      BY <1>3, <3>2
    <3>4. m <= b1
      BY <1>1, <1>6, <3>3
    <3>5. t[m] <= t[b1]
      BY <1>4, <3>4
    <3> QED
      BY <3>1, <3>5
  <2>5. s[a1] < first2 \/ s[a1] >= first2
    BY <2>2
  <2> QED
    BY <2>3, <2>4, <2>5
<1>7. ASSUME NEW k \in Nat, k \in S PROVE k + 1 \in S
  <2> SUFFICES ASSUME k + 1 < Len(s), k + 1 < Len(t)
               PROVE  s[Len(s) - (k + 1)] <= t[Len(t) - (k + 1)]
    OBVIOUS
  <2>1. s[Len(s) - k] <= t[Len(t) - k]
    BY <1>1, <1>7
  <2>2. /\ Len(s) - k \in 1..Len(s) /\ Len(s) - (k + 1) \in 1..Len(s)
        /\ Len(t) - k \in 1..Len(t) /\ Len(t) - (k + 1) \in 1..Len(t)
        /\ (Len(s) - (k + 1)) + 1 = Len(s) - k /\ (Len(t) - (k + 1)) + 1 = Len(t) - k
    BY <1>1
  <2> QED
    BY <1>6, <2>1, <2>2
<1> HIDE DEF S
<1>8. Nat \subseteq S
  BY <1>5, <1>7, HandedOn
<1> QED
  BY <1>8 DEF S
----------------------------------------------------------------------------
(* The lines of page p of n lines lie after Bottom and up to Top. *)
Top(n, p, s)    == NotBelowZero(n - p * s)
Bottom(n, p, s) == NotBelowZero(n - (p + 1) * s)

(* The number of pages is the least that has room for all lines. *)
LEMMA PagesNumberRoundsUp ==
    ASSUME NEW n \in Nat, NEW s \in Nat \ {0}
    PROVE  LET N == PagesNumber(n, s)
           IN  /\ N \in Nat /\ n <= N * s
               /\ N > 0 => (N - 1) * s < n
<1> DEFINE q == n \div s
           r == n % s
<1>1. q \in Nat /\ r \in 0..(s - 1) /\ n = q * s + r
  <2>1. q \in Int /\ r \in 0..(s - 1) /\ n = s * q + r
    OBVIOUS
  <2>2. q >= 0
    OBVIOUS
  <2> QED
    BY <2>1, <2>2
<1> HIDE DEF q, r
<1>2. PagesNumber(n, s) = q + (IF q * s < n THEN 1 ELSE 0)
  BY DEF PagesNumber, q
<1>3. CASE q * s < n
  <2>1. PagesNumber(n, s) = q + 1
    BY <1>1, <1>2, <1>3
  <2>2. (q + 1) * s = q * s + s /\ (q + 1) - 1 = q
    BY <1>1
  <2>3. q * s \in Int
    BY <1>1
  <2> QED
    BY <1>1, <1>3, <2>1, <2>2, <2>3
<1>4. CASE ~(q * s < n)
  <2>1. PagesNumber(n, s) = q
    BY <1>1, <1>2, <1>4
  <2>2. (q - 1) * s = q * s - s /\ q * s \in Int
    BY <1>1
  <2>3. q * s = n
    BY <1>1, <1>4, <2>2
  <2> QED
    BY <1>1, <2>1, <2>2, <2>3
<1> QED
  BY <1>3, <1>4

(* The pages of LogReader::GetByPage tile the lines that the filter lets *)
(* through: the first ends with the newest line, each begins where the next *)
(* ends, all but the last are full, the last begins with the oldest line, and *)
(* a page beyond it is empty. *)
THEOREM PagesTile ==
    ASSUME NEW n \in Nat, NEW s \in Nat \ {0}
    PROVE  LET N == PagesNumber(n, s)
           IN  /\ Top(n, 0, s) = n
               /\ \A p \in Nat : Bottom(n, p, s) = Top(n, p + 1, s)
               /\ \A p \in Nat : p + 1 < N => Top(n, p, s) - Bottom(n, p, s) = s
               /\ N > 0 => Bottom(n, N - 1, s) = 0
               /\ \A p \in Nat : p >= N => Top(n, p, s) = 0
<1> DEFINE N == PagesNumber(n, s)
<1>1. N \in Nat /\ n <= N * s /\ (N > 0 => (N - 1) * s < n)
  BY PagesNumberRoundsUp
<1> HIDE DEF N
<1>2. Top(n, 0, s) = n
  BY DEF Top, NotBelowZero
<1>3. \A p \in Nat : Bottom(n, p, s) = Top(n, p + 1, s)
  BY DEF Top, Bottom
<1>4. ASSUME NEW p \in Nat, p + 1 < N
      PROVE  Top(n, p, s) - Bottom(n, p, s) = s
  <2>1. (p + 1) * s <= (N - 1) * s
    BY <1>1, <1>4
  <2>2. (p + 1) * s = p * s + s /\ p * s \in Nat
    OBVIOUS
  <2>3. (N - 1) * s \in Int /\ (N - 1) * s < n
    BY <1>1, <1>4
  <2>4. (p + 1) * s < n
    BY <2>1, <2>2, <2>3
  <2> QED
    BY <2>2, <2>4 DEF Top, Bottom, NotBelowZero
<1>5. ASSUME N > 0 PROVE Bottom(n, N - 1, s) = 0
  <2>1. (N - 1) + 1 = N /\ N * s \in Int
    BY <1>1
  <2> QED
    BY <1>1, <2>1 DEF Bottom, NotBelowZero
<1>6. ASSUME NEW p \in Nat, p >= N PROVE Top(n, p, s) = 0
  <2>1. N * s <= p * s /\ N * s \in Int /\ p * s \in Int
    BY <1>1, <1>6
  <2> QED
    BY <1>1, <2>1 DEF Top, NotBelowZero
<1> QED
  BY <1>2, <1>3, <1>4, <1>5, <1>6 DEF N
(* Sequences that join one more each.                                       *)
Joins(seqs, N, join) ==
  join = [i \in 1..N |-> IF i = 1 THEN seqs[i] ELSE join[i - 1] \o seqs[i]]

(* They exist for any number of sequences.                                  *)
LEMMA JoinsExist ==
  ASSUME NEW seqs
  PROVE  \A N \in Nat : \E join : Joins(seqs, N, join)
<1> DEFINE S == {N \in Nat : \E join : Joins(seqs, N, join)}
<1>1. 0 \in S
  <2> DEFINE g == [i \in 1..0 |-> <<>>]
  <2>1. Joins(seqs, 0, g)
    BY DEF Joins
  <2> QED
    BY <2>1
<1>2. ASSUME NEW N \in Nat, N \in S PROVE N + 1 \in S
  <2>1. PICK g : Joins(seqs, N, g)
    BY <1>2
  <2>0. \A i \in 1..N : g[i] = IF i = 1 THEN seqs[i] ELSE g[i - 1] \o seqs[i]
    BY <2>1 DEF Joins
  <2> DEFINE h == [i \in 1..N + 1 |-> IF i <= N THEN g[i]
                                      ELSE IF i = 1 THEN seqs[i] ELSE g[i - 1] \o seqs[i]]
  <2>2. ASSUME NEW i \in 1..N + 1
        PROVE  h[i] = IF i = 1 THEN seqs[i] ELSE h[i - 1] \o seqs[i]
    <3>1. i # 1 => h[i - 1] = g[i - 1]
      OBVIOUS
    <3>2. i <= N => g[i] = IF i = 1 THEN seqs[i] ELSE g[i - 1] \o seqs[i]
      BY <2>0
    <3> QED
      BY <3>1, <3>2
  <2>3. Joins(seqs, N + 1, h)
    BY <2>2 DEF Joins
  <2> HIDE DEF h
  <2> QED
    BY <2>3
<1> HIDE DEF S
<1>3. Nat \subseteq S
  BY <1>1, <1>2, HandedOn
<1> QED
  BY <1>3 DEF S

(* FlattenSeq is the last of them.                                          *)
LEMMA FlattenJoins ==
  ASSUME NEW N \in Nat \ {0}, NEW seqs, Len(seqs) = N
  PROVE  \E join : Joins(seqs, N, join) /\ FlattenSeq(seqs) = join[N]
<1> DEFINE Is(join) == join = [i \in 1..N |-> IF i = 1 THEN seqs[i] ELSE join[i - 1] \o seqs[i]]
           loop == CHOOSE join : Is(join)
<1>1. \E join : Is(join)
  <2>1. \E join : Joins(seqs, N, join)
    BY JoinsExist
  <2> QED
    BY <2>1 DEF Joins
<1>2. Is(loop)
  <2> HIDE DEF Is
  <2> QED BY <1>1
<1>3. FlattenSeq(seqs) = loop[N]
  BY DEF FlattenSeq
<1> HIDE DEF loop
<1> QED
  BY <1>2, <1>3 DEF Joins

(* Two pieces of a sequence that meet make one.                             *)
LEMMA PiecesMeet ==
  ASSUME NEW S, NEW all \in Seq(S), NEW a \in Nat, NEW b \in Nat, a <= b, b <= Len(all)
  PROVE  SubSeq(all, 1, a) \o SubSeq(all, a + 1, b) = SubSeq(all, 1, b)
<1> DEFINE l == SubSeq(all, 1, a)
           r == SubSeq(all, a + 1, b)
           m == SubSeq(all, 1, b)
<1>1. l \in Seq(S) /\ Len(l) = a /\ \A i \in 1..a : l[i] = all[i]
  OBVIOUS
<1>2. r \in Seq(S) /\ Len(r) = b - a /\ \A i \in 1..(b - a) : r[i] = all[a + i]
  OBVIOUS
<1>3. m \in Seq(S) /\ Len(m) = b /\ \A i \in 1..b : m[i] = all[i]
  OBVIOUS
<1> HIDE DEF l, r, m
<1>4. l \o r \in Seq(S) /\ Len(l \o r) = b
  <2>1. l \o r \in Seq(S) /\ Len(l \o r) = Len(l) + Len(r)
    <3>1. l \in Seq(S) /\ r \in Seq(S)
      BY <1>1, <1>2
    <3> QED
      BY <3>1
  <2>2. a + (b - a) = b
    OBVIOUS
  <2>3. Len(l) + Len(r) = b
    BY <1>1, <1>2, <2>2
  <2> QED
    BY <2>1, <2>3
<1>5. ASSUME NEW i \in 1..b PROVE (l \o r)[i] = m[i]
  <2>1. CASE i <= a
    BY <1>1, <1>2, <1>3, <2>1
  <2>2. CASE i > a
    <3>1. (l \o r)[i] = r[i - a]
      BY <1>1, <1>2, <2>2
    <3>2. i - a \in 1..(b - a) /\ a + (i - a) = i
      BY <2>2
    <3> QED
      BY <1>2, <1>3, <3>1, <3>2
  <2>3. i <= a \/ i > a
    OBVIOUS
  <2> QED
    BY <2>1, <2>2, <2>3
<1> QED
  BY <1>3, <1>4, <1>5 DEF l, r, m

(* What PageOf cuts out is a piece of the lines.                            *)
LEMMA PageIsAPiece ==
  ASSUME NEW S, NEW all \in Seq(S), NEW p \in Nat, NEW s \in Nat \ {0}
  PROVE  LET n == Len(all)
         IN  /\ PageOf(all, p, s) = SubSeq(all, Bottom(n, p, s) + 1, Top(n, p, s))
             /\ Bottom(n, p, s) \in Nat /\ Top(n, p, s) \in Nat
             /\ Bottom(n, p, s) <= Top(n, p, s) /\ Top(n, p, s) <= n
             /\ PageOf(all, p, s) \in Seq(S)
             /\ Len(PageOf(all, p, s)) = Top(n, p, s) - Bottom(n, p, s)
             /\ \A i \in 1..Len(PageOf(all, p, s)) :
                   PageOf(all, p, s)[i] = all[Bottom(n, p, s) + i]
<1> DEFINE n == Len(all)
           b == Bottom(n, p, s)
           t == Top(n, p, s)
<1>1. PageOf(all, p, s) = SubSeq(all, b + 1, t)
  BY DEF PageOf, Bottom, Top
<1>2. b \in Nat /\ t \in Nat /\ b <= t /\ t <= n
  <2>1. p * s \in Nat /\ (p + 1) * s = p * s + s /\ n \in Nat
    OBVIOUS
  <2> QED
    BY <2>1 DEF Bottom, Top, NotBelowZero
<1> HIDE DEF b, t
<1>3. /\ SubSeq(all, b + 1, t) \in Seq(S) /\ Len(SubSeq(all, b + 1, t)) = t - b
      /\ \A i \in 1..(t - b) : SubSeq(all, b + 1, t)[i] = all[b + i]
  BY <1>2
<1> QED
  BY <1>1, <1>2, <1>3 DEF b, t

(* From the oldest page to the newest they join to all the lines.           *)
LEMMA PagesJoin ==
  ASSUME NEW S, NEW all \in Seq(S), NEW s \in Nat \ {0}
  PROVE  LET N == PagesNumber(Len(all), s)
         IN  /\ FlattenSeq([i \in 1..N |-> PageOf(all, N - i, s)]) = all
             /\ \A p \in 0..(N - 2) : Len(PageOf(all, p, s)) = s
             /\ PageOf(all, N, s) = <<>>
<1> DEFINE n == Len(all)
           N == PagesNumber(n, s)
           pages == [i \in 1..N |-> PageOf(all, N - i, s)]
<1>0. n \in Nat
  OBVIOUS
<1>1. /\ N \in Nat /\ n <= N * s
      /\ Top(n, 0, s) = n
      /\ \A p \in Nat : Bottom(n, p, s) = Top(n, p + 1, s)
      /\ \A p \in Nat : p + 1 < N => Top(n, p, s) - Bottom(n, p, s) = s
      /\ N > 0 => Bottom(n, N - 1, s) = 0
      /\ \A p \in Nat : p >= N => Top(n, p, s) = 0
  BY <1>0, PagesTile, PagesNumberRoundsUp
<1> HIDE DEF N
<1>2. \A p \in 0..(N - 2) : Len(PageOf(all, p, s)) = s
  <2> TAKE p \in 0..(N - 2)
  <2>1. p \in Nat /\ p + 1 < N
    BY <1>1
  <2>2. Len(PageOf(all, p, s)) = Top(n, p, s) - Bottom(n, p, s)
    BY <2>1, PageIsAPiece
  <2> QED
    BY <1>1, <2>1, <2>2
<1>3. PageOf(all, N, s) = <<>>
  <2>1. Top(n, N, s) = 0
    BY <1>1
  <2>2. /\ PageOf(all, N, s) \in Seq(S)
        /\ Len(PageOf(all, N, s)) = Top(n, N, s) - Bottom(n, N, s)
        /\ Bottom(n, N, s) \in Nat /\ Bottom(n, N, s) <= Top(n, N, s)
    BY <1>1, PageIsAPiece
  <2>3. Len(PageOf(all, N, s)) = 0
    BY <2>1, <2>2
  <2> QED
    BY <2>2, <2>3
<1>4. CASE N = 0
  <2>1. n = 0
    BY <1>0, <1>1, <1>4
  <2>2. all = <<>>
    BY <2>1
  <2>3. pages = <<>> /\ Len(pages) = 0
    BY <1>4
  <2>4. FlattenSeq(pages) = pages
    BY <2>3 DEF FlattenSeq
  <2> QED
    BY <1>2, <1>3, <2>2, <2>3, <2>4 DEF N
<1>5. CASE N > 0
  <2>1. pages \in Seq(Seq(S)) /\ Len(pages) = N
    <3>1. \A i \in 1..N : N - i \in Nat /\ PageOf(all, N - i, s) \in Seq(S)
      BY <1>1, PageIsAPiece
    <3> QED
      BY <1>1, <3>1
  <2> HIDE DEF pages
  <2>2. PICK join : Joins(pages, N, join) /\ FlattenSeq(pages) = join[N]
    BY <1>1, <1>5, <2>1, FlattenJoins
  <2>3. \A i \in 1..N : join[i] = IF i = 1 THEN pages[i] ELSE join[i - 1] \o pages[i]
    BY <2>2 DEF Joins
  <2> DEFINE Up(i) == Top(n, N - i, s)
  <2>4. ASSUME NEW i \in 1..N
        PROVE  /\ pages[i] = SubSeq(all, Up(i - 1) + 1, Up(i))
               /\ Up(i - 1) \in Nat /\ Up(i) \in Nat /\ Up(i - 1) <= Up(i) /\ Up(i) <= n
    <3>1. N - i \in Nat /\ (N - i) + 1 = N - (i - 1)
      BY <1>1
    <3>2. Bottom(n, N - i, s) = Up(i - 1)
      BY <1>1, <3>1
    <3>3. pages[i] = PageOf(all, N - i, s)
      BY DEF pages
    <3>4. PICK p \in Nat : p = N - i
      BY <3>1
    <3>5. /\ PageOf(all, p, s) = SubSeq(all, Bottom(n, p, s) + 1, Top(n, p, s))
          /\ Bottom(n, p, s) \in Nat /\ Top(n, p, s) \in Nat
          /\ Bottom(n, p, s) <= Top(n, p, s) /\ Top(n, p, s) <= n
      BY PageIsAPiece
    <3> QED
      BY <3>2, <3>3, <3>4, <3>5
  <2> DEFINE T == {i \in Nat : i + 1 <= N => join[i + 1] = SubSeq(all, 1, Up(i + 1))}
  <2>5. 0 \in T
    <3>1. 1 \in 1..N /\ Up(0) = 0
      BY <1>1, <1>5
    <3>2. join[1] = pages[1] /\ pages[1] = SubSeq(all, Up(0) + 1, Up(1))
      <4>1. 1 - 1 = 0
        OBVIOUS
      <4> QED
        BY <2>3, <2>4, <3>1, <4>1
    <3> HIDE DEF Up
    <3> QED
      BY <3>1, <3>2
  <2>6. ASSUME NEW i \in Nat, i \in T PROVE i + 1 \in T
    <3> SUFFICES ASSUME (i + 1) + 1 <= N
                 PROVE  join[(i + 1) + 1] = SubSeq(all, 1, Up((i + 1) + 1))
      OBVIOUS
    <3>1. /\ i + 1 \in 1..N /\ (i + 1) + 1 \in 1..N
          /\ (i + 1) + 1 # 1 /\ ((i + 1) + 1) - 1 = i + 1
      BY <1>1
    <3>2. join[i + 1] = SubSeq(all, 1, Up(i + 1))
      BY <2>6, <3>1
    <3> DEFINE j == (i + 1) + 1
    <3>3. j \in 1..N /\ j # 1 /\ j - 1 = i + 1
      BY <3>1
    <3> HIDE DEF Up, j
    <3>4. join[j] = join[i + 1] \o pages[j]
      BY <2>3, <3>3
    <3>5. /\ pages[j] = SubSeq(all, Up(i + 1) + 1, Up(j))
          /\ Up(i + 1) \in Nat /\ Up(j) \in Nat /\ Up(i + 1) <= Up(j) /\ Up(j) <= n
      BY <2>4, <3>3
    <3>6. join[j] = SubSeq(all, 1, Up(j))
      BY <3>2, <3>4, <3>5, PiecesMeet
    <3> QED
      BY <3>6 DEF j
  <2> HIDE DEF T
  <2>7. Nat \subseteq T
    BY <2>5, <2>6, HandedOn
  <2>8. N - 1 \in T /\ (N - 1) + 1 = N
    BY <1>1, <1>5, <2>7
  <2>9. join[N] = SubSeq(all, 1, Up(N))
    BY <1>1, <2>8 DEF T
  <2>10. Up(N) = n
    BY <1>1
  <2>11. SubSeq(all, 1, n) = all
    OBVIOUS
  <2> QED
    BY <1>2, <1>3, <2>2, <2>9, <2>10, <2>11 DEF N, pages
<1> QED
  BY <1>1, <1>4, <1>5
----------------------------------------------------------------------------
(* s is a sequence of something. *)
IsSequence(s) == \E S : s \in Seq(S)

LEMMA SequenceSteps ==
    ASSUME NEW s, IsSequence(s), NEW x
    PROVE  /\ IsSequence(Append(s, x))
           /\ Len(Append(s, x)) = Len(s) + 1 /\ Append(s, x)[Len(s) + 1] = x
           /\ s # <<>> =>
                 /\ IsSequence(Tail(s)) /\ Head(s) = s[1]
                 /\ Len(Tail(s)) = Len(s) - 1
                 /\ Tail(s) # <<>> => Tail(s)[Len(Tail(s))] = s[Len(s)]
                 /\ Tail(s) = <<>> => Len(s) = 1
<1>1. PICK S : s \in Seq(S)
  BY DEF IsSequence
<1> DEFINE T == S \cup {x}
<1>2. s \in Seq(T) /\ x \in T
  BY <1>1
<1> HIDE DEF T
<1>3. Append(s, x) \in Seq(T) /\ Len(Append(s, x)) = Len(s) + 1
      /\ Append(s, x)[Len(s) + 1] = x
  BY <1>2
<1>4. ASSUME s # <<>>
      PROVE  /\ Tail(s) \in Seq(T) /\ Head(s) = s[1]
             /\ Len(Tail(s)) = Len(s) - 1
             /\ Tail(s) # <<>> => Tail(s)[Len(Tail(s))] = s[Len(s)]
             /\ Tail(s) = <<>> => Len(s) = 1
  <2>1. Tail(s) \in Seq(T) /\ Head(s) = s[1] /\ Len(Tail(s)) = Len(s) - 1
    BY <1>2, <1>4
  <2>2. \A i \in 1..Len(Tail(s)) : Tail(s)[i] = s[i + 1]
    BY <1>2, <1>4
  <2>3. Len(s) \in Nat /\ Len(s) > 0
    BY <1>2, <1>4
  <2>4. Tail(s) # <<>> => Len(Tail(s)) \in 1..Len(Tail(s))
    BY <2>1
  <2>5. Tail(s) = <<>> => Len(Tail(s)) = 0
    <3>1. Len(<<>>) = 0
      OBVIOUS
    <3> QED
      BY <3>1, Zenon
  <2> QED
    BY <2>1, <2>2, <2>3, <2>4, <2>5
<1> QED
  BY <1>3, <1>4 DEF IsSequence

(* The newest request under way has the filter of the page: it is the last *)
(* that waits for the backend or, when none does, the last answer. *)
NewestIsAsked ==
    /\ IsSequence(asked) /\ IsSequence(answers)
    /\ asked # <<>> => asked[Len(asked)].filter = filter
    /\ asked = <<>> /\ answers # <<>> =>
          \/ IsFailure(answers[Len(answers)])
          \/ answers[Len(answers)].filter = filter

IInv == NewestIsAsked /\ ShownIsAsked

LEMMA Initially == Init => IInv
<1> SUFFICES ASSUME Init PROVE IInv
  OBVIOUS
<1>1. IsSequence(<<>>)
  BY DEF IsSequence
<1>2. NewestIsAsked
  BY <1>1 DEF Init, NewestIsAsked
<1>3. shown.filter = filter /\ shown.page = at
  BY DEF Init, GetByPage
<1>4. ("prev" \in enabled <=> at > 0) /\ ("next" \in enabled <=> at + 1 < shown.total)
  BY <1>3 DEF Init, Opened, Buttons, Turning
<1> QED
  BY <1>2, <1>3, <1>4 DEF IInv, ShownIsAsked

(* A request that is sent becomes the newest one. *)
LEMMA AskKeeps ==
    ASSUME NEW p, NEW f, NEW s, IInv, Ask(p, f, s)
    PROVE  IInv'
<1>1. asked' # <<>>
  BY SequenceSteps DEF IInv, NewestIsAsked, Ask
<1>2. NewestIsAsked'
  BY <1>1, SequenceSteps DEF IInv, NewestIsAsked, Ask
<1> QED
  BY <1>1, <1>2 DEF IInv, ShownIsAsked, Quiet

LEMMA JumpKeeps ==
    ASSUME NEW n, NEW s, IInv, JumpToPage(n, s)
    PROVE  IInv'
<1>1. CASE n >= 1 /\ n <= shown.total
  BY <1>1, AskKeeps DEF JumpToPage
<1>2. CASE ~(n >= 1 /\ n <= shown.total)
  BY <1>2 DEF JumpToPage, IInv, NewestIsAsked, ShownIsAsked, Quiet, server, IsFailure
<1> QED
  BY <1>1, <1>2

LEMMA ClickKeeps == ASSUME IInv, Click PROVE IInv'
<1>1. CASE NextPage \/ PrevPage \/ Search
  BY <1>1, AskKeeps DEF NextPage, PrevPage, Turn, Search, UpdateLogData
<1>2. CASE JumpBack \/ JumpForward
  BY <1>2, JumpKeeps DEF JumpBack, JumpForward
<1>3. CASE \E n \in 1..shown.total : EnterPage(n) \/ ClickPage(n)
  BY <1>3, JumpKeeps DEF EnterPage, ClickPage
<1>4. CASE \E s \in Sizes : EnterSize(s)
  BY <1>4, JumpKeeps DEF EnterSize
<1> QED
  BY <1>1, <1>2, <1>3, <1>4 DEF Click

(* The backend answers with the filter of the request. *)
LEMMA BackendKeeps == ASSUME IInv, ReadLog \/ Fail PROVE IInv'
<1> DEFINE Answers(a) == /\ answers' = Append(answers, a)
                         /\ IsFailure(a) \/ a.filter = Head(asked).filter
<1>1. /\ asked # <<>> /\ asked' = Tail(asked) /\ UNCHANGED filter
      /\ \E a : Answers(a)
  <2>1. CASE ReadLog
    <3>1. GetByPage(Head(asked)).filter = Head(asked).filter
      BY DEF GetByPage
    <3>2. Answers(GetByPage(Head(asked)))
      BY <2>1, <3>1 DEF ReadLog
    <3> HIDE DEF Answers
    <3> QED
      BY <2>1, <3>2 DEF ReadLog, page
  <2>2. CASE Fail
    <3>1. IsFailure(Failure)
      BY DEF IsFailure, Failure
    <3>2. Answers(Failure)
      BY <2>2, <3>1 DEF Fail
    <3> HIDE DEF Answers
    <3> QED
      BY <2>2, <3>2 DEF Fail, page
  <2> QED
    BY <2>1, <2>2
<1>2. PICK a : /\ answers' = Append(answers, a)
               /\ IsFailure(a) \/ a.filter = Head(asked).filter
  BY <1>1
<1>3. IsSequence(asked') /\ IsSequence(answers')
  BY <1>1, <1>2, SequenceSteps DEF IInv, NewestIsAsked
<1>4. asked' # <<>> => asked'[Len(asked')].filter = filter'
  BY <1>1, SequenceSteps DEF IInv, NewestIsAsked
<1>5. answers' # <<>> /\ answers'[Len(answers')] = a
  BY <1>2, SequenceSteps DEF IInv, NewestIsAsked
<1>6. ASSUME asked' = <<>>
      PROVE  IsFailure(a) \/ a.filter = filter'
  BY <1>1, <1>2, <1>6, SequenceSteps DEF IInv, NewestIsAsked
<1>7. NewestIsAsked'
  BY <1>3, <1>4, <1>5, <1>6 DEF NewestIsAsked, IsFailure
<1> QED
  BY <1>5, <1>7 DEF IInv, ShownIsAsked, Quiet

(* The last answer to arrive is the newest; what it shows fits the buttons. *)
LEMMA ShowKeeps == ASSUME IInv, SetLogData PROVE IInv'
<1> DEFINE a == Head(answers)
<1>1. /\ answers # <<>> /\ answers' = Tail(answers)
      /\ asked' = asked /\ filter' = filter
  BY DEF SetLogData
<1>2. NewestIsAsked'
  BY <1>1, SequenceSteps DEF IInv, NewestIsAsked, IsFailure
<1>3. ASSUME Quiet', ~failed'
      PROVE  /\ shown'.filter = filter' /\ shown'.page = at'
             /\ "prev" \in enabled' <=> at' > 0
             /\ "next" \in enabled' <=> at' + 1 < shown'.total
  <2>1. ~IsFailure(a) /\ shown' = a /\ at' = a.page /\ enabled' = Opened(a)
    BY <1>3 DEF SetLogData
  <2>2. asked = <<>> /\ Tail(answers) = <<>>
    BY <1>1, <1>3 DEF Quiet
  <2>3. a = answers[Len(answers)]
    BY <1>1, <2>2, SequenceSteps DEF IInv, NewestIsAsked
  <2>4. a.filter = filter
    BY <1>1, <2>1, <2>2, <2>3 DEF IInv, NewestIsAsked
  <2>5. /\ "prev" \in Opened(a) <=> a.page > 0
        /\ "next" \in Opened(a) <=> a.page + 1 < a.total
    BY DEF Opened, Buttons, Turning
  <2> QED
    BY <1>1, <2>1, <2>4, <2>5
<1> QED
  BY <1>2, <1>3 DEF IInv, ShownIsAsked

(* The inductive invariant of requests and answers, for any bounds. *)
THEOREM ViewInvariance == Spec => []IInv
<1>1. Init => IInv
  BY Initially
<1>2. IInv /\ [Next]_vars => IInv'
  <2> SUFFICES ASSUME IInv, [Next]_vars PROVE IInv'
    OBVIOUS
  <2>1. CASE Click
    BY <2>1, ClickKeeps
  <2>2. CASE ReadLog \/ Fail
    BY <2>2, BackendKeeps
  <2>3. CASE SetLogData
    BY <2>3, ShowKeeps
  <2>4. CASE Write \/ Rotate \/ UNCHANGED vars
    <3>1. UNCHANGED <<page, server>>
      BY <2>4 DEF Write, Rotate, vars
    <3> QED
      BY <3>1 DEF page, server, IInv, NewestIsAsked, ShownIsAsked, Quiet, IsFailure
  <2> QED
    BY <2>1, <2>2, <2>3, <2>4 DEF Next
<1> QED
  BY <1>1, <1>2, PTL DEF Spec

(* When every answer has arrived, the page of the log on display belongs to *)
(* the filter and the number beside it and the buttons fit it, whatever the *)
(* order of clicks, answers, failures and writes. *)
THEOREM WhatIsShownWasAsked == Spec => []ShownIsAsked
BY ViewInvariance, PTL DEF IInv
----------------------------------------------------------------------------
(* The file, as the invariants see it.                                      *)
File == [first : Nat \ {0}, last : Nat]
Older(L, M) == L.first <= M.first /\ L.last <= M.last

(* Every answer was cut out of the log as it was at some moment, and the    *)
(* moments come in the order of the answers.                                *)
Fits(a, L) == a.lines = PageOf(Passing(L.first, L.last, a.filter), a.page, a.size)

History(H) ==
    /\ \A i \in 0..Len(answers) : H[i] \in File /\ Older(H[i], log)
    /\ \A i, j \in 0..Len(answers) : i <= j => Older(H[i], H[j])
    /\ Fits(shown, H[0])
    /\ \A i \in 1..Len(answers) : ~IsFailure(answers[i]) => Fits(answers[i], H[i])

GoodLog == log \in File /\ log.last <= MaxLines

TInv == TypeOK /\ GoodLog /\ \E H : History(H)

(* The log is one that the lemmas about the filter speak of.                *)
LEMMA LogLines ==
  ASSUME GoodLog, NEW f \in Filters
  PROVE  /\ GetFromFile(f) \in Seq(NoFilter)
         /\ LinesOf(GetFromFile(f), log.first, log.last, f)
<1>1. log.first \in Nat \ {0} /\ log.last \in Nat /\ log.last <= MaxLines /\ MaxLines \in Nat
  BY LogAssumption DEF GoodLog, File
<1>2. LinesOf(GetFromFile(f), log.first, log.last, f)
  BY <1>1, PassingLines DEF GetFromFile
<1> DEFINE s == GetFromFile(f)
<1> HIDE DEF s
<1>3. s \in Seq(Nat) /\ \A i \in 1..Len(s) : s[i] \in NoFilter
  <2>1. \A i \in 1..Len(s) : s[i] \in Nat /\ log.first <= s[i] /\ s[i] <= log.last
    BY <1>2 DEF LinesOf, s
  <2> QED
    BY <1>1, <1>2, <2>1 DEF LinesOf, s, NoFilter
<1>4. s \in Seq(NoFilter)
  BY <1>3
<1> QED
  BY <1>2, <1>4 DEF s

(* The backend answers a request with an answer of its type.                *)
LEMMA AnswerType ==
  ASSUME GoodLog, NEW r \in Request
  PROVE  /\ GetByPage(r) \in Answer /\ ~IsFailure(GetByPage(r))
         /\ Fits(GetByPage(r), log)
<1> DEFINE all == GetFromFile(r.filter)
<1>1. /\ r.page \in Nat /\ r.filter \in Filters /\ r.size \in Sizes
      /\ r.size \in Nat \ {0}
  BY LogAssumption DEF Request
<1>2. all \in Seq(NoFilter)
  BY <1>1, LogLines
<1> HIDE DEF all
<1>3. PagesNumber(Len(all), r.size) \in Nat
  <2>1. Len(all) \in Nat
    BY <1>2
  <2> QED
    BY <1>1, <2>1, PagesNumberRoundsUp
<1>4. PageOf(all, r.page, r.size) \in Seq(NoFilter)
  BY <1>1, <1>2, PageIsAPiece
<1>5. GetByPage(r) = [page |-> r.page, filter |-> r.filter, size |-> r.size,
                      total |-> PagesNumber(Len(all), r.size),
                      lines |-> PageOf(all, r.page, r.size)]
  BY DEF GetByPage, all
<1>6. GetByPage(r) \in Answer /\ ~IsFailure(GetByPage(r))
  BY <1>1, <1>3, <1>4, <1>5 DEF Answer, IsFailure
<1>7. Fits(GetByPage(r), log)
  BY <1>5 DEF Fits, all, GetFromFile
<1> QED
  BY <1>6, <1>7

(* The file grows or begins anew; it never goes back.                       *)
LEMMA LaterLogs ==
  ASSUME TInv, log' \in File, Older(log, log'), UNCHANGED <<shown, answers>>
  PROVE  \E H : History(H)'
<1>1. PICK H : History(H)
  BY DEF TInv
<1>2. \A i \in 0..Len(answers) : H[i] \in File /\ Older(H[i], log')
  <2> TAKE i \in 0..Len(answers)
  <2>1. H[i] \in File /\ Older(H[i], log) /\ log \in File
    BY <1>1 DEF History, TInv, GoodLog
  <2> QED
    BY <2>1 DEF File, Older
<1>3. History(H)'
  BY <1>1, <1>2 DEF History, IsFailure, Fits
<1> QED
  BY <1>3

LEMMA TypesInitially == Init => TInv
<1> SUFFICES ASSUME Init PROVE TInv
  OBVIOUS
<1>1. PICK n \in FirstLines : log = [first |-> 1, last |-> n]
  BY DEF Init
<1>2. GoodLog /\ log.first \in 1..(MaxLines + 1) /\ log.last \in (log.first - 1)..MaxLines
  BY <1>1, LogAssumption DEF File, GoodLog
<1> DEFINE r == [page |-> 0, filter |-> NoFilter, size |-> PerPage]
<1>3. r \in Request /\ shown = GetByPage(r)
  BY LogAssumption DEF Request, Init
<1>4. at = 0 /\ filter \in Filters /\ size \in Sizes /\ curr = 1 /\ failed = FALSE
      /\ asked = <<>> /\ answers = <<>> /\ enabled = Opened(shown)
  BY LogAssumption DEF Init
<1>5. Opened(shown) \subseteq Buttons
  BY DEF Opened
<1> HIDE DEF r
<1>6. GetByPage(r) \in Answer /\ Fits(GetByPage(r), log)
  BY <1>2, <1>3, AnswerType
<1>7. TypeOK
  <2>1. at \in Nat /\ curr \in Nat /\ failed \in BOOLEAN /\ enabled \subseteq Buttons
    BY <1>4, <1>5
  <2>2. asked \in Seq(Request) /\ answers \in Seq(Answer \cup {Failure})
    BY <1>4
  <2>3. shown \in Answer
    BY <1>3, <1>6
  <2> QED
    BY <1>2, <1>4, <2>1, <2>2, <2>3 DEF TypeOK
<1> DEFINE H == [i \in {0} |-> log]
<1>8. History(H)
  BY <1>2, <1>3, <1>4, <1>6 DEF History, GoodLog, File, Older
<1> HIDE DEF H
<1> QED
  BY <1>2, <1>7, <1>8 DEF TInv

(* A request has the type of one; nothing is known anew about the log.      *)
LEMMA AskTypes ==
  ASSUME TInv, NEW p \in Nat, NEW f \in Filters, NEW s \in Sizes, Ask(p, f, s),
         enabled' \subseteq Buttons
  PROVE  TInv'
<1>1. [page |-> p, filter |-> f, size |-> s] \in Request
  BY DEF Request
<1>2. TypeOK'
  BY <1>1 DEF TInv, TypeOK, Ask
<1>3. GoodLog' /\ \E H : History(H)'
  <2>1. PICK H : History(H)
    BY DEF TInv
  <2>2. History(H)'
    BY <2>1 DEF History, Ask, IsFailure, Fits
  <2> QED
    BY <2>2 DEF TInv, GoodLog, Ask
<1> QED
  BY <1>2, <1>3 DEF TInv

LEMMA JumpTypes ==
  ASSUME TInv, NEW n \in Int, NEW s \in Sizes, JumpToPage(n, s)
  PROVE  TInv'
<1>1. filter \in Filters /\ enabled \subseteq Buttons
  BY DEF TInv, TypeOK
<1>2. CASE n >= 1 /\ n <= shown.total
  <2>1. n - 1 \in Nat /\ Ask(n - 1, filter, s) /\ enabled' \subseteq Buttons
    BY <1>1, <1>2 DEF JumpToPage, Lock
  <2> QED
    BY <1>1, <2>1, AskTypes
<1>3. CASE ~(n >= 1 /\ n <= shown.total)
  <2>1. UNCHANGED <<log, at, filter, enabled, shown, curr, failed, asked, answers>> /\ size' = s
    BY <1>3 DEF JumpToPage, server
  <2>2. TypeOK'
    BY <2>1 DEF TInv, TypeOK
  <2>3. PICK H : History(H)
    BY DEF TInv
  <2>4. History(H)'
    BY <2>1, <2>3 DEF History, IsFailure, Fits
  <2> QED
    BY <2>1, <2>2, <2>4 DEF TInv, GoodLog
<1> QED
  BY <1>2, <1>3

LEMMA ClickTypes == ASSUME TInv, Click PROVE TInv'
<1>1. /\ filter \in Filters /\ size \in Sizes /\ at \in Nat /\ enabled \subseteq Buttons
      /\ shown.total \in Nat /\ NoFilter \in Filters
  BY LogAssumption DEF TInv, TypeOK, Answer
<1>2. CASE NextPage \/ PrevPage
  <2>1. \E p \in Nat : Ask(p, filter, size) /\ enabled' \subseteq Buttons
    <3>1. CASE NextPage
      <4>1. at + 1 \in Nat
        BY <1>1
      <4> QED
        BY <1>1, <3>1, <4>1 DEF NextPage, Turn, Lock
    <3>2. CASE PrevPage
      <4>1. at - 1 \in Nat
        BY <1>1, <3>2 DEF PrevPage
      <4> QED
        BY <1>1, <3>2, <4>1 DEF PrevPage, Turn, Lock
    <3> QED
      BY <1>2, <3>1, <3>2
  <2> QED
    BY <1>1, <2>1, AskTypes
<1>3. CASE Search
  <2>1. PICK f \in Filters, button \in Buttons : UpdateLogData(button, f)
    BY <1>1, <1>3 DEF Search, Buttons
  <2>2. Ask(0, f, size) /\ enabled' \subseteq Buttons
    BY <1>1, <2>1 DEF UpdateLogData, Lock
  <2> QED
    BY <1>1, <2>2, AskTypes
<1>4. CASE JumpBack \/ JumpForward
  <2>1. \E n \in Int : JumpToPage(n, size)
    BY <1>1, <1>4 DEF JumpBack, JumpForward
  <2> QED
    BY <1>1, <2>1, JumpTypes
<1>5. CASE \E n \in 1..shown.total : EnterPage(n) \/ ClickPage(n)
  <2>1. \E n \in Int : JumpToPage(n, size)
    BY <1>1, <1>5 DEF EnterPage, ClickPage
  <2> QED
    BY <1>1, <2>1, JumpTypes
<1>6. CASE \E s \in Sizes : EnterSize(s)
  BY <1>6, JumpTypes DEF EnterSize
<1> QED
  BY <1>2, <1>3, <1>4, <1>5, <1>6 DEF Click

(* The backend cuts out of the log as it is now.                            *)
LEMMA BackendTypes == ASSUME TInv, ReadLog \/ Fail PROVE TInv'
<1>1. asked \in Seq(Request) /\ answers \in Seq(Answer \cup {Failure}) /\ GoodLog
  BY DEF TInv, TypeOK
<1>2. /\ asked # <<>> /\ asked' = Tail(asked)
      /\ UNCHANGED <<log, at, filter, size, enabled, shown, curr, failed>>
  BY DEF ReadLog, Fail, page
<1>3. PICK a \in Answer \cup {Failure} :
         answers' = Append(answers, a) /\ (~IsFailure(a) => Fits(a, log))
  <2>1. CASE ReadLog
    <3>1. Head(asked) \in Request
      BY <1>1, <1>2
    <3> QED
      BY <1>1, <2>1, <3>1, AnswerType DEF ReadLog
  <2>2. CASE Fail
    BY <2>2 DEF Fail, IsFailure, Failure
  <2> QED
    BY <2>1, <2>2
<1>4. asked' \in Seq(Request) /\ answers' \in Seq(Answer \cup {Failure})
  BY <1>1, <1>2, <1>3
<1>5. TypeOK'
  BY <1>2, <1>4 DEF TInv, TypeOK
<1>6. PICK H : History(H)
  BY DEF TInv
<1> DEFINE n == Len(answers)
<1>6a. PICK G : G = [i \in 0..n + 1 |-> IF i <= n THEN H[i] ELSE log]
  OBVIOUS
<1>7. /\ n \in Nat /\ Len(answers') = n + 1 /\ answers'[n + 1] = a
      /\ \A i \in 1..n : answers'[i] = answers[i]
  BY <1>1, <1>3
<1>8. /\ \A i \in 0..n : G[i] = H[i]
      /\ G[n + 1] = log /\ G[0] = H[0]
      /\ \A i \in 0..n + 1 : i \in 0..n \/ i = n + 1
  BY <1>6a, <1>7
<1> HIDE DEF n
<1>9. \A i \in 0..n : H[i] \in File /\ Older(H[i], log)
  BY <1>6 DEF History, n
<1>10. \A i \in 0..n + 1 : G[i] \in File /\ Older(G[i], log)
  BY <1>1, <1>8, <1>9 DEF Older, GoodLog, File
<1>11. ASSUME NEW i \in 0..n + 1, NEW j \in 0..n + 1, i <= j PROVE Older(G[i], G[j])
  <2>1. CASE j \in 0..n
    <3>1. i \in 0..n
      BY <1>7, <1>11, <2>1
    <3> QED
      BY <1>6, <1>8, <1>11, <2>1, <3>1 DEF History, n
  <2>2. CASE j = n + 1
    BY <1>8, <1>10, <2>2
  <2> QED
    BY <1>8, <2>1, <2>2
<1>12. \A i \in 1..n + 1 : ~IsFailure(answers'[i]) => Fits(answers'[i], G[i])
  <2> TAKE i \in 1..n + 1
  <2>1. CASE i \in 1..n
    <3>1. ~IsFailure(answers[i]) => Fits(answers[i], H[i])
      BY <1>6, <2>1 DEF History, n
    <3>2. G[i] = H[i] /\ answers'[i] = answers[i]
      BY <1>7, <1>8, <2>1
    <3> QED
      BY <3>1, <3>2
  <2>2. CASE i = n + 1
    BY <1>3, <1>7, <1>8, <2>2
  <2> QED
    BY <1>7, <2>1, <2>2
<1>13. Fits(shown, G[0])
  BY <1>6, <1>8 DEF History
<1>14. History(G)'
  <2>1. Len(answers') = n + 1 /\ log' = log /\ shown' = shown
    BY <1>2, <1>7
  <2> QED
    BY <1>10, <1>11, <1>12, <1>13, <2>1 DEF History, IsFailure, Fits
<1> QED
  BY <1>1, <1>2, <1>5, <1>14 DEF TInv, GoodLog

(* What is shown is the oldest of the answers, or what was shown before.    *)
LEMMA ShowTypes == ASSUME TInv, SetLogData PROVE TInv'
<1> DEFINE a == Head(answers)
<1>1. /\ answers \in Seq(Answer \cup {Failure}) /\ answers # <<>>
      /\ answers' = Tail(answers) /\ UNCHANGED <<log, filter, size, asked>>
  BY DEF TInv, TypeOK, SetLogData
<1>2. /\ a \in Answer \cup {Failure} /\ a = answers[1]
      /\ answers' \in Seq(Answer \cup {Failure})
      /\ Len(answers) \in Nat /\ Len(answers) > 0 /\ Len(answers') = Len(answers) - 1
      /\ \A i \in 1..Len(answers') : answers'[i] = answers[i + 1]
  BY <1>1
<1>3. IsFailure(Failure) /\ (a \in Answer => ~IsFailure(a))
  BY DEF IsFailure, Failure, Answer
<1> HIDE DEF a
<1>4. /\ at' \in Nat /\ enabled' \subseteq Buttons /\ shown' \in Answer
      /\ failed' \in BOOLEAN /\ curr' \in Nat
      /\ IF IsFailure(a) THEN shown' = shown ELSE shown' = a
  <2>1. CASE IsFailure(a)
    <3>1. UNCHANGED <<shown, at, enabled>> /\ failed' = TRUE /\ curr' = at' + 1
      BY <2>1 DEF SetLogData, a, IsFailure
    <3> QED
      BY <2>1, <3>1 DEF TInv, TypeOK
  <2>2. CASE ~IsFailure(a)
    <3>1. /\ shown' = a /\ at' = a.page /\ enabled' = Opened(a)
          /\ curr' = at' + 1
      BY <2>2 DEF SetLogData, a
    <3>1a. failed' = (a.total < 0)
      BY DEF SetLogData, a, IsFailure
    <3>1b. failed' \in BOOLEAN
      BY <3>1a
    <3>2. a \in Answer /\ a.page \in Nat
      BY <1>2, <1>3, <2>2 DEF Answer
    <3>3. Opened(a) \subseteq Buttons
      BY DEF Opened
    <3> QED
      BY <2>2, <3>1, <3>1b, <3>2, <3>3
  <2> QED
    BY <2>1, <2>2
<1>5. TypeOK'
  BY <1>1, <1>2, <1>4 DEF TInv, TypeOK
<1>6. PICK H : History(H)
  BY DEF TInv
<1> DEFINE n == Len(answers')
<1>6a. PICK G : G = [i \in 0..n |-> IF i = 0 THEN IF IsFailure(a) THEN H[0] ELSE H[1]
                                    ELSE H[i + 1]]
  OBVIOUS
<1>7. n \in Nat /\ Len(answers) = n + 1
  BY <1>2
<1> HIDE DEF n
<1>8. /\ \A i \in 1..n : G[i] = H[i + 1] /\ i + 1 \in 0..n + 1 /\ i + 1 \in 1..n + 1
      /\ G[0] = (IF IsFailure(a) THEN H[0] ELSE H[1])
      /\ 0 \in 0..n + 1 /\ 1 \in 0..n + 1
      /\ \A i \in 0..n : i = 0 \/ i \in 1..n
  BY <1>6a, <1>7
<1>9. \A i \in 0..n + 1 : H[i] \in File /\ Older(H[i], log)
  BY <1>6, <1>7 DEF History
<1>10. \A i, j \in 0..n + 1 : i <= j => Older(H[i], H[j])
  BY <1>6, <1>7 DEF History
<1>11. \A i \in 0..n : G[i] \in File /\ Older(G[i], log)
  BY <1>8, <1>9
<1>12. ASSUME NEW i \in 0..n, NEW j \in 0..n, i <= j PROVE Older(G[i], G[j])
  <2>1. CASE j = 0
    <3>1. i = 0
      BY <1>7, <1>12, <2>1
    <3> QED
      BY <1>8, <1>10, <2>1, <3>1
  <2>2. CASE i = 0 /\ j \in 1..n
    <3>1. 0 <= j + 1 /\ 1 <= j + 1
      BY <1>7, <2>2
    <3> QED
      BY <1>8, <1>10, <2>2, <3>1
  <2>3. CASE i \in 1..n /\ j \in 1..n
    <3>1. i + 1 <= j + 1
      BY <1>7, <1>12, <2>3
    <3> QED
      BY <1>8, <1>10, <2>3, <3>1
  <2> QED
    BY <1>8, <2>1, <2>2, <2>3
<1>13. \A i \in 1..n + 1 : ~IsFailure(answers[i]) => Fits(answers[i], H[i])
  BY <1>6, <1>7 DEF History
<1>14. \A i \in 1..n : ~IsFailure(answers'[i]) => Fits(answers'[i], G[i])
  BY <1>2, <1>8, <1>13 DEF n
<1>15. Fits(shown', G[0])
  <2>1. CASE IsFailure(a)
    BY <1>4, <1>6, <1>8, <2>1 DEF History
  <2>2. CASE ~IsFailure(a)
    <3>1. 1 \in 1..n + 1
      BY <1>7
    <3> QED
      BY <1>2, <1>4, <1>8, <1>13, <2>2, <3>1
  <2> QED
    BY <2>1, <2>2
<1>16. History(G)'
  BY <1>1, <1>11, <1>12, <1>14, <1>15 DEF History, n, IsFailure, Fits
<1> QED
  BY <1>1, <1>5, <1>16 DEF TInv, GoodLog

(* The types, and where the answers come from, for any bounds.              *)
THEOREM CutInvariance == Spec => []TInv
<1>1. Init => TInv
  BY TypesInitially
<1>2. TInv /\ [Next]_vars => TInv'
  <2> SUFFICES ASSUME TInv, [Next]_vars PROVE TInv'
    OBVIOUS
  <2>1. CASE Click
    BY <2>1, ClickTypes
  <2>2. CASE ReadLog \/ Fail
    BY <2>2, BackendTypes
  <2>3. CASE SetLogData
    BY <2>3, ShowTypes
  <2>4. CASE Write \/ Rotate \/ UNCHANGED vars
    <3>1. UNCHANGED <<at, filter, size, enabled, shown, curr, failed, asked, answers>>
      BY <2>4 DEF Write, Rotate, vars, page, server
    <3>2. /\ log \in File /\ log.first \in 1..(MaxLines + 1)
          /\ log.last \in (log.first - 1)..MaxLines /\ MaxLines \in Nat
      BY LogAssumption DEF TInv, TypeOK, GoodLog
    <3>3. /\ log' \in File /\ Older(log, log')
          /\ log'.first \in 1..(MaxLines + 1) /\ log'.last \in (log'.first - 1)..MaxLines
      BY <2>4, <3>2 DEF Write, Rotate, vars, File, Older
    <3>4. TypeOK' /\ GoodLog'
      BY <3>1, <3>2, <3>3 DEF TInv, TypeOK, GoodLog, File
    <3> QED
      BY <3>1, <3>3, <3>4, LaterLogs DEF TInv
  <2> QED
    BY <2>1, <2>2, <2>3, <2>4 DEF Next
<1> QED
  BY <1>1, <1>2, PTL DEF Spec

(* Types, for any bounds.                                                   *)
THEOREM ViewTypes == Spec => []TypeOK
BY CutInvariance, PTL DEF TInv

(* GetByPage cuts the log into pages without a gap or an overlap, whatever  *)
(* the filter and the size of a page.                                       *)
THEOREM PagesAreTheLog == Spec => []PagesMakeUpTheLog
<1>1. ASSUME TInv PROVE PagesMakeUpTheLog
  <2> SUFFICES ASSUME NEW f \in Filters, NEW s \in Sizes
               PROVE  LET all  == GetFromFile(f)
                          n    == PagesNumber(Len(all), s)
                          Cut(p) == GetByPage([page |-> p, filter |-> f, size |-> s]).lines
                      IN  /\ FlattenSeq([i \in 1..n |-> Cut(n - i)]) = all
                          /\ \A p \in 0..(n - 2) : Len(Cut(p)) = s
                          /\ Cut(n) = <<>>
    BY DEF PagesMakeUpTheLog
  <2> DEFINE all == GetFromFile(f)
             n   == PagesNumber(Len(all), s)
             Cut(p) == GetByPage([page |-> p, filter |-> f, size |-> s]).lines
  <2>1. all \in Seq(NoFilter) /\ s \in Nat \ {0}
    BY <1>1, LogLines, LogAssumption DEF TInv
  <2>2. \A p : Cut(p) = PageOf(all, p, s)
    BY DEF GetByPage
  <2> HIDE DEF all, Cut
  <2>3. /\ FlattenSeq([i \in 1..n |-> PageOf(all, n - i, s)]) = all
        /\ \A p \in 0..(n - 2) : Len(PageOf(all, p, s)) = s
        /\ PageOf(all, n, s) = <<>>
    BY <2>1, PagesJoin
  <2> HIDE DEF n
  <2>4. [i \in 1..n |-> PageOf(all, n - i, s)] = [i \in 1..n |-> Cut(n - i)]
    BY <2>2
  <2>5. /\ FlattenSeq([i \in 1..n |-> Cut(n - i)]) = all
        /\ \A p \in 0..(n - 2) : Len(Cut(p)) = s
        /\ Cut(n) = <<>>
    BY <2>2, <2>3, <2>4
  <2> QED
    BY <2>5 DEF all, n, Cut
<1> QED
  BY <1>1, CutInvariance, PTL

(* The list of pages has the current one and its neighbours, and no page    *)
(* that the log did not have.                                               *)
THEOREM ListsAreUseful == Spec => []ListIsUseful
<1>1. ASSUME TInv PROVE ListIsUseful
  <2>1. curr \in Nat /\ shown.total \in Nat
    BY <1>1 DEF TInv, TypeOK, Answer
  <2> DEFINE c == curr
             t == shown.total
  <2>2. c \in Nat /\ t \in Nat
    BY <2>1
  <2> HIDE DEF c, t
  <2>3. Listed(c, t) \subseteq 1..t
    BY <2>2 DEF Listed
  <2>4. c <= t /\ t > 1 => ((c - 1)..(c + 1)) \cap (1..t) \subseteq Listed(c, t)
    BY <2>2 DEF Listed
  <2> QED
    BY <2>3, <2>4 DEF ListIsUseful, Listing, c, t
<1> QED
  BY <1>1, CutInvariance, PTL

(* Between a page and the next one, cut later, there is no line.            *)
LEMMA NoneBetween ==
  ASSUME NEW f \in SUBSET Nat, NEW L \in File, NEW M \in File, Older(L, M),
         NEW p \in Nat, NEW s \in Nat \ {0},
         NEW new, new = PageOf(Passing(L.first, L.last, f), p, s), new # <<>>,
         NEW old, old = PageOf(Passing(M.first, M.last, f), p + 1, s), old # <<>>,
         NEW line \in f, line < Head(new)
  PROVE  line <= Last(old)
<1> DEFINE u == Passing(L.first, L.last, f)
           v == Passing(M.first, M.last, f)
           k == (p + 1) * s
<1>1. /\ LinesOf(u, L.first, L.last, f) /\ LinesOf(v, M.first, M.last, f)
      /\ L.first \in Nat /\ L.last \in Nat /\ M.first \in Nat /\ M.last \in Nat
      /\ L.first <= M.first /\ L.last <= M.last
  BY PassingLines DEF File, Older
<1> HIDE DEF u, v
<1>2. /\ u \in Seq(Nat) /\ v \in Seq(Nat) /\ Len(u) \in Nat /\ Len(v) \in Nat /\ k \in Nat
      /\ \A i \in 1..Len(u) : u[i] \in Nat
      /\ \A i \in 1..Len(v) : v[i] \in Nat /\ M.first <= v[i]
  <2>1. k \in Nat
    OBVIOUS
  <2> HIDE DEF k
  <2>2. u \in Seq(Nat) /\ v \in Seq(Nat) /\ \A i \in 1..Len(v) : M.first <= v[i]
    BY <1>1 DEF LinesOf
  <2> QED
    BY <2>1, <2>2
<1>3. Bottom(Len(u), p, s) = NotBelowZero(Len(u) - k) /\ Top(Len(v), p + 1, s) = NotBelowZero(Len(v) - k)
  BY DEF Bottom, Top
<1> HIDE DEF k
<1>4. /\ new \in Seq(Nat) /\ Len(new) > 0
      /\ Head(new) = u[NotBelowZero(Len(u) - k) + 1]
      /\ NotBelowZero(Len(u) - k) < Len(u)
  <2>1. new = PageOf(u, p, s)
    BY DEF u
  <2>1a. u \in Seq(Nat)
    BY <1>2
  <2>2. /\ new \in Seq(Nat)
        /\ Len(new) = Top(Len(u), p, s) - Bottom(Len(u), p, s)
        /\ Top(Len(u), p, s) \in Nat /\ Bottom(Len(u), p, s) \in Nat
        /\ Top(Len(u), p, s) <= Len(u)
        /\ \A i \in 1..Len(new) : new[i] = u[Bottom(Len(u), p, s) + i]
    <3>1. /\ PageOf(u, p, s) \in Seq(Nat)
          /\ Len(PageOf(u, p, s)) = Top(Len(u), p, s) - Bottom(Len(u), p, s)
          /\ Top(Len(u), p, s) \in Nat /\ Bottom(Len(u), p, s) \in Nat
          /\ Top(Len(u), p, s) <= Len(u)
          /\ \A i \in 1..Len(PageOf(u, p, s)) :
                PageOf(u, p, s)[i] = u[Bottom(Len(u), p, s) + i]
      BY <2>1a, PageIsAPiece
    <3> QED
      BY <2>1, <3>1
  <2>3. Len(new) > 0 /\ Len(new) \in Nat /\ Head(new) = new[1]
    BY <2>2
  <2>4. 1 \in 1..Len(new)
    BY <2>3
  <2> DEFINE bot == Bottom(Len(u), p, s)
             top == Top(Len(u), p, s)
  <2>5. bot \in Nat /\ top \in Nat /\ Len(new) = top - bot /\ top <= Len(u)
    BY <2>2
  <2>6. new[1] = u[bot + 1]
    BY <2>2, <2>4
  <2>7. bot = NotBelowZero(Len(u) - k)
    BY <1>3
  <2> HIDE DEF bot, top
  <2>8. bot < Len(u)
    BY <1>2, <2>3, <2>5
  <2>9. Head(new) = u[NotBelowZero(Len(u) - k) + 1] /\ NotBelowZero(Len(u) - k) < Len(u)
    BY <2>3, <2>6, <2>7, <2>8
  <2> QED
    BY <2>2, <2>3, <2>9
<1>5. Last(old) = v[Len(v) - k] /\ k < Len(v)
  <2>0. PICK q \in Nat : q = p + 1
    OBVIOUS
  <2>1. old = PageOf(v, q, s) /\ q \in Nat
    BY <2>0 DEF v
  <2>1a. v \in Seq(Nat)
    BY <1>2
  <2>2. /\ old \in Seq(Nat)
        /\ Len(old) = Top(Len(v), q, s) - Bottom(Len(v), q, s)
        /\ Top(Len(v), q, s) \in Nat /\ Bottom(Len(v), q, s) \in Nat
        /\ \A i \in 1..Len(old) : old[i] = v[Bottom(Len(v), q, s) + i]
    <3>1. /\ PageOf(v, q, s) \in Seq(Nat)
          /\ Len(PageOf(v, q, s)) = Top(Len(v), q, s) - Bottom(Len(v), q, s)
          /\ Top(Len(v), q, s) \in Nat /\ Bottom(Len(v), q, s) \in Nat
          /\ \A i \in 1..Len(PageOf(v, q, s)) :
                PageOf(v, q, s)[i] = v[Bottom(Len(v), q, s) + i]
      BY <2>1a, PageIsAPiece
    <3> QED
      BY <2>1, <3>1
  <2>3. Len(old) > 0 /\ Len(old) \in Nat
    BY <2>2
  <2> DEFINE bot == Bottom(Len(v), q, s)
             top == Top(Len(v), q, s)
  <2>3a. bot \in Nat /\ top \in Nat /\ Len(old) = top - bot /\ Len(old) \in 1..Len(old)
    BY <2>2, <2>3
  <2>3b. old[Len(old)] = v[bot + Len(old)]
    BY <2>2, <2>3a
  <2>3c. top = NotBelowZero(Len(v) - k)
    BY <1>3, <2>0
  <2> HIDE DEF bot, top
  <2>3d. bot + Len(old) = top /\ top > 0
    BY <2>3, <2>3a
  <2>4. old[Len(old)] = v[top] /\ top > 0
    BY <2>3b, <2>3d
  <2>5. top = Len(v) - k /\ k < Len(v)
    BY <1>2, <2>3c, <2>4 DEF NotBelowZero
  <2> QED
    BY <2>4, <2>5 DEF Last
<1>6. Len(v) - k \in 1..Len(v)
  BY <1>2, <1>5
<1>7. CASE line < L.first
  <2>1. M.first <= v[Len(v) - k] /\ v[Len(v) - k] \in Nat /\ line \in Nat
    BY <1>2, <1>6
  <2> QED
    BY <1>1, <1>5, <1>7, <2>1
<1>8. CASE line >= L.first
  <2> DEFINE b == NotBelowZero(Len(u) - k)
  <2>1. b \in Nat /\ b + 1 \in 1..Len(u)
    BY <1>2, <1>4 DEF NotBelowZero
  <2> HIDE DEF b
  <2>2. u[b + 1] <= L.last /\ u[b + 1] \in Nat /\ line \in Nat /\ line < u[b + 1]
    BY <1>1, <1>4, <2>1 DEF LinesOf, b
  <2>3. PICK i \in 1..Len(u) : u[i] = line
    <3>1. L.first <= line /\ line <= L.last
      BY <1>1, <1>8, <2>2
    <3> QED
      BY <1>1, <2>2, <3>1 DEF LinesOf
  <2>4. i < b + 1
    <3>1. i # b + 1
      BY <2>2, <2>3
    <3>2. ~(b + 1 < i)
      <4>1. b + 1 < i => u[b + 1] < u[i]
        BY <1>1, <2>1 DEF LinesOf, Increasing
      <4> QED
        BY <2>2, <2>3, <4>1
    <3> QED
      BY <1>2, <2>1, <3>1, <3>2
  <2>5. b = Len(u) - k /\ k < Len(u) /\ b \in 1..Len(u)
    BY <1>2, <2>1, <2>4 DEF b, NotBelowZero
  <2>6. line <= u[b]
    <3>1. i < b => u[i] < u[b]
      BY <1>1, <2>5 DEF LinesOf, Increasing
    <3>2. i = b \/ i < b
      BY <2>1, <2>4
    <3>3. u[b] \in Nat
      BY <1>2, <2>5
    <3> QED
      BY <2>2, <2>3, <3>1, <3>2, <3>3
  <2>7. u[Len(u) - k] <= v[Len(v) - k]
    BY <1>1, <1>2, <1>5, <2>5, LaterIsNewer
  <2>8. v[Len(v) - k] \in Nat /\ u[Len(u) - k] \in Nat /\ line <= u[Len(u) - k]
    BY <1>2, <1>6, <2>5, <2>6
  <2> QED
    BY <1>5, <2>2, <2>7, <2>8
<1> QED
  BY <1>1, <1>7, <1>8

(* Turning to older pages skips no line, however much the daemon writes and *)
(* whenever the file is replaced.                                           *)
THEOREM NothingIsSkipped == Spec => NextSkipsNothing
<1> DEFINE Skips ==
      /\ shown'.page = shown.page + 1
      /\ shown'.filter = shown.filter /\ shown'.size = shown.size
      /\ shown.lines # <<>> /\ shown'.lines # <<>>
<1>1. ASSUME TInv, [Next]_vars, ~UNCHANGED shown, Skips, NEW line \in shown.filter,
             line < Head(shown.lines)
      PROVE  line <= Last(shown'.lines)
  <2>1. SetLogData
    BY <1>1 DEF Next, Click, NextPage, PrevPage, Turn, Search, UpdateLogData, JumpBack,
       JumpForward, EnterPage, ClickPage, EnterSize, JumpToPage, Ask, ReadLog, Fail,
       Write, Rotate, page, vars
  <2> DEFINE a == Head(answers)
  <2>2. answers # <<>> /\ ~IsFailure(a) /\ shown' = a
    BY <1>1, <2>1 DEF SetLogData
  <2>3. a = answers[1] /\ Len(answers) \in Nat /\ 1 \in 1..Len(answers)
    BY <1>1, <2>2 DEF TInv, TypeOK
  <2> HIDE DEF a
  <2>4. PICK H : History(H)
    BY <1>1 DEF TInv
  <2>5. /\ H[0] \in File /\ H[1] \in File /\ Older(H[0], H[1])
        /\ Fits(shown, H[0]) /\ Fits(a, H[1])
    <3>1. 0 \in 0..Len(answers) /\ 1 \in 0..Len(answers) /\ 0 <= 1
      BY <2>3
    <3> QED
      BY <2>2, <2>3, <2>4, <3>1 DEF History
  <2>6. /\ shown.filter \in SUBSET Nat /\ shown.page \in Nat /\ shown.size \in Nat \ {0}
    <3>1. shown.filter \in Filters /\ shown.page \in Nat /\ shown.size \in Sizes
      BY <1>1 DEF TInv, TypeOK, Answer
    <3>2. Filters \subseteq SUBSET Nat
      BY LogAssumption DEF NoFilter
    <3> QED
      BY <3>1, <3>2, LogAssumption
  <2>7. /\ shown.lines = PageOf(Passing(H[0].first, H[0].last, shown.filter), shown.page, shown.size)
        /\ a.lines = PageOf(Passing(H[1].first, H[1].last, shown.filter), shown.page + 1, shown.size)
    BY <1>1, <2>2, <2>5 DEF Fits
  <2> QED
    BY <1>1, <2>2, <2>5, <2>6, <2>7, NoneBetween
<1>2. ASSUME TInv, [Next]_vars
      PROVE  [Skips => \A line \in shown.filter :
                          line < Head(shown.lines) => line <= Last(shown'.lines)]_shown
  BY <1>1, <1>2
<1> QED
  BY <1>2, CutInvariance, PTL DEF Spec, NextSkipsNothing
=============================================================================
