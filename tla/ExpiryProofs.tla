---------------------------- MODULE ExpiryProofs ----------------------------
(***************************************************************************)
(* Proofs about Codec and Expiry.  Every row that write_key makes comes    *)
(* back from the file as it was, in every format and version, but for a    *)
(* creation day that is too far back (RowsReturn).  So every handle sees   *)
(* the stamp and the lifetime that the last write gave the record, which   *)
(* are what the caller asked for, rounded: it expires on time.             *)
(***************************************************************************)
EXTENDS Expiry, FiniteSetTheorems, TLAPS

-----------------------------------------------------------------------------
(* Powers of two.  The provers know 2^n for numbers only; what holds for    *)
(* every n follows from the number of subsets of a set of n elements.       *)

\* A set of n elements has 2^n subsets.
LEMMA SubsetsOf ==
  ASSUME NEW n \in Nat, NEW a \in Nat
  PROVE  /\ IsFiniteSet(SUBSET ((a + 1) .. (a + n)))
         /\ Cardinality(SUBSET ((a + 1) .. (a + n))) = 2^n
<1>1. IsFiniteSet((a + 1) .. (a + n)) /\ Cardinality((a + 1) .. (a + n)) = n
  <2>1. a + 1 \in Int /\ a + n \in Int
    OBVIOUS
  <2>2. (a + 1 > a + n => n = 0) /\ a + n - (a + 1) + 1 = n
    OBVIOUS
  <2> QED BY <2>1, <2>2, FS_Interval
<1> QED BY <1>1, FS_SUBSET

\* The width of a field is at least one value.
LEMMA PowerPositive ==
  ASSUME NEW n \in Nat
  PROVE  2^n \in Nat \ {0}
<1> DEFINE S == SUBSET ((0 + 1) .. (0 + n))
<1>1. IsFiniteSet(S) /\ Cardinality(S) = 2^n
  BY SubsetsOf
<1>2. Cardinality(S) \in Nat
  BY <1>1, FS_CardinalityType
<1>3. S # {}
  <2>1. {} \in S
    OBVIOUS
  <2> QED BY <2>1
<1>4. Cardinality(S) # 0
  BY <1>1, <1>3, FS_EmptySet
<1> QED BY <1>1, <1>2, <1>4

\* Fields next to each other.
LEMMA PowerSum ==
  ASSUME NEW a \in Nat, NEW b \in Nat
  PROVE  2^(a + b) = 2^a * 2^b
<1> DEFINE A == (0 + 1) .. (0 + a)
           B == (a + 1) .. (a + b)
           C == (0 + 1) .. (0 + (a + b))
           f == [X \in SUBSET C |-> <<X \cap A, X \cap B>>]
<1>1. /\ IsFiniteSet(SUBSET A) /\ Cardinality(SUBSET A) = 2^a
      /\ IsFiniteSet(SUBSET B) /\ Cardinality(SUBSET B) = 2^b
      /\ IsFiniteSet(SUBSET C) /\ Cardinality(SUBSET C) = 2^(a + b)
  <2>1. 0 \in Nat /\ a + b \in Nat
    OBVIOUS
  <2> QED BY <2>1, SubsetsOf
<1>2. C = A \cup B /\ A \cap B = {}
  OBVIOUS
<1> HIDE DEF A, B, C
<1>3. f \in Bijection(SUBSET C, (SUBSET A) \X (SUBSET B))
  <2>1. f \in [SUBSET C -> (SUBSET A) \X (SUBSET B)]
    OBVIOUS
  <2>2. ASSUME NEW X \in SUBSET C, NEW Y \in SUBSET C, f[X] = f[Y]
        PROVE  X = Y
    <3>1. X \cap A = Y \cap A /\ X \cap B = Y \cap B
      BY <2>2
    <3> QED BY <3>1, <1>2
  <2>3. ASSUME NEW p \in (SUBSET A) \X (SUBSET B)
        PROVE  \E X \in SUBSET C : f[X] = p
    <3>1. PICK X \in SUBSET A, Y \in SUBSET B : p = <<X, Y>>
      OBVIOUS
    <3>2. X \cup Y \in SUBSET C
      BY <1>2
    <3>3. (X \cup Y) \cap A = X /\ (X \cup Y) \cap B = Y
      BY <1>2
    <3> QED BY <3>1, <3>2, <3>3
  <2> HIDE DEF f
  <2>4. IsInjective(f)
    BY <2>1, <2>2 DEF IsInjective
  <2>5. f \in Surjection(SUBSET C, (SUBSET A) \X (SUBSET B))
    BY <2>1, <2>3, Zenon DEF Surjection
  <2>6. f \in Injection(SUBSET C, (SUBSET A) \X (SUBSET B))
    BY <2>1, <2>4, Zenon DEF Injection
  <2> QED BY <2>5, <2>6 DEF Bijection
<1>4. Cardinality((SUBSET A) \X (SUBSET B)) = Cardinality(SUBSET C)
  BY <1>1, <1>3, FS_Bijection DEF ExistsBijection
<1>5. Cardinality((SUBSET A) \X (SUBSET B)) = Cardinality(SUBSET A) * Cardinality(SUBSET B)
  <2> HIDE DEF f
  <2> QED BY <1>1, FS_Product
<1> QED BY <1>1, <1>4, <1>5

-----------------------------------------------------------------------------
(* Fields of one integer *)

\* Quotient and rest.
LEMMA DivMod ==
  ASSUME NEW A \in Nat \ {0}, NEW x \in Nat
  PROVE  x = A * (x \div A) + (x % A) /\ x % A \in 0 .. A - 1 /\ x \div A \in Nat
<1>1. x % A \in 0 .. A - 1
  OBVIOUS
<1>2. x \div A \in Int
  OBVIOUS
<1>3. x = A * (x \div A) + (x % A)
  OBVIOUS
<1>4. x \div A >= 0
  <2>1. SUFFICES ASSUME x \div A <= -1 PROVE FALSE
    BY <1>2
  <2>2. A * (x \div A) <= -A
    BY <2>1, <1>2
  <2> QED BY <2>2, <1>1, <1>3
<1> QED BY <1>1, <1>2, <1>3, <1>4

\* The quotient and the rest are what a sum is made of.
LEMMA DivUnique ==
  ASSUME NEW A \in Nat \ {0}, NEW q \in Nat, NEW r \in 0 .. A - 1
  PROVE  (r + q * A) \div A = q /\ (r + q * A) % A = r
OBVIOUS

\* Two fields next to each other stay below the product of their sizes.
LEMMA TwoFields ==
  ASSUME NEW A \in Nat \ {0}, NEW B \in Nat \ {0},
         NEW a \in 0 .. A - 1, NEW b \in 0 .. B - 1
  PROVE  a + b * A \in 0 .. A * B - 1
OBVIOUS

\* x has the values s, e and d in fields of a, b and c bits, and K above them.
Holds(x, a, s, b, e, c, d, K) ==
  /\ a \in Nat /\ b \in Nat /\ c \in Nat /\ K \in Nat
  /\ s \in 0 .. 2^a - 1 /\ e \in 0 .. 2^b - 1 /\ d \in 0 .. 2^c - 1
  /\ x = s + (e + (d + K * 2^c) * 2^b) * 2^a

\* Each field is taken out as it was put in: the layout of every day field.
LEMMA ThreeFields ==
  ASSUME NEW a, NEW b, NEW c, NEW K, NEW s, NEW e, NEW d, NEW x,
         Holds(x, a, s, b, e, c, d, K)
  PROVE  /\ x \in Nat
         /\ Take(x, 0, a) = s
         /\ Take(x, a, b) = e
         /\ Take(x, a + b, c) = d
         /\ x \div 2^(a + b + c) = K
<1> DEFINE A == 2^a
           B == 2^b
           C == 2^c
<1> USE DEF Holds
<1>1. A \in Nat \ {0} /\ B \in Nat \ {0} /\ C \in Nat \ {0}
  BY PowerPositive
<1>2. 2^(a + b) = A * B /\ 2^(a + b + c) = (A * B) * C
  <2>1. a + b \in Nat
    OBVIOUS
  <2> QED BY <2>1, PowerSum
<1>3. 2^0 = 1
  OBVIOUS
<1>4. s \in 0 .. A - 1 /\ e \in 0 .. B - 1 /\ d \in 0 .. C - 1
      /\ x = s + (e + (d + K * C) * B) * A
  OBVIOUS
<1>5. Take(x, a, b) = e
  <2> DEFINE up == d + K * 2^c
         y == e + up * 2^b
  <2>1. up \in Nat /\ y \in Nat /\ y = e + up * 2^b /\ x = s + y * 2^a
    BY <1>1
  <2> HIDE DEF up, y
  <2>2. x \div 2^a = y
    BY <2>1, <1>1, DivUnique
  <2>3. y % 2^b = e
    BY <2>1, <1>1, DivUnique
  <2> QED BY <2>2, <2>3 DEF Take
<1>6. Take(x, 0, a) = s
  <2> DEFINE up == e + (d + K * 2^c) * 2^b
  <2>1. up \in Nat
    BY <1>1
  <2>2. x \in Nat /\ x = s + up * 2^a
    BY <2>1, <1>1
  <2> HIDE DEF up
  <2>3. x \div 2^0 = x
    BY <2>2, <1>3
  <2>4. x % 2^a = s
    BY <2>1, <2>2, <1>1, DivUnique
  <2> QED BY <2>3, <2>4 DEF Take
<1>7. s + e * A \in 0 .. A * B - 1
  <2> HIDE DEF A, B
  <2> QED BY <1>1, <1>4, TwoFields
<1>8. Take(x, a + b, c) = d
  <2>1. x = (s + e * A) + (d + K * C) * (A * B)
    <3> HIDE DEF A, B, C
    <3> DEFINE u == d + K * C
    <3>1. u \in Nat
      BY <1>1, <1>4
    <3>2. x = s + (e + u * B) * A
      BY <1>4
    <3> HIDE DEF u
    <3>3. (e + u * B) * A = e * A + u * (A * B)
      BY <3>1, <1>1, <1>4
    <3>4. x = (s + e * A) + u * (A * B)
      BY <3>1, <3>2, <3>3, <1>1, <1>4
    <3> QED BY <3>4 DEF u
  <2> DEFINE low == s + e * A
             up == d + K * C
             AB == A * B
  <2>2. /\ low \in 0 .. AB - 1 /\ AB \in Nat \ {0}
        /\ up \in Nat /\ x = low + up * AB /\ 2^(a + b) = AB
    BY <2>1, <1>1, <1>2, <1>7
  <2>3. up % 2^c = d
    BY <1>1, DivUnique
  <2> HIDE DEF low, up, AB
  <2>4. x \div AB = up
    BY <2>2, DivUnique
  <2> QED BY <2>2, <2>3, <2>4 DEF Take
<1>9. x \div 2^(a + b + c) = K /\ x \in Nat
  <2> DEFINE low == (s + e * A) + d * (A * B)
  <2> HIDE DEF A, B, C
  <2>1. A * B \in Nat \ {0} /\ (A * B) * C \in Nat \ {0}
    BY <1>1
  <2>2. low \in 0 .. (A * B) * C - 1
    <3> DEFINE AB == A * B
               v == s + e * A
    <3>1. AB \in Nat \ {0} /\ v \in 0 .. AB - 1
      BY <2>1, <1>7
    <3> HIDE DEF AB, v
    <3>2. v + d * AB \in 0 .. AB * C - 1
      BY <3>1, <1>1, <1>4, TwoFields
    <3> QED BY <3>2 DEF AB, v
  <2>3. x = low + K * ((A * B) * C)
    <3>1. d + K * C \in Nat /\ K * C \in Nat
      BY <1>1, <1>4
    <3>2. (d + K * C) * B = d * B + (K * C) * B
      BY <3>1, <1>1, <1>4
    <3>3. (e + (d + K * C) * B) * A = e * A + d * (A * B) + K * ((A * B) * C)
      BY <3>1, <3>2, <1>1, <1>4
    <3>4. x = s + (e * A + d * (A * B) + K * ((A * B) * C))
      BY <3>3, <1>4
    <3>5. e * A \in Nat /\ d * (A * B) \in Nat /\ K * ((A * B) * C) \in Nat
      BY <2>1, <1>1, <1>4
    <3> QED BY <3>4, <3>5, <1>4
  <2> HIDE DEF low
  <2>4. (low + K * ((A * B) * C)) \div ((A * B) * C) = K
    BY <2>1, <2>2, DivUnique
  <2>5. K * ((A * B) * C) \in Nat
    BY <2>1
  <2> QED BY <2>2, <2>3, <2>4, <2>5, <1>2
<1> QED BY <1>5, <1>6, <1>8, <1>9

-----------------------------------------------------------------------------
(* The day field.  K stands for the flags that a row of the versions 0 and 1 *)
(* has above it, and is 0 in version 2.                                      *)

\* Where the fields are.
LEMMA Widths ==
  /\ {MIN_SEC, MIN_OF_DAY, SubDayBits, SubDeltaBits, ExpDeltaBits, TtlBits,
      MinBits, TtlMinBits, SizeBits} \subseteq Nat \ {0}
  /\ {OldDayBits, NewDayBits, SubDayShift, SubDeltaShift, TtlShift, TtlMinShift,
      FlagShift} \subseteq Nat
  /\ 2^0 = 1 /\ 2^1 = 2
  /\ 2^OldDayBits = 2^(SubDayBits + 1) * 2^SubDeltaBits
  /\ 2^(SubDayBits + 1) = 2^SubDayBits * 2
  /\ 2^TtlShift = 2^OldDayBits * 2^ExpDeltaBits
  /\ 2^TtlMinShift = 2^OldDayBits * 2^MinBits
  /\ 2^FlagShift = 2^OldDayBits * 2^NewDayBits
  /\ 2^NewDayBits = 2^ExpDeltaBits * 2^TtlBits
  /\ 2^NewDayBits = 2^MinBits * 2^TtlMinBits
<1>1. /\ {MIN_SEC, MIN_OF_DAY, SubDayBits, SubDeltaBits, ExpDeltaBits, TtlBits,
          MinBits, TtlMinBits, SizeBits} \subseteq Nat \ {0}
      /\ ExpDeltaBits + TtlBits = MinBits + TtlMinBits
  BY CodecAssumption DEF CodecAssumption
<1>2. {OldDayBits, NewDayBits, SubDayShift, SubDeltaShift, TtlShift, TtlMinShift,
       FlagShift, SubDayBits + 1} \subseteq Nat
  BY <1>1 DEF OldDayBits, NewDayBits, SubDayShift, SubDeltaShift, TtlShift,
              TtlMinShift, FlagShift
<1>3. 2^0 = 1 /\ 2^1 = 2
  OBVIOUS
<1>4. 2^(SubDayBits + 1) = 2^SubDayBits * 2
  <2>1. 2^(SubDayBits + 1) = 2^SubDayBits * 2^1
    BY <1>1, PowerSum
  <2> QED BY <2>1, <1>3
<1>5. 2^OldDayBits = 2^(SubDayBits + 1) * 2^SubDeltaBits
  BY <1>1, <1>2, PowerSum DEF OldDayBits
<1>6. 2^TtlShift = 2^OldDayBits * 2^ExpDeltaBits
  BY <1>1, <1>2, PowerSum DEF TtlShift
<1>7. 2^TtlMinShift = 2^OldDayBits * 2^MinBits
  BY <1>1, <1>2, PowerSum DEF TtlMinShift
<1>8. 2^FlagShift = 2^OldDayBits * 2^NewDayBits
  BY <1>1, <1>2, PowerSum DEF FlagShift
<1>9. 2^NewDayBits = 2^ExpDeltaBits * 2^TtlBits
  BY <1>1, PowerSum DEF NewDayBits
<1>10. 2^NewDayBits = 2^MinBits * 2^TtlMinBits
  BY <1>1, PowerSum DEF NewDayBits
<1> QED BY <1>1, <1>2, <1>3, <1>4, <1>5, <1>6, <1>7, <1>8, <1>9, <1>10

\* A row without a lifetime.
LEMMA PlainFields ==
  ASSUME NEW cday \in 0 .. 2^OldDayBits - 1, NEW delta \in 0 .. 2^NewDayBits - 1,
         NEW K \in Nat, NEW x, x = PackPlain(cday, delta) + K * 2^FlagShift
  PROVE  /\ x \in Nat
         /\ Take(x, 0, OldDayBits) = cday
         /\ Take(x, OldDayBits, NewDayBits) = delta
         /\ x \div 2^FlagShift = K
         /\ PackPlain(cday, delta) \in Nat
<1>1. /\ OldDayBits \in Nat /\ NewDayBits \in Nat /\ 0 \in Nat
      /\ 2^OldDayBits \in Nat \ {0} /\ 2^NewDayBits \in Nat \ {0}
  BY Widths, PowerPositive
<1>2. /\ x = cday + (delta + K * 2^NewDayBits) * 2^OldDayBits
      /\ PackPlain(cday, delta) \in Nat
  <2>1. PackPlain(cday, delta) = cday + delta * 2^OldDayBits
    <3>1. cday % 2^OldDayBits = cday /\ delta % 2^NewDayBits = delta
      BY <1>1
    <3>2. Put(cday, 0, OldDayBits) = cday
      BY <1>1, <3>1, Widths DEF Put
    <3>3. Put(delta, OldDayBits, NewDayBits) = delta * 2^OldDayBits
      BY <1>1, <3>1 DEF Put
    <3>4. delta = 0 => delta * 2^OldDayBits = 0
      BY <1>1
    <3> QED BY <1>1, <3>2, <3>3, <3>4 DEF PackPlain
  <2>2. K * 2^FlagShift = (K * 2^NewDayBits) * 2^OldDayBits
    BY <1>1, Widths
  <2> QED BY <1>1, <2>1, <2>2
<1>3. 0 \in 0 .. 2^0 - 1
  BY Widths
<1>4. Holds(x, OldDayBits, cday, NewDayBits, delta, 0, 0, K)
  <2>1. K = 0 + K * 2^0
    BY Widths
  <2> QED BY <1>1, <1>2, <1>3, <2>1 DEF Holds
<1>5. OldDayBits + NewDayBits + 0 = FlagShift
  BY <1>1 DEF FlagShift
<1> QED BY <1>1, <1>2, <1>3, <1>4, <1>5, ThreeFields

\* x is the day field of a row with a lifetime in days, with K above it.
HoldsDay(x, cday, delta, days, K) ==
  /\ cday \in Nat /\ delta \in Nat /\ cday + delta < 2^SubDayBits
  /\ days \in 1 .. MAX_TTL_DAYS /\ K \in Nat
  /\ x = PackDay(cday, delta, days) + K * 2^FlagShift

\* A row with a lifetime in days.
LEMMA DayFields ==
  ASSUME NEW x, NEW cday, NEW delta, NEW days, NEW K, HoldsDay(x, cday, delta, days, K)
  PROVE  /\ x \in Nat
         /\ Take(x, 0, OldDayBits) = IF delta > MAX_EXP_DELTA THEN cday + delta ELSE cday
         /\ Take(x, OldDayBits, ExpDeltaBits) = IF delta > MAX_EXP_DELTA THEN 0 ELSE delta
         /\ Take(x, TtlShift, TtlBits) = days
         /\ Take(x, SubDayShift, 1) = 0
         /\ x \div 2^FlagShift = K
         /\ PackDay(cday, delta, days) \in Nat
<1> DEFINE P == 2^SubDayBits
           O == 2^OldDayBits
           E == 2^ExpDeltaBits
           L == 2^TtlBits
           D == 2^SubDeltaBits
           s == IF delta > MAX_EXP_DELTA THEN cday + delta ELSE cday
           e == IF delta > MAX_EXP_DELTA THEN 0 ELSE delta
           up == e + (days + K * L) * E
<1> USE DEF HoldsDay
<1>1. {SubDayBits, OldDayBits, ExpDeltaBits, TtlBits, SubDeltaBits} \subseteq Nat
  BY Widths
<1>2. {P, O, E, L, D} \subseteq Nat \ {0}
  BY <1>1, PowerPositive
<1>3. O = P * 2 * D /\ 2^TtlShift = O * E /\ 2^FlagShift = O * (E * L)
  BY Widths
<1>4. O >= P
  <2>1. P * 2 * D >= P
    <3> HIDE DEF P, D
    <3>1. P * 2 * D = P * (2 * D) /\ 2 * D >= 1 /\ 2 * D \in Nat
      BY <1>2
    <3>2. P * (2 * D) >= P * 1
      BY <1>2, <3>1
    <3> QED BY <1>2, <3>1, <3>2
  <2> QED BY <2>1, <1>3
<1>5. s \in 0 .. P - 1 /\ s \in 0 .. O - 1
  BY <1>2, <1>4
<1>6. e \in 0 .. E - 1 /\ days \in 0 .. L - 1
  BY <1>2 DEF MAX_EXP_DELTA, MAX_TTL_DAYS
<1>7. PackDay(cday, delta, days) = s + (e + days * E) * O
  <2>1. Least(days, MAX_TTL_DAYS) * 2^TtlShift = (days * E) * O
    <3>1. Least(days, MAX_TTL_DAYS) = days
      BY <1>2 DEF Least, MAX_TTL_DAYS
    <3> HIDE DEF E, O
    <3> QED BY <1>2, <1>3, <3>1
  <2>2. CASE delta > MAX_EXP_DELTA
    <3>1. Put(cday + delta, 0, OldDayBits) = s
      <4>1. (cday + delta) % O = cday + delta
        BY <1>2, <1>4
      <4> QED BY <2>2, <4>1, Widths DEF Put
    <3>2. e + days * E = days * E
      BY <2>2, <1>2
    <3> QED BY <2>1, <2>2, <3>1, <3>2 DEF PackDay
  <2>3. CASE ~(delta > MAX_EXP_DELTA)
    <3>1. Put(delta, OldDayBits, ExpDeltaBits) = e * O
      <4>1. delta % E = delta
        BY <1>2, <1>6, <2>3
      <4> QED BY <2>3, <4>1 DEF Put
    <3>2. PackDay(cday, delta, days) = s + e * O + (days * E) * O
      BY <2>1, <2>3, <3>1 DEF PackDay
    <3>3. s + e * O + (days * E) * O = s + (e + days * E) * O
      <4> HIDE DEF s, e, E, O
      <4> QED BY <1>2, <1>5, <1>6
    <3> QED BY <3>2, <3>3
  <2> QED BY <2>2, <2>3
<1>8. x = s + up * O /\ up \in Nat /\ PackDay(cday, delta, days) \in Nat
  <2>1. K * 2^FlagShift = ((K * L) * E) * O
    <3> HIDE DEF s, e, E, L, O
    <3> QED BY <1>2, <1>3
  <2> HIDE DEF s, e, E, L, O
  <2>2. s + (e + days * E) * O + ((K * L) * E) * O = s + (e + days * E + (K * L) * E) * O
    BY <1>2, <1>5, <1>6
  <2>3. e + days * E + (K * L) * E = up
    BY <1>2, <1>6
  <2>4. up \in Nat /\ s + (e + days * E) * O \in Nat
    BY <1>2, <1>5, <1>6
  <2> QED BY <1>7, <2>1, <2>2, <2>3, <2>4
<1>9. Holds(x, OldDayBits, s, ExpDeltaBits, e, TtlBits, days, K)
  BY <1>1, <1>5, <1>6, <1>8 DEF Holds
<1>10. Holds(x, SubDayBits, s, 1, 0, SubDeltaBits, 0, up)
  <2> DEFINE u == up
  <2> HIDE DEF u
  <2>1. u * O = (0 + (0 + u * D) * 2) * P
    <3> HIDE DEF O, P, D
    <3> QED BY <1>2, <1>3, <1>8 DEF u
  <2>2. 0 \in 0 .. 2^1 - 1 /\ 0 \in 0 .. 2^SubDeltaBits - 1 /\ 1 \in Nat
    BY <1>2, Widths
  <2>3. x = s + (0 + (0 + u * 2^SubDeltaBits) * 2^1) * 2^SubDayBits
    BY <1>8, <2>1, Widths DEF u
  <2> QED BY <1>1, <1>5, <1>8, <2>2, <2>3 DEF Holds, u
<1>11. OldDayBits + ExpDeltaBits = TtlShift /\ OldDayBits + ExpDeltaBits + TtlBits = FlagShift
  BY <1>1 DEF TtlShift, FlagShift, NewDayBits
<1>12. /\ x \in Nat /\ Take(x, 0, OldDayBits) = s /\ Take(x, OldDayBits, ExpDeltaBits) = e
       /\ Take(x, TtlShift, TtlBits) = days /\ x \div 2^FlagShift = K
  <2> HIDE DEF s, e
  <2> QED BY <1>9, <1>11, ThreeFields
<1>13. Take(x, SubDayBits, 1) = 0
  <2> HIDE DEF s, up
  <2> QED BY <1>10, ThreeFields
<1> QED BY <1>8, <1>12, <1>13 DEF SubDayShift

\* x is the day field of a row with a lifetime in minutes, with K above it.
HoldsMinute(x, cday, mdays, mins, delta, K) ==
  /\ cday \in Nat /\ mdays \in Nat /\ mins \in 1 .. MIN_OF_DAY - 1 /\ K \in Nat
  /\ cday <= Day(mdays) /\ Day(mdays) < 2^SubDayBits /\ delta = Day(mdays) - cday
  /\ x = PackMinute(cday, mdays, mins) + K * 2^FlagShift

\* A row with a lifetime in minutes.
LEMMA MinuteFields ==
  ASSUME NEW x, NEW cday, NEW mdays, NEW mins, NEW delta, NEW K,
         HoldsMinute(x, cday, mdays, mins, delta, K)
  PROVE  /\ x \in Nat
         /\ Take(x, 0, SubDayBits) = IF delta <= MAX_SUB_DELTA THEN cday ELSE Day(mdays)
         /\ Take(x, SubDayShift, 1) = 1
         /\ Take(x, SubDeltaShift, SubDeltaBits) = IF delta <= MAX_SUB_DELTA THEN delta ELSE 0
         /\ Take(x, OldDayBits, MinBits) = mdays % MIN_OF_DAY
         /\ Take(x, TtlMinShift, TtlMinBits) = mins
         /\ x \div 2^FlagShift = K
         /\ PackMinute(cday, mdays, mins) \in Nat
<1> DEFINE P == 2^SubDayBits
           O == 2^OldDayBits
           M == 2^MinBits
           T == 2^TtlMinBits
           D == 2^SubDeltaBits
           near == delta <= MAX_SUB_DELTA
           s == IF near THEN cday ELSE Day(mdays)
           e == IF near THEN delta ELSE 0
           m == mdays % MIN_OF_DAY
           low == s + (1 + e * 2) * P
           up == m + (mins + K * T) * M
<1> USE DEF HoldsMinute
<1>1. /\ {SubDayBits, OldDayBits, MinBits, TtlMinBits, SubDeltaBits} \subseteq Nat
      /\ MIN_OF_DAY \in Nat \ {0}
  BY Widths
<1>2. {P, O, M, T, D} \subseteq Nat \ {0}
  BY <1>1, PowerPositive
<1>3. /\ O = (P * 2) * D /\ 2^TtlMinShift = O * M /\ 2^FlagShift = O * (M * T)
      /\ 2^SubDeltaShift = P * 2 /\ 2^SubDayShift = P
  BY Widths DEF SubDeltaShift, SubDayShift
<1>4. Day(mdays) \in Nat /\ m \in 0 .. MIN_OF_DAY - 1
  BY <1>1, DivMod DEF Day
<1>5. MIN_OF_DAY <= M /\ MIN_OF_DAY < T
  BY CodecAssumption DEF CodecAssumption
<1>6. delta \in Nat /\ s \in 0 .. P - 1 /\ e \in 0 .. D - 1
  BY <1>2, <1>4 DEF MAX_SUB_DELTA
<1>7. m \in 0 .. M - 1 /\ mins \in 0 .. T - 1
  BY <1>1, <1>2, <1>4, <1>5
<1>8. low \in 0 .. O - 1
  <2> HIDE DEF s, e, P, O, D
  <2>1. s + 1 * P \in 0 .. P * 2 - 1
    <3>1. 1 \in 0 .. 2 - 1 /\ 2 \in Nat \ {0}
      OBVIOUS
    <3> QED BY <1>2, <1>6, <3>1, TwoFields
  <2>2. P * 2 \in Nat \ {0}
    BY <1>2
  <2>3. (s + 1 * P) + e * (P * 2) \in 0 .. (P * 2) * D - 1
    <3> DEFINE v == s + 1 * P
               w == P * 2
    <3>1. v \in 0 .. w - 1 /\ w \in Nat \ {0}
      BY <2>1, <2>2
    <3> HIDE DEF v, w
    <3>2. v + e * w \in 0 .. w * D - 1
      BY <1>2, <1>6, <3>1, TwoFields
    <3> QED BY <3>2 DEF v, w
  <2>4. (1 + e * 2) * P = 1 * P + e * (P * 2)
    BY <1>2, <1>6
  <2>5. low = (s + 1 * P) + e * (P * 2)
    BY <2>4, <1>2, <1>6
  <2> QED BY <1>3, <2>3, <2>5
<1>9. PackMinute(cday, mdays, mins) = low + (m + mins * M) * O
  <2>1. Most(1, Least(mins, MAX_TTL_MINS)) = mins
    BY <1>1, <1>2, <1>5 DEF Most, Least, MAX_TTL_MINS
  <2>2. Put(s, 0, SubDayBits) = s
    <3>1. s % P = s
      BY <1>2, <1>6
    <3> HIDE DEF s
    <3> QED BY <1>6, <3>1, Widths DEF Put
  <2>3. 0 <= delta
    BY <1>6
  <2>4. (IF near THEN delta * 2^SubDeltaShift ELSE 0) = e * (P * 2)
    <3>1. CASE near
      BY <3>1, <1>3
    <3>2. CASE ~near
      BY <3>2, <1>2
    <3> QED BY <3>1, <3>2
  <2>5. PackMinute(cday, mdays, mins) = s + e * (P * 2) + P + m * O + mins * (O * M)
    <3>1. PackMinute(cday, mdays, mins)
            = Put(s, 0, SubDayBits) + (IF near THEN delta * 2^SubDeltaShift ELSE 0)
                + 2^SubDayShift + m * 2^OldDayBits
                + Most(1, Least(mins, MAX_TTL_MINS)) * 2^TtlMinShift
      BY <2>3 DEF PackMinute
    <3> HIDE DEF s, near, m, e
    <3> QED BY <3>1, <2>1, <2>2, <2>4, <1>3
  <2> HIDE DEF s, e, m, P, O, M
  <2>6. (1 + e * 2) * P = P + e * (P * 2)
    BY <1>2, <1>6
  <2>7. (m + mins * M) * O = m * O + mins * (O * M)
    BY <1>2, <1>7
  <2>8. e * (P * 2) \in Nat /\ m * O \in Nat /\ mins * (O * M) \in Nat
    BY <1>2, <1>6, <1>7
  <2> QED BY <2>5, <2>6, <2>7, <2>8, <1>2, <1>6

<1>10. x = low + up * O /\ up \in Nat /\ PackMinute(cday, mdays, mins) \in Nat
  <2>1. K * 2^FlagShift = ((K * T) * M) * O
    <3> HIDE DEF M, T, O
    <3> QED BY <1>2, <1>3
  <2> HIDE DEF low, m, M, T, O
  <2>2. low + (m + mins * M) * O + ((K * T) * M) * O = low + (m + mins * M + (K * T) * M) * O
    BY <1>2, <1>7, <1>8
  <2>3. m + mins * M + (K * T) * M = up
    BY <1>2, <1>7
  <2>4. up \in Nat /\ low + (m + mins * M) * O \in Nat
    BY <1>2, <1>7, <1>8
  <2> QED BY <1>9, <2>1, <2>2, <2>3, <2>4
<1>11. Holds(x, OldDayBits, low, MinBits, m, TtlMinBits, mins, K)
  BY <1>1, <1>7, <1>8, <1>10 DEF Holds
<1>12. Holds(x, SubDayBits, s, 1, 1, SubDeltaBits, e, up)
  <2>1. up * O = ((up * D) * 2) * P
    <3> HIDE DEF O, P, D, up
    <3> QED BY <1>2, <1>3, <1>10
  <2>2. 1 \in 0 .. 2^1 - 1 /\ 1 \in Nat
    BY Widths
  <2> HIDE DEF s, e, P, D, O, up
  <2>3. (1 + e * 2) * P + ((up * D) * 2) * P = (1 + (e + up * D) * 2) * P
    BY <1>2, <1>6, <1>10
  <2>4. x = s + (1 + (e + up * D) * 2) * P
    <3>1. (1 + e * 2) * P \in Nat /\ ((up * D) * 2) * P \in Nat
      BY <1>2, <1>6, <1>10
    <3> QED BY <1>6, <1>10, <2>1, <2>3, <3>1 DEF low
  <2>5. x = s + (1 + (e + up * 2^SubDeltaBits) * 2^1) * 2^SubDayBits
    BY <2>4, Widths DEF P, D
  <2> QED BY <1>1, <1>6, <1>10, <2>2, <2>5 DEF Holds, P, D
<1>13. /\ OldDayBits + MinBits = TtlMinShift /\ OldDayBits + MinBits + TtlMinBits = FlagShift
       /\ SubDayBits + 1 = SubDeltaShift
  BY <1>1, CodecAssumption DEF CodecAssumption, TtlMinShift, FlagShift, NewDayBits, SubDeltaShift
<1>14. /\ x \in Nat /\ Take(x, OldDayBits, MinBits) = m
       /\ Take(x, TtlMinShift, TtlMinBits) = mins /\ x \div 2^FlagShift = K
  <2> HIDE DEF low, m
  <2> QED BY <1>11, <1>13, ThreeFields
<1>15. /\ Take(x, 0, SubDayBits) = s /\ Take(x, SubDayBits, 1) = 1
       /\ Take(x, SubDeltaShift, SubDeltaBits) = e
  <2> HIDE DEF s, e, up
  <2> QED BY <1>12, <1>13, ThreeFields
<1> QED BY <1>10, <1>14, <1>15 DEF SubDayShift

-----------------------------------------------------------------------------
(* The row.                                                                *)

\* The parts of a key: every string.  The provers do not find by themselves
\* that a literal is one.
KeyParts == STRING \cup {"k"}

\* A row that write_key makes while days fit in their fields.
GoodRow(row) ==
  /\ row \in [key : Seq(KeyParts) \ {<<>>}, file : Nat, row_size : 0 .. 2^SizeBits - 1,
              val_size : Nat, cdays : Nat, mdays : Nat,
              ttl : [mins : Nat, int : BOOLEAN], flags : 0 .. 2^FlagBits - 1]
  /\ row.cdays <= Day(row.mdays)
  /\ Day(row.mdays) < 2^SubDayBits /\ Day(row.mdays) < 2^NewDayBits
  /\ \/ row.ttl = NoTtl
     \/ \E n \in 1 .. MAX_TTL_DAYS : row.ttl = DayTtl(n)
     \/ \E n \in 1 .. MIN_OF_DAY - 1 : row.ttl = MinTtl(n)
  /\ ~SubDay(row.ttl) => row.mdays = Minutes(Day(row.mdays))
  /\ Has(row.flags, KF_EXPIRE) <=> row.ttl.mins > 0
  /\ (row.file = GroupFile /\ row.row_size = 0) => Has(row.flags, KF_GROUP)

\* The creation day that the file keeps: the one of the row, unless the stamp
\* is too many days later for the field of the difference.
KeptDay(row) ==
  LET delta == Day(row.mdays) - row.cdays
      limit == IF SubDay(row.ttl) THEN MAX_SUB_DELTA ELSE MAX_EXP_DELTA
  IN IF row.ttl.mins > 0 /\ delta > limit THEN Day(row.mdays) ELSE row.cdays

\* A day is as many minutes as it has, and a stamp is its day and its minute.
LEMMA DayOfMinutes ==
  /\ \A d \in Nat : Day(Minutes(d)) = d /\ Minutes(d) \in Nat
  /\ \A m \in Nat : /\ Day(m) \in Nat
                    /\ m = Minutes(Day(m)) + (m % MIN_OF_DAY)
                    /\ m % MIN_OF_DAY \in 0 .. MIN_OF_DAY - 1
  /\ \A d \in Nat \ {0} : Minutes(d) >= MIN_OF_DAY
<1>1. MIN_OF_DAY \in Nat \ {0}
  BY Widths
<1>2. ASSUME NEW d \in Nat
      PROVE  Day(Minutes(d)) = d /\ Minutes(d) \in Nat
  <2>1. (0 + d * MIN_OF_DAY) \div MIN_OF_DAY = d
    <3>1. 0 \in 0 .. MIN_OF_DAY - 1
      BY <1>1
    <3> QED BY <1>1, <3>1, DivUnique
  <2> QED BY <1>1, <2>1 DEF Day, Minutes
<1>3. ASSUME NEW m \in Nat
      PROVE  /\ Day(m) \in Nat
             /\ m = Minutes(Day(m)) + (m % MIN_OF_DAY)
             /\ m % MIN_OF_DAY \in 0 .. MIN_OF_DAY - 1
  <2>1. /\ m \div MIN_OF_DAY \in Nat /\ m % MIN_OF_DAY \in 0 .. MIN_OF_DAY - 1
        /\ m = MIN_OF_DAY * (m \div MIN_OF_DAY) + (m % MIN_OF_DAY)
    BY <1>1, DivMod
  <2>2. MIN_OF_DAY * (m \div MIN_OF_DAY) = (m \div MIN_OF_DAY) * MIN_OF_DAY
    BY <1>1, <2>1
  <2> QED BY <2>1, <2>2 DEF Day, Minutes
<1>4. ASSUME NEW d \in Nat \ {0}
      PROVE  Minutes(d) >= MIN_OF_DAY
  BY <1>1 DEF Minutes
<1> QED BY <1>2, <1>3, <1>4

\* What loads takes out of the day field is what dumps has put there.
LEMMA DaysReturn ==
  ASSUME NEW row, GoodRow(row), NEW K \in Nat, NEW x, x = Days(row) + K * 2^FlagShift
  PROVE  /\ x \in Nat /\ x \div 2^FlagShift = K /\ Days(row) \in Nat
         /\ UnpackDays(x, row.flags)
              = [cdays |-> KeptDay(row), ttl |-> row.ttl, mdays |-> row.mdays]
<1> DEFINE cday == row.cdays
           mday == Day(row.mdays)
           delta == mday - cday
<1>1. /\ cday \in Nat /\ mday \in Nat /\ delta \in Nat /\ row.mdays \in Nat
      /\ mday < 2^SubDayBits /\ mday < 2^NewDayBits /\ cday + delta = mday
      /\ 2^SubDayBits \in Nat /\ 2^NewDayBits \in Nat /\ 2^OldDayBits \in Nat
      /\ MIN_OF_DAY \in Nat \ {0}
  <2>1. row.cdays \in Nat /\ row.mdays \in Nat /\ Day(row.mdays) \in Nat
    BY DayOfMinutes DEF GoodRow
  <2>2. 2^SubDayBits \in Nat /\ 2^NewDayBits \in Nat /\ 2^OldDayBits \in Nat
        /\ MIN_OF_DAY \in Nat \ {0}
    BY Widths, PowerPositive
  <2>3. /\ row.cdays <= Day(row.mdays)
        /\ Day(row.mdays) < 2^SubDayBits /\ Day(row.mdays) < 2^NewDayBits
    BY DEF GoodRow
  <2> QED BY <2>1, <2>2, <2>3
<1>2. /\ Has(row.flags, KF_EXPIRE) <=> row.ttl.mins > 0
      /\ ~SubDay(row.ttl) => row.mdays = Minutes(Day(row.mdays))
  BY DEF GoodRow
<1>3. 2^SubDayBits <= 2^OldDayBits
  <2> DEFINE P == 2^SubDayBits
             D == 2^SubDeltaBits
  <2>1. P \in Nat \ {0} /\ D \in Nat \ {0} /\ 2^OldDayBits = P * 2 * D
    BY Widths, PowerPositive
  <2>2. P * 2 * D >= P
    <3> HIDE DEF P, D
    <3>1. P * 2 * D = P * (2 * D) /\ 2 * D >= 1 /\ 2 * D \in Nat
      BY <2>1
    <3>2. P * (2 * D) >= P * 1
      BY <2>1, <3>1
    <3> QED BY <2>1, <3>1, <3>2
  <2> QED BY <2>1, <2>2
<1>4. CASE row.ttl = NoTtl
  <2>1. row.ttl.mins = 0 /\ ~SubDay(row.ttl) /\ ~Has(row.flags, KF_EXPIRE)
    BY <1>4 DEF NoTtl, SubDay, GoodRow
  <2>2. x = PackPlain(cday, delta) + K * 2^FlagShift /\ Days(row) = PackPlain(cday, delta)
    BY <2>1 DEF Days, PackDays
  <2>3. /\ x \in Nat /\ Take(x, 0, OldDayBits) = cday
        /\ Take(x, OldDayBits, NewDayBits) = delta /\ x \div 2^FlagShift = K
        /\ Days(row) \in Nat
    <3>1. cday \in 0 .. 2^OldDayBits - 1 /\ delta \in 0 .. 2^NewDayBits - 1
      BY <1>1, <1>3
    <3> HIDE DEF cday, delta
    <3> QED BY <2>2, <3>1, PlainFields
  <2>4. KeptDay(row) = cday
    BY <2>1 DEF KeptDay
  <2>5. Minutes(cday + delta) = row.mdays
    BY <1>1, <2>1 DEF GoodRow
  <2>6. UnpackDays(x, row.flags) = [cdays |-> cday, ttl |-> NoTtl, mdays |-> Minutes(cday + delta)]
    <3> HIDE DEF cday, delta
    <3> QED BY <2>1, <2>3 DEF UnpackDays
  <2> QED BY <1>4, <2>3, <2>4, <2>5, <2>6

<1>5. CASE \E n \in 1 .. MAX_TTL_DAYS : row.ttl = DayTtl(n)
  <2>1. PICK n \in 1 .. MAX_TTL_DAYS : row.ttl = DayTtl(n)
    BY <1>5
  <2>2. /\ n \in Nat \ {0} /\ row.ttl.mins = Minutes(n) /\ Minutes(n) >= MIN_OF_DAY
        /\ Minutes(n) \in Nat /\ Day(row.ttl.mins) = n
    <3>1. n \in Nat \ {0}
      BY PowerPositive, Widths DEF MAX_TTL_DAYS
    <3>2. row.ttl.mins = Minutes(n)
      BY <2>1 DEF DayTtl
    <3> QED BY <3>1, <3>2, DayOfMinutes
  <2>3. row.ttl.mins > 0 /\ ~SubDay(row.ttl) /\ Has(row.flags, KF_EXPIRE)
    BY <1>1, <1>2, <2>2 DEF SubDay
  <2>4. x = PackDay(cday, delta, n) + K * 2^FlagShift /\ Days(row) = PackDay(cday, delta, n)
    <3>1. ~(row.ttl.mins <= 0) /\ ~(row.ttl.mins < MIN_OF_DAY)
      BY <1>1, <2>2
    <3> QED BY <2>2, <3>1 DEF Days, PackDays
  <2> DEFINE s == IF delta > MAX_EXP_DELTA THEN cday + delta ELSE cday
             e == IF delta > MAX_EXP_DELTA THEN 0 ELSE delta
  <2>5. /\ x \in Nat /\ Take(x, 0, OldDayBits) = s /\ Take(x, OldDayBits, ExpDeltaBits) = e
        /\ Take(x, TtlShift, TtlBits) = n /\ Take(x, SubDayShift, 1) = 0
        /\ x \div 2^FlagShift = K /\ Days(row) \in Nat
    <3>1. cday + delta < 2^SubDayBits /\ cday \in Nat /\ delta \in Nat
      BY <1>1
    <3>2. HoldsDay(x, cday, delta, n, K)
      BY <2>4, <3>1 DEF HoldsDay
    <3> HIDE DEF cday, delta
    <3> QED BY <2>4, <3>2, DayFields
  <2>6. KeptDay(row) = s
    BY <1>1, <2>3 DEF KeptDay
  <2>7. Minutes(s + e) = row.mdays
    <3>1. s + e = mday
      BY <1>1
    <3> QED BY <3>1, <2>3 DEF GoodRow
  <2>8. UnpackDays(x, row.flags) = [cdays |-> s, ttl |-> DayTtl(n), mdays |-> Minutes(s + e)]
    <3> HIDE DEF s, e
    <3> QED BY <2>3, <2>5 DEF UnpackDays
  <2> HIDE DEF s, e
  <2> QED BY <2>1, <2>5, <2>6, <2>7, <2>8
<1>6. CASE \E n \in 1 .. MIN_OF_DAY - 1 : row.ttl = MinTtl(n)
  <2>1. PICK n \in 1 .. MIN_OF_DAY - 1 : row.ttl = MinTtl(n)
    BY <1>6
  <2>2. row.ttl.mins = n /\ n > 0 /\ n < MIN_OF_DAY
    BY <1>1, <2>1 DEF MinTtl
  <2>3. row.ttl.mins > 0 /\ SubDay(row.ttl) /\ Has(row.flags, KF_EXPIRE)
    BY <1>2, <2>2 DEF SubDay
  <2>4. /\ x = PackMinute(cday, row.mdays, n) + K * 2^FlagShift
        /\ Days(row) = PackMinute(cday, row.mdays, n)
    <3>1. ~(row.ttl.mins <= 0) /\ row.ttl.mins < MIN_OF_DAY /\ Day(row.mdays) < 2^SubDayBits
      BY <1>1, <2>2
    <3> QED BY <2>2, <3>1 DEF Days, PackDays
  <2> DEFINE s == IF delta <= MAX_SUB_DELTA THEN cday ELSE mday
             e == IF delta <= MAX_SUB_DELTA THEN delta ELSE 0
  <2>5. /\ x \in Nat /\ Take(x, 0, SubDayBits) = s /\ Take(x, SubDayShift, 1) = 1
        /\ Take(x, SubDeltaShift, SubDeltaBits) = e
        /\ Take(x, OldDayBits, MinBits) = row.mdays % MIN_OF_DAY
        /\ Take(x, TtlMinShift, TtlMinBits) = n /\ x \div 2^FlagShift = K
        /\ Days(row) \in Nat
    <3>1. cday <= Day(row.mdays) /\ delta = Day(row.mdays) - cday
      BY <1>1
    <3>2. HoldsMinute(x, cday, row.mdays, n, delta, K)
      BY <1>1, <2>4, <3>1 DEF HoldsMinute
    <3> HIDE DEF cday, delta
    <3> QED BY <2>4, <3>2, MinuteFields
  <2>6. KeptDay(row) = s
    <3>1. MAX_SUB_DELTA \in Int
      BY Widths, PowerPositive DEF MAX_SUB_DELTA
    <3> QED BY <1>1, <2>3, <3>1 DEF KeptDay
  <2>7. Minutes(s + e) + (row.mdays % MIN_OF_DAY) = row.mdays
    <3>1. s + e = mday
      BY <1>1
    <3> QED BY <3>1, <1>1, DayOfMinutes
  <2>8. UnpackDays(x, row.flags) = [cdays |-> s, ttl |-> MinTtl(n),
                                    mdays |-> Minutes(s + e) + (row.mdays % MIN_OF_DAY)]
    <3> HIDE DEF s, e
    <3> QED BY <2>3, <2>5 DEF UnpackDays
  <2> HIDE DEF s, e
  <2> QED BY <2>1, <2>5, <2>6, <2>7, <2>8
<1> QED BY <1>4, <1>5, <1>6 DEF GoodRow

\* A row as loads gives it back.
AsRead(row) == [row EXCEPT !.cdays = KeptDay(row)]

\* The parts of a sequence that was put together.
LEMMA PartsOfSequence ==
  ASSUME NEW S, NEW s \in Seq(S), NEW t \in Seq(S)
  PROVE  /\ Len(s \o t) = Len(s) + Len(t)
         /\ SubSeq(s \o t, Len(s) + 1, Len(s) + Len(t)) = t
         /\ SubSeq(s \o t, 1, Len(s)) = s
         /\ s # <<>> => (s \o t)[1] = s[1]
<1>1. Len(s) \in Nat /\ Len(t) \in Nat /\ Len(s \o t) = Len(s) + Len(t) /\ s \o t \in Seq(S)
  OBVIOUS
<1>2. \A i \in 1 .. Len(s) : (s \o t)[i] = s[i]
  OBVIOUS
<1>3. \A i \in 1 .. Len(t) : (s \o t)[Len(s) + i] = t[i]
  OBVIOUS
<1>4. SubSeq(s \o t, Len(s) + 1, Len(s) + Len(t)) = t
  OBVIOUS
<1>5. SubSeq(s \o t, 1, Len(s)) = s
  OBVIOUS
<1>6. s # <<>> => (s \o t)[1] = s[1]
  OBVIOUS
<1> QED BY <1>1, <1>4, <1>5, <1>6

\* The fields after the key come back in every version.
LEMMA FieldsReturn ==
  ASSUME NEW v \in 0 .. 2, NEW row, GoodRow(row)
  PROVE  Loads(v, row.key, Fields(v, row)) = AsRead(row)
<1> DEFINE R == 2^SizeBits
           F == 2^FlagBits
           x == Days(row) + row.flags * 2^FlagShift
<1>1. /\ R \in Nat \ {0} /\ F \in Nat \ {0} /\ 2^FlagShift \in Nat \ {0}
      /\ SizeBits \in Nat /\ FlagBits \in Nat
  BY Widths, PowerPositive DEF FlagBits
<1>2. /\ row = [key |-> row.key, file |-> row.file, row_size |-> row.row_size,
                val_size |-> row.val_size, cdays |-> row.cdays, mdays |-> row.mdays,
                ttl |-> row.ttl, flags |-> row.flags]
      /\ row.row_size \in 0 .. R - 1 /\ row.val_size \in Nat /\ row.flags \in 0 .. F - 1
      /\ (row.file = GroupFile /\ row.row_size = 0) => Has(row.flags, KF_GROUP)
  BY DEF GoodRow
<1>3. AsRead(row) = [key |-> row.key, file |-> row.file, row_size |-> row.row_size,
                     val_size |-> row.val_size, cdays |-> KeptDay(row), mdays |-> row.mdays,
                     ttl |-> row.ttl, flags |-> row.flags]
  BY <1>2 DEF AsRead
<1>4. /\ x \in Nat /\ x \div 2^FlagShift = row.flags
      /\ UnpackDays(x, row.flags)
           = [cdays |-> KeptDay(row), ttl |-> row.ttl, mdays |-> row.mdays]
  BY <1>1, <1>2, DaysReturn
<1>5. Flagged(row) = x
  <2>1. row.flags % F = row.flags
    BY <1>1, <1>2
  <2> QED BY <2>1 DEF Flagged, Put
<1>6. LoadedFlags(x, row.file, row.row_size) = row.flags
  <2>1. Take(x, FlagShift, FlagBits) = row.flags
    <3>1. row.flags % F = row.flags
      BY <1>1, <1>2
    <3> HIDE DEF x
    <3> QED BY <3>1, <1>4 DEF Take
  <2> HIDE DEF x
  <2> QED BY <2>1, <1>2 DEF LoadedFlags, With
<1>7. \A rsize, vsize : Loaded(row.key, row.file, rsize, vsize, x, row.flags)
        = [key |-> row.key, file |-> row.file, row_size |-> rsize, val_size |-> vsize,
           cdays |-> KeptDay(row), mdays |-> row.mdays, ttl |-> row.ttl, flags |-> row.flags]
  <2> HIDE DEF x
  <2> QED BY <1>4 DEF Loaded
<1>8. CASE v = 0
  <2> DEFINE size == row.row_size + row.val_size * R
  <2>1. size % R = row.row_size /\ size \div R = row.val_size
    BY <1>1, <1>2, DivUnique
  <2>2. Fields(0, row) = <<row.file, size, x>>
    BY <1>5 DEF Fields, DumpsV0
  <2> HIDE DEF x, size
  <2>3. LoadsV0(row.key, <<row.file, size, x>>)
          = Loaded(row.key, row.file, row.row_size, row.val_size, x, row.flags)
    BY <2>1, <1>6 DEF LoadsV0
  <2> QED BY <1>3, <1>7, <1>8, <2>2, <2>3 DEF Loads
<1>9. CASE v = 1
  <2>1. Fields(1, row) = <<row.file, row.row_size, row.val_size, x>>
    BY <1>5 DEF Fields, DumpsV1
  <2> HIDE DEF x
  <2>2. LoadsV1(row.key, <<row.file, row.row_size, row.val_size, x>>)
          = Loaded(row.key, row.file, row.row_size, row.val_size, x, row.flags)
    BY <1>6 DEF LoadsV1
  <2> QED BY <1>3, <1>7, <1>9, <2>1, <2>2 DEF Loads
<1>10. CASE v = 2
  <2> DEFINE y == Days(row) + 0 * 2^FlagShift
  <2>1. /\ UnpackDays(y, row.flags)
             = [cdays |-> KeptDay(row), ttl |-> row.ttl, mdays |-> row.mdays]
        /\ Days(row) \in Nat
    BY DaysReturn
  <2>2. y = Days(row)
    BY <2>1, <1>1
  <2>3. Fields(2, row) = <<row.file, row.row_size, row.val_size, y, row.flags>>
    BY <2>2 DEF Fields, DumpsV2
  <2> HIDE DEF y
  <2>4. LoadsV2(row.key, <<row.file, row.row_size, row.val_size, y, row.flags>>) = AsRead(row)
    BY <2>1, <1>3 DEF LoadsV2, Loaded
  <2> QED BY <1>10, <2>3, <2>4 DEF Loads
<1> QED BY <1>8, <1>9, <1>10

\* How many fields follow the key, and that they can be put behind it.
LEMMA FieldsTogether ==
  ASSUME NEW v \in 0 .. 2, NEW row, GoodRow(row)
  PROVE  /\ Width(v) \in Nat /\ Width(v) > 0 /\ Len(Fields(v, row)) = Width(v)
         /\ \E S : Fields(v, row) \in Seq(S) /\ <<row.key>> \in Seq(S) /\ row.key \in Seq(S)
<1>1. v = 0 \/ v = 1 \/ v = 2
  OBVIOUS
<1>2. Width(v) \in Nat /\ Width(v) > 0
  BY <1>1 DEF Width
<1>3. Len(Fields(v, row)) = Width(v)
  BY <1>1 DEF Width, Fields, DumpsV0, DumpsV1, DumpsV2
<1>4. \E S : Fields(v, row) \in Seq(S) /\ <<row.key>> \in Seq(S) /\ row.key \in Seq(S)
  <2> DEFINE F == {Fields(v, row)[i] : i \in 1 .. 5}
             S == F \cup {row.key} \cup KeyParts
  <2>1. Fields(v, row) \in Seq(F)
    <3> DEFINE g == Fields(v, row)
    <3>1. \A i \in 1 .. 5 : g[i] \in F
      OBVIOUS
    <3>2. \/ g = <<g[1], g[2], g[3]>>
          \/ g = <<g[1], g[2], g[3], g[4]>>
          \/ g = <<g[1], g[2], g[3], g[4], g[5]>>
      BY <1>1 DEF Fields, DumpsV0, DumpsV1, DumpsV2
    <3> HIDE DEF F, g
    <3>3. {g[1], g[2], g[3], g[4], g[5]} \subseteq F
      BY <3>1
    <3>4. \A a, b, c, d, e \in F : /\ <<a, b, c>> \in Seq(F) /\ <<a, b, c, d>> \in Seq(F)
                                  /\ <<a, b, c, d, e>> \in Seq(F)
      OBVIOUS
    <3>5. /\ <<g[1], g[2], g[3]>> \in Seq(F) /\ <<g[1], g[2], g[3], g[4]>> \in Seq(F)
          /\ <<g[1], g[2], g[3], g[4], g[5]>> \in Seq(F)
      BY <3>3, <3>4
    <3>6. g \in Seq(F)
      BY <3>2, <3>5, Zenon
    <3> QED BY <3>6 DEF g
  <2>2. row.key \in Seq(KeyParts)
    BY DEF GoodRow
  <2> HIDE DEF F
  <2>3. Fields(v, row) \in Seq(S) /\ row.key \in Seq(S) /\ <<row.key>> \in Seq(S)
    BY <2>1, <2>2
  <2> QED BY <2>3
<1> QED BY <1>2, <1>3, <1>4

\* The five row formats.
Formats == {"J", "M", "S", "L", "U"}

\* Whatever the format and the version of the database, the row that loads
\* gives back is the row that dumps was given; only a creation day that is too
\* far back for its field is replaced by the day of the stamp.
THEOREM RowsReturn ==
  ASSUME NEW f \in Formats, NEW v \in 0 .. 2, NEW row, GoodRow(row)
  PROVE  LoadsRow(f, v, Dumps(f, v, row)) = AsRead(row)
<1>1. ASSUME NEW u \in 0 .. 2
      PROVE  /\ LoadsArray(u, DumpsArray(u, row)) = AsRead(row)
             /\ Len(DumpsArray(u, row)) = 1 + Width(u)
             /\ LoadsText(u, DumpsText(u, row)) = AsRead(row)
  <2> DEFINE F == Fields(u, row)
             W == Width(u)
             key == row.key
  <2>1. PICK S : F \in Seq(S) /\ <<key>> \in Seq(S) /\ key \in Seq(S)
    BY FieldsTogether
  <2>2. W \in Nat /\ W > 0 /\ Len(F) = W
    BY FieldsTogether
  <2>3. Loads(u, key, F) = AsRead(row)
    BY FieldsReturn
  <2>4. key # <<>> /\ key \in Seq(KeyParts)
    BY DEF GoodRow
  <2> HIDE DEF F, W, key
  <2>5. /\ Len(<<key>> \o F) = 1 + W
        /\ SubSeq(<<key>> \o F, 2, 1 + W) = F
        /\ (<<key>> \o F)[1] = key
    BY <2>1, <2>2, PartsOfSequence
  <2>6. LoadsArray(u, DumpsArray(u, row)) = AsRead(row) /\ Len(DumpsArray(u, row)) = 1 + W
    <3>1. DumpsArray(u, row) = <<key>> \o F
      BY DEF DumpsArray, F, key
    <3>2. ~(Len(<<key>> \o F) < 1 + W)
      BY <2>2, <2>5
    <3>3. LoadsArray(u, <<key>> \o F) = Loads(u, key, F)
      BY <2>5, <3>2 DEF LoadsArray, W
    <3> QED BY <2>3, <2>5, <3>1, <3>3
  <2> DEFINE data == key \o F
             n == Len(data)
             back == IF n > W + 1 THEN SubSeq(data, 1, n - W) ELSE <<data[1]>>
  <2>7. /\ n = Len(key) + W /\ SubSeq(data, n - W + 1, n) = F
        /\ SubSeq(data, 1, Len(key)) = key /\ data[1] = key[1]
        /\ Len(key) \in Nat \ {0}
    <3>1. Len(key) \in Nat \ {0}
      BY <2>4
    <3>2. n = Len(key) + W
      BY <2>1, <2>2, PartsOfSequence
    <3>3. n - W + 1 = Len(key) + 1
      BY <2>2, <3>1, <3>2
    <3>4. SubSeq(data, Len(key) + 1, Len(key) + Len(F)) = F
      BY <2>1, PartsOfSequence
    <3>5. SubSeq(data, 1, Len(key)) = key /\ data[1] = key[1]
      BY <2>1, <2>4, PartsOfSequence
    <3> HIDE DEF data, n
    <3> QED BY <2>2, <3>1, <3>2, <3>3, <3>4, <3>5
  <2>8. back = key
    <3> HIDE DEF data, n
    <3>1. CASE n > W + 1
      BY <2>2, <2>7, <3>1
    <3>2. CASE ~(n > W + 1)
      <4>1. Len(key) = 1
        BY <2>2, <2>7, <3>2
      <4>2. key = <<key[1]>>
        BY <2>4, <4>1
      <4> QED BY <2>7, <3>2, <4>2
    <3> QED BY <3>1, <3>2
  <2>9. LoadsText(u, DumpsText(u, row)) = AsRead(row)
    <3>1. DumpsText(u, row) = data
      BY DEF DumpsText, F, key
    <3>2. ~(n < W)
      BY <2>2, <2>7
    <3>3. LoadsText(u, data) = Loads(u, back, SubSeq(data, n - W + 1, n))
      <4>1. LoadsText(u, data) = IF n < W THEN Unreadable
                                 ELSE Loads(u, back, SubSeq(data, n - W + 1, n))
        BY DEF LoadsText, W
      <4> HIDE DEF n, back, data
      <4> QED BY <3>2, <4>1
    <3> HIDE DEF n, back, data
    <3> QED BY <2>3, <2>7, <2>8, <3>1, <3>3
  <2> QED BY <2>6, <2>9 DEF W
<1>2. CASE f = "J" \/ f = "M"
  BY <1>1, <1>2 DEF LoadsRow, Dumps
<1>3. CASE f = "S"
  BY <1>1, <1>3 DEF LoadsRow, Dumps, LoadsTagged
<1>4. CASE f = "L"
  BY <1>1, <1>4 DEF LoadsRow, Dumps
<1>5. CASE f = "U"
  <2>1. UserVersion(v) \in 0 .. 2
    BY DEF UserVersion
  <2> QED BY <1>1, <1>5, <2>1 DEF LoadsRow, Dumps
<1> QED BY <1>2, <1>3, <1>4, <1>5 DEF Formats

\* A row that was read once stays as it is when it is written and read again.
LEMMA ReadRowStays ==
  ASSUME NEW row, GoodRow(row)
  PROVE  /\ GoodRow(AsRead(row)) /\ AsRead(AsRead(row)) = AsRead(row)
         /\ AsRead(row) = [row EXCEPT !.cdays = AsRead(row).cdays]
         /\ AsRead(row).cdays \in {row.cdays, Day(row.mdays)}
<1>1. /\ row \in [key : Seq(KeyParts) \ {<<>>}, file : Nat, row_size : 0 .. 2^SizeBits - 1,
                  val_size : Nat, cdays : Nat, mdays : Nat,
                  ttl : [mins : Nat, int : BOOLEAN], flags : 0 .. 2^FlagBits - 1]
      /\ row.cdays <= Day(row.mdays)
  BY DEF GoodRow
<1>2. KeptDay(row) \in {row.cdays, Day(row.mdays)}
  BY DEF KeptDay
<1>3. KeptDay(row) \in Nat /\ KeptDay(row) <= Day(row.mdays) /\ Day(row.mdays) \in Nat
  <2>1. row.cdays \in Nat /\ row.mdays \in Nat /\ row.cdays <= Day(row.mdays)
    BY <1>1
  <2>2. Day(row.mdays) \in Nat
    BY <2>1, DayOfMinutes
  <2> QED BY <1>2, <2>1, <2>2
<1>4. /\ AsRead(row) \in [key : Seq(KeyParts) \ {<<>>}, file : Nat, row_size : 0 .. 2^SizeBits - 1,
                          val_size : Nat, cdays : Nat, mdays : Nat,
                          ttl : [mins : Nat, int : BOOLEAN], flags : 0 .. 2^FlagBits - 1]
      /\ AsRead(row).cdays = KeptDay(row) /\ AsRead(row).mdays = row.mdays
      /\ AsRead(row).ttl = row.ttl /\ AsRead(row).flags = row.flags
      /\ AsRead(row).file = row.file /\ AsRead(row).row_size = row.row_size
      /\ AsRead(row).key = row.key /\ AsRead(row).val_size = row.val_size
  BY <1>1, <1>3 DEF AsRead
<1>5. GoodRow(AsRead(row))
  BY <1>3, <1>4 DEF GoodRow
<1>6. KeptDay(AsRead(row)) = KeptDay(row)
  <2> DEFINE limit == IF SubDay(row.ttl) THEN MAX_SUB_DELTA ELSE MAX_EXP_DELTA
  <2>1. limit \in Nat
    BY Widths, PowerPositive DEF MAX_SUB_DELTA, MAX_EXP_DELTA
  <2>2. KeptDay(row) = IF row.ttl.mins > 0 /\ Day(row.mdays) - row.cdays > limit
                       THEN Day(row.mdays) ELSE row.cdays
    BY DEF KeptDay
  <2>3. KeptDay(AsRead(row)) = IF row.ttl.mins > 0 /\ Day(row.mdays) - KeptDay(row) > limit
                               THEN Day(row.mdays) ELSE KeptDay(row)
    BY <1>4 DEF KeptDay
  <2> HIDE DEF limit
  <2> QED BY <2>1, <2>2, <2>3, <1>1, <1>3
<1>7. AsRead(AsRead(row)) = AsRead(row)
  <2>1. AsRead(AsRead(row)) = [AsRead(row) EXCEPT !.cdays = KeptDay(row)]
    BY <1>6 DEF AsRead
  <2> QED BY <2>1, <1>1 DEF AsRead
<1>8. AsRead(row) = [row EXCEPT !.cdays = AsRead(row).cdays]
  BY <1>4 DEF AsRead
<1> QED BY <1>2, <1>4, <1>5, <1>7, <1>8

-----------------------------------------------------------------------------
(* Types.                                                                  *)

\* What the quotient is: the largest number of times A fits.
LEMMA Fits ==
  ASSUME NEW A \in Nat \ {0}, NEW x \in Nat
  PROVE  /\ x \div A \in Nat
         /\ \A k \in Nat : k * A <= x <=> k <= x \div A
<1>1. /\ x \div A \in Nat /\ x % A \in 0 .. A - 1
      /\ x = A * (x \div A) + (x % A)
  BY DivMod
<1> DEFINE q == x \div A
           r == x % A
<1> HIDE DEF q, r
<1>2. q \in Nat /\ r \in 0 .. A - 1 /\ x = A * q + r
  BY <1>1 DEF q, r
<1>3. ASSUME NEW k \in Nat, k <= q
      PROVE  k * A <= x
  <2>1. k * A <= q * A
    BY <1>2, <1>3
  <2>2. q * A = A * q
    BY <1>2
  <2> QED BY <1>2, <2>1, <2>2
<1>4. ASSUME NEW k \in Nat, k > q
      PROVE  k * A > x
  <2>1. k * A >= (q + 1) * A
    BY <1>2, <1>4
  <2>2. (q + 1) * A = A * q + A
    BY <1>2
  <2> QED BY <1>2, <2>1, <2>2
<1>5. \A k \in Nat : k * A <= x <=> k <= q
  BY <1>2, <1>3, <1>4
<1> QED BY <1>1, <1>5 DEF q

\* The minute is not after the second it is part of, and neither is the day.
LEMMA ClockFits ==
  ASSUME NEW c \in 0 .. MaxClock
  PROVE  /\ c \div MIN_SEC \in 0 .. MaxClock /\ c \div MIN_SEC \in 0 .. MaxClock \div MIN_SEC
         /\ MaxClock \div MIN_SEC \in Nat
<1>1. MIN_SEC \in Nat \ {0} /\ c \in Nat /\ MaxClock \in Nat /\ c <= MaxClock
  BY Widths, ExpiryAssumption DEF ExpiryAssumption
<1> DEFINE q == c \div MIN_SEC
           m == MaxClock \div MIN_SEC
<1>2. /\ q \in Nat /\ q * MIN_SEC <= c
      /\ m \in Nat /\ \A k \in Nat : k * MIN_SEC <= MaxClock <=> k <= m
  BY <1>1, Fits
<1> HIDE DEF q, m
<1>3. q <= q * MIN_SEC /\ q * MIN_SEC \in Nat
  BY <1>1, <1>2
<1>4. q <= m
  BY <1>1, <1>2, <1>3
<1>5. q <= MaxClock
  BY <1>1, <1>2, <1>3
<1> QED BY <1>1, <1>2, <1>4, <1>5 DEF q, m

\* The lifetime that is kept for the record.
LEMMA CapType ==
  ASSUME NEW secs \in Int, secs >= 0
  PROVE  CapSecs(secs) \in Nat
<1>1. MAX_TTL_DAYS \in Nat /\ DAY_SEC \in Nat
  BY Widths, PowerPositive DEF MAX_TTL_DAYS, DAY_SEC
<1>2. MAX_TTL_DAYS * DAY_SEC \in Nat
  BY <1>1
<1> QED BY <1>2 DEF CapSecs, Least

\* The day a modification counts from is not later than the modification.
LEMMA FloorType ==
  ASSUME NEW m \in 0 .. MaxClock
  PROVE  (m \div DAY_SEC) * DAY_SEC \in 0 .. MaxClock
<1>1. DAY_SEC \in Nat \ {0} /\ m \in Nat /\ MaxClock \in Nat
  <2>1. MIN_SEC \in Nat \ {0} /\ MIN_OF_DAY \in Nat \ {0}
    BY Widths
  <2> QED BY <2>1, ExpiryAssumption DEF ExpiryAssumption, DAY_SEC
<1> DEFINE q == m \div DAY_SEC
<1>2. q \in Nat /\ q * DAY_SEC <= m
  BY <1>1, Fits
<1> HIDE DEF q
<1>3. q * DAY_SEC \in Nat
  BY <1>1, <1>2
<1> QED BY <1>1, <1>2, <1>3 DEF q

\* Nothing leaves its range, and a handle that writes is alone.
LEMMA TypeStep == TypeOK /\ [Next]_vars => TypeOK'
<1> SUFFICES ASSUME TypeOK, [Next]_vars PROVE TypeOK'
  OBVIOUS
<1> USE DEF TypeOK
<1>1. Minute \in 0 .. MaxClock /\ MaxClock \in Nat /\ Lifetimes \subseteq Int
  BY ClockFits, ExpiryAssumption DEF Minute, ExpiryAssumption
<1>2. life.mod \in 0 .. MaxClock /\ life.secs \in Nat
      /\ (life.mod \div DAY_SEC) * DAY_SEC \in 0 .. MaxClock
  BY FloorType
<1>3. CASE Tick
  BY <1>3, <1>1 DEF Tick
<1>4. ASSUME NEW h \in Handles, OpenRead(h) PROVE TypeOK'
  <2>1. /\ mode' = [mode EXCEPT ![h] = "read"] /\ \A o \in Handles \ {h} : mode[o] # "write"
        /\ clock' = clock /\ ver' = ver /\ expired' = expired /\ life' = life
    BY <1>4 DEF OpenRead, MayRead
  <2>2. CASE UNCHANGED <<seen, now, opened>>
    BY <2>1, <2>2
  <2>3. CASE Refresh(h)
    BY <2>1, <2>3, <1>1 DEF Refresh
  <2> QED BY <1>4, <2>2, <2>3 DEF OpenRead
<1>5. ASSUME NEW h \in Handles, OpenWrite(h) PROVE TypeOK'
  BY <1>5, <1>1 DEF OpenWrite, Refresh, MayWrite
<1>6. ASSUME NEW h \in Handles, Close(h) PROVE TypeOK'
  BY <1>6, <1>1 DEF Close, EndSession
<1>7. ASSUME NEW h \in Handles, Switch(h) PROVE TypeOK'
  BY <1>7, <1>1 DEF Switch
<1>8. ASSUME NEW h \in Handles, DropExpired(h) PROVE TypeOK'
  <2>1. /\ mode' \in [Handles -> {"none", "read", "write", "switch"}]
        /\ opened' \in [Handles -> BOOLEAN] /\ expired' \in [Handles -> BOOLEAN]
        /\ now' \in [Handles -> 0 .. MaxClock] /\ clock' = clock /\ ver' = ver
    BY <1>8, <1>1 DEF DropExpired, EndSession
  <2>2. \A a, o \in Handles : (mode'[a] = "write" /\ o # a) => mode'[o] \in {"none", "switch"}
    BY <1>8 DEF DropExpired, EndSession
  <2>3. seen' \in [Handles -> BOOLEAN] /\ life' \in [mod : 0 .. MaxClock, secs : Nat]
    <3>1. CASE Present
      <4>1. Deleted(h)
        BY <1>8, <3>1 DEF DropExpired
      <4> QED BY <4>1, <1>1 DEF Deleted
    <3>2. CASE ~Present
      <4>1. seen' = [seen EXCEPT ![h] = TRUE] /\ life' = life
        BY <1>8, <3>2 DEF DropExpired
      <4> QED BY <4>1
    <3> QED BY <3>1, <3>2
  <2> QED BY <2>1, <2>2, <2>3
<1>9. ASSUME NEW h \in Handles, Read(h) PROVE TypeOK'
  <2> DEFINE known == IF opened[h] THEN now[h] ELSE Minute
             row == Row(h)
  <2>1. known \in 0 .. MaxClock
    BY <1>1
  <2>2. /\ now' = [now EXCEPT ![h] = IF SubDay(row.ttl) THEN Minute ELSE known]
        /\ expired' = [expired EXCEPT ![h] = @ \/ Expired(row, Day(known), Minute)]
        /\ seen' = [seen EXCEPT ![h] = TRUE] /\ opened' = [opened EXCEPT ![h] = TRUE]
        /\ clock' = clock /\ ver' = ver /\ mode' = mode /\ life' = life
    BY <1>9 DEF Read
  <2> HIDE DEF known, row
  <2>3. now' \in [Handles -> 0 .. MaxClock]
    BY <1>1, <2>1, <2>2
  <2>4. (expired[h] \/ Expired(row, Day(known), Minute)) \in BOOLEAN
    OBVIOUS
  <2>5. expired' \in [Handles -> BOOLEAN]
    BY <2>2, <2>4
  <2> QED BY <2>2, <2>3, <2>5
<1>10. ASSUME NEW h \in Handles, Delete(h) PROVE TypeOK'
  BY <1>10, <1>1 DEF Delete, Deleted
<1>11. ASSUME NEW h \in Handles, Recycle(h) PROVE TypeOK'
  BY <1>11, <1>1 DEF Recycle, Deleted, LiveNow
<1>12. ASSUME NEW h \in Handles, Evict(h) PROVE TypeOK'
  BY <1>12 DEF Evict

<1>13. ASSUME NEW h \in Handles, NEW secs \in Lifetimes, NEW keep \in BOOLEAN, Update(h, secs, keep)
       PROVE  TypeOK'
  <2> DEFINE old == Row(h)
             asked == ConvTtl(secs)
             ttl == IF asked.mins < 0 THEN old.ttl ELSE asked
             mod == IF ~keep THEN clock
                    ELSE IF SubDay(ttl) /\ ~SubDay(old.ttl)
                         THEN (life.mod \div DAY_SEC) * DAY_SEC ELSE life.mod
             left == IF secs < 0 THEN life.secs ELSE CapSecs(secs)
  <2>1. /\ life' = [mod |-> mod, secs |-> left]
        /\ seen' \in {seen, [o \in Handles |-> o = h]}
        /\ now' \in {now, [now EXCEPT ![h] = IF SubDay(ttl) /\ ~keep THEN Minute ELSE @]}
        /\ clock' = clock /\ ver' = ver /\ mode' = mode /\ opened' = opened /\ expired' = expired
    BY <1>13 DEF Update, Store, Skipped
  <2>2. left \in Nat
    BY <1>1, CapType
  <2> HIDE DEF ttl, old, asked
  <2>3. mod \in 0 .. MaxClock
    BY <1>2
  <2>4. now' \in [Handles -> 0 .. MaxClock]
    BY <1>1, <2>1
  <2> HIDE DEF mod, left
  <2> QED BY <2>1, <2>2, <2>3, <2>4
<1>14. ASSUME NEW h \in Handles, NEW secs \in Lifetimes, NEW flags, Insert(h, secs, flags)
       PROVE  TypeOK'
  <2> DEFINE left == IF secs < 0 THEN 0 ELSE CapSecs(secs)
  <2>1. /\ life' = [mod |-> clock, secs |-> left]
        /\ seen' = [o \in Handles |-> o = h]
        /\ clock' = clock /\ ver' = ver /\ mode' = mode /\ opened' = opened
        /\ expired' = expired /\ now' = now
    BY <1>14 DEF Insert, Store
  <2>2. left \in Nat
    BY <1>1, CapType
  <2> HIDE DEF left
  <2> QED BY <2>1, <2>2
<1>15. ASSUME NEW h \in Handles, NEW secs \in Lifetimes, SetLifetime(h, secs)
       PROVE  TypeOK'
  <2> DEFINE old == Row(h)
             asked == ConvTtl(secs)
             ttl == IF asked.mins < 0 THEN NoTtl ELSE asked
             mod == IF SubDay(ttl) /\ ~SubDay(old.ttl)
                    THEN (life.mod \div DAY_SEC) * DAY_SEC ELSE life.mod
             left == IF secs < 0 THEN 0 ELSE CapSecs(secs)
  <2>1. /\ life' = [mod |-> mod, secs |-> left]
        /\ seen' = [o \in Handles |-> o = h]
        /\ clock' = clock /\ ver' = ver /\ mode' = mode /\ opened' = opened
        /\ expired' = expired /\ now' = now
    BY <1>15 DEF SetLifetime, Store
  <2>2. left \in Nat
    BY <1>1, CapType
  <2> HIDE DEF ttl, old, asked
  <2>3. mod \in 0 .. MaxClock
    BY <1>2
  <2> HIDE DEF mod, left
  <2> QED BY <2>1, <2>2, <2>3
<1>16. CASE UNCHANGED vars
  BY <1>16 DEF vars
<1> QED BY <1>3, <1>4, <1>5, <1>6, <1>7, <1>8, <1>9, <1>10, <1>11, <1>12, <1>13, <1>14, <1>15,
           <1>16 DEF Next

\* Every variable starts in its range.
LEMMA TypeInit == Init => TypeOK
<1>1. MaxClock \in Nat
  BY ExpiryAssumption DEF ExpiryAssumption
<1> QED BY <1>1 DEF Init, TypeOK

\* Nothing leaves its range, and a handle that may write is alone with the
\* file, but for handles that wait to write.
THEOREM TypesKept == Spec => []TypeOK
<1> QED BY TypeInit, TypeStep, PTL DEF Spec

-----------------------------------------------------------------------------
(* The row of the record.                                                  *)

\* The day at which the clock ends.
LastDay == Day(MaxClock \div MIN_SEC)

\* The days up to the end of the clock, the sizes of the record, and the
\* lifetimes of a day fit in their fields.
FieldsFit == /\ SizeBits >= 2 /\ TtlBits >= 2
             /\ LastDay < 2^SubDayBits /\ LastDay < 2^NewDayBits

\* A row of the record.
RecordRow(row) == /\ GoodRow(row) /\ row.key = Key
                  /\ row.file = 0 /\ row.row_size = 2 /\ row.val_size = 1
                  /\ Day(row.mdays) <= LastDay

\* The row in the file.
Kept == LoadsRow(Format, ver, file)

\* The row in the file is a row of the record, and so is each cached row, and
\* it is the one that was cached when the row in the file was written.
RowInv == /\ DOMAIN rows = Handles
          /\ Present => /\ RecordRow(Kept) /\ AsRead(Kept) = Kept
                        /\ \A h \in Handles : rows[h] # NoRow =>
                              RecordRow(rows[h]) /\ AsRead(rows[h]) = Kept

\* A lifetime that write_key can be asked to store.
Lifetime(ttl) == \/ ttl = NoTtl
                 \/ \E n \in 1 .. MAX_TTL_DAYS : ttl = DayTtl(n)
                 \/ \E n \in 1 .. MIN_OF_DAY : ttl = MinTtl(n)

\* The sizes of the record fit in a v0 row, and lifetimes of some days in theirs.
LEMMA FitsWide ==
  ASSUME FieldsFit
  PROVE  2 \in 0 .. 2^SizeBits - 1 /\ MAX_TTL_DAYS \in Nat /\ MAX_TTL_DAYS >= 3
<1>1. ASSUME NEW n \in Nat, n >= 2
      PROVE  2^n \in Nat /\ 2^n >= 4
  <2>1. n - 2 \in Nat /\ 2 + (n - 2) = n
    BY <1>1
  <2>2. 2^(2 + (n - 2)) = 2^2 * 2^(n - 2)
    BY <2>1, PowerSum
  <2>3. 2^2 = 4 /\ 2^(n - 2) \in Nat \ {0}
    BY <2>1, PowerPositive
  <2> QED BY <2>1, <2>2, <2>3
<1>2. 2^SizeBits \in Nat /\ 2^SizeBits >= 4 /\ 2^TtlBits \in Nat /\ 2^TtlBits >= 4
  BY <1>1, Widths DEF FieldsFit
<1> QED BY <1>2 DEF MAX_TTL_DAYS

\* The lifetime of a row for one of left seconds: rounded up by less than its
\* unit.
Rounds(ttl, left) ==
  /\ ttl.mins = 0 <=> left = 0
  /\ SubDay(ttl) => /\ left < DAY_SEC
                    /\ left <= ttl.mins * MIN_SEC /\ ttl.mins * MIN_SEC < left + MIN_SEC
  /\ ttl.mins >= MIN_OF_DAY => /\ DAY_SEC <= left
                               /\ left <= ttl.mins * MIN_SEC
                               /\ ttl.mins * MIN_SEC < left + DAY_SEC

\* Rounding up.
LEMMA CeilBounds ==
  ASSUME NEW A \in Nat \ {0}, NEW s \in Nat \ {0}
  PROVE  /\ Ceil(s, A) \in Nat \ {0} /\ s <= Ceil(s, A) * A /\ Ceil(s, A) * A < s + A
<1> DEFINE x == s + A - 1
           n == x \div A
<1>1. x \in Nat /\ x >= A
  OBVIOUS
<1>2. n \in Nat /\ \A k \in Nat : k * A <= x <=> k <= n
  <2> HIDE DEF x
  <2> QED BY <1>1, Fits
<1>3. Ceil(s, A) = n
  BY DEF Ceil
<1> HIDE DEF n
<1>4. n >= 1
  <2>1. 1 * A <= x
    BY <1>1
  <2> QED BY <1>2, <2>1
<1>5. n * A <= x /\ ~((n + 1) * A <= x)
  BY <1>2
<1>6. (n + 1) * A = n * A + A /\ n * A \in Nat
  BY <1>2
<1> QED BY <1>2, <1>3, <1>4, <1>5, <1>6

\* conv_ttl gives a lifetime that a row can have, or a float of a whole day,
\* which no row can have.
LEMMA ConvTtlRounds ==
  ASSUME FieldsFit, NEW secs \in Int, secs >= 0
  PROVE  LET ttl == ConvTtl(secs)
         IN  /\ Lifetime(ttl) /\ ttl.mins \in Nat
             /\ ~(ttl.mins >= MIN_OF_DAY /\ ~ttl.int) => Rounds(ttl, CapSecs(secs))
<1> DEFINE MAX == MAX_TTL_DAYS
           ttl == ConvTtl(secs)
<1>1. /\ MIN_SEC \in Nat \ {0} /\ MIN_OF_DAY \in Nat \ {0} /\ DAY_SEC \in Nat \ {0}
      /\ DAY_SEC = MIN_OF_DAY * MIN_SEC
  <2>1. MIN_SEC \in Nat \ {0} /\ MIN_OF_DAY \in Nat \ {0}
    BY Widths
  <2> QED BY <2>1 DEF DAY_SEC
<1>2. MAX \in Nat /\ MAX >= 3
  BY FitsWide
<1>3. /\ MAX * DAY_SEC \in Nat /\ MAX * DAY_SEC >= DAY_SEC
  BY <1>1, <1>2
<1>4. CASE secs = 0
  <2>1. ttl = NoTtl
    BY <1>4 DEF ConvTtl
  <2>2. CapSecs(secs) = 0
    BY <1>1, <1>3, <1>4 DEF CapSecs, Least
  <2> QED BY <1>1, <2>1, <2>2 DEF Lifetime, Rounds, NoTtl, SubDay
<1>5. CASE 0 < secs /\ secs < DAY_SEC
  <2> DEFINE n == Ceil(secs, MIN_SEC)
  <2>1. n \in Nat \ {0} /\ secs <= n * MIN_SEC /\ n * MIN_SEC < secs + MIN_SEC
    BY <1>1, <1>5, CeilBounds
  <2> HIDE DEF n
  <2>2. n <= MIN_OF_DAY
    <3>1. SUFFICES ASSUME n >= MIN_OF_DAY + 1 PROVE FALSE
      BY <1>1, <2>1
    <3>2. n * MIN_SEC >= (MIN_OF_DAY + 1) * MIN_SEC
      BY <1>1, <2>1, <3>1
    <3>3. (MIN_OF_DAY + 1) * MIN_SEC = DAY_SEC + MIN_SEC
      BY <1>1
    <3>4. n * MIN_SEC \in Nat
      BY <1>1, <2>1
    <3> QED BY <1>1, <1>5, <2>1, <3>2, <3>3, <3>4
  <2>3. Least(n, MAX_TTL_MINS) = n
    <3>1. MIN_OF_DAY < 2^TtlMinBits /\ 2^TtlMinBits \in Nat
      BY CodecAssumption, Widths, PowerPositive DEF CodecAssumption
    <3> QED BY <1>1, <2>1, <2>2, <3>1 DEF Least, MAX_TTL_MINS
  <2>4. ttl = MinTtl(n)
    BY <1>5, <2>3 DEF ConvTtl, n
  <2>5. ttl.mins = n /\ ttl.int = FALSE
    BY <2>4 DEF MinTtl
  <2>6. CapSecs(secs) = secs
    BY <1>1, <1>3, <1>5 DEF CapSecs, Least
  <2>7. Lifetime(ttl)
    BY <1>1, <2>1, <2>2, <2>4 DEF Lifetime
  <2>8. n < MIN_OF_DAY => Rounds(ttl, secs)
    <3> HIDE DEF ttl
    <3> QED BY <1>1, <1>5, <2>1, <2>5 DEF Rounds
  <2> QED BY <1>1, <2>1, <2>5, <2>6, <2>7, <2>8
<1>6. CASE secs >= DAY_SEC
  <2> DEFINE n == Ceil(secs, DAY_SEC)
             d == Least(n, MAX)
  <2>1. n \in Nat \ {0} /\ secs <= n * DAY_SEC /\ n * DAY_SEC < secs + DAY_SEC
    BY <1>1, <1>6, CeilBounds
  <2> HIDE DEF n
  <2>2. d \in 1 .. MAX
    BY <1>2, <2>1 DEF Least
  <2>3. ttl = DayTtl(d)
    BY <1>1, <1>6 DEF ConvTtl, n
  <2>4. ttl.mins = Minutes(d) /\ ttl.int = TRUE
    BY <2>3 DEF DayTtl
  <2>5. Minutes(d) \in Nat /\ Minutes(d) >= MIN_OF_DAY /\ Minutes(d) * MIN_SEC = d * DAY_SEC
    <3> HIDE DEF d
    <3>1. d \in Nat \ {0}
      BY <1>2, <2>2
    <3>2. (d * MIN_OF_DAY) * MIN_SEC = d * (MIN_OF_DAY * MIN_SEC)
      BY <1>1, <3>1
    <3> QED BY <1>1, <3>1, <3>2, DayOfMinutes DEF Minutes
  <2> DEFINE left == CapSecs(secs)
  <2>6. DAY_SEC <= left /\ left <= d * DAY_SEC /\ d * DAY_SEC < left + DAY_SEC /\ left \in Nat
    <3>1. CASE n <= MAX
      <4>1. d = n
        BY <1>2, <2>1, <3>1 DEF Least
      <4>2. n * DAY_SEC <= MAX * DAY_SEC
        BY <1>1, <1>2, <2>1, <3>1
      <4>3. n * DAY_SEC \in Nat
        BY <1>1, <2>1
      <4>4. left = secs
        BY <1>3, <2>1, <4>2, <4>3 DEF CapSecs, Least
      <4> QED BY <1>1, <1>6, <2>1, <4>1, <4>4
    <3>2. CASE n > MAX
      <4>1. d = MAX
        BY <1>2, <2>1, <3>2 DEF Least
      <4>2. n * DAY_SEC >= (MAX + 1) * DAY_SEC
        BY <1>1, <1>2, <2>1, <3>2
      <4>3. (MAX + 1) * DAY_SEC = MAX * DAY_SEC + DAY_SEC /\ n * DAY_SEC \in Nat
        BY <1>1, <1>2, <2>1
      <4>4. secs > MAX * DAY_SEC
        BY <1>1, <1>3, <2>1, <4>2, <4>3
      <4>5. left = MAX * DAY_SEC
        BY <1>3, <4>4 DEF CapSecs, Least
      <4> QED BY <1>1, <1>3, <4>1, <4>5
    <3> QED BY <1>2, <2>1, <3>1, <3>2
  <2>7. Lifetime(ttl)
    BY <2>2, <2>3 DEF Lifetime
  <2>8. Rounds(ttl, left)
    <3> HIDE DEF ttl, left, d
    <3> QED BY <1>1, <2>4, <2>5, <2>6 DEF Rounds, SubDay
  <2> QED BY <2>4, <2>5, <2>7, <2>8
<1> QED BY <1>1, <1>4, <1>5, <1>6

\* The flag of a lifetime is set and cleared, and the other flags stay.
LEMMA FlagSet ==
  ASSUME NEW k \in 0 .. 7
  PROVE  /\ With(k, KF_EXPIRE) \in 0 .. 7 /\ Has(With(k, KF_EXPIRE), KF_EXPIRE)
         /\ Without(k, KF_EXPIRE) \in 0 .. 7 /\ ~Has(Without(k, KF_EXPIRE), KF_EXPIRE)
<1>1. \/ k = 0 \/ k = 1 \/ k = 2 \/ k = 3 \/ k = 4 \/ k = 5 \/ k = 6 \/ k = 7
  OBVIOUS
<1>2. /\ (0 \div 2) % 2 = 0 /\ (1 \div 2) % 2 = 0 /\ (2 \div 2) % 2 = 1 /\ (3 \div 2) % 2 = 1
      /\ (4 \div 2) % 2 = 0 /\ (5 \div 2) % 2 = 0 /\ (6 \div 2) % 2 = 1 /\ (7 \div 2) % 2 = 1
  OBVIOUS
<1> QED BY <1>1, <1>2 DEF With, Without, Has, KF_EXPIRE

\* A later day is more minutes, and of two stamps one is the later.
LEMMA DayOrder ==
  /\ \A a, b \in Nat : a <= b => Minutes(a) <= Minutes(b) /\ Day(a) <= Day(b)
  /\ \A d, m \in Nat : Minutes(d) <= m <=> d <= Day(m)
<1>1. MIN_OF_DAY \in Nat \ {0}
  BY Widths
<1>2. ASSUME NEW d \in Nat, NEW m \in Nat
      PROVE  Minutes(d) <= m <=> d <= Day(m)
  BY <1>1, Fits DEF Minutes, Day
<1>3. ASSUME NEW a \in Nat, NEW b \in Nat, a <= b
      PROVE  Minutes(a) <= Minutes(b) /\ Day(a) <= Day(b)
  <2>1. Minutes(a) <= Minutes(b)
    BY <1>1, <1>3 DEF Minutes
  <2>2. Day(a) \in Nat /\ Minutes(Day(a)) \in Nat
    BY DayOfMinutes
  <2>3. Minutes(Day(a)) <= a
    BY <1>2, <2>2
  <2> QED BY <1>2, <1>3, <2>1, <2>2, <2>3
<1> QED BY <1>2, <1>3

\* A stamp write_key gives: of a new record, the minute or the day of the
\* handle; of a record that exists, the one it is given, but for the minute if
\* the lifetime is counted in days, and not before the creation day.
Stamp(cdays, mdays, ttl, nw) ==
  IF mdays < 0 THEN IF SubDay(ttl) THEN nw ELSE Minutes(Day(nw))
  ELSE Most(Minutes(cdays), IF SubDay(ttl) THEN mdays ELSE Minutes(Day(mdays)))

\* write_key makes a row that its format can keep.
LEMMA WriteKeyGood ==
  ASSUME FieldsFit, NEW ttl, Lifetime(ttl), NEW cdays \in Int, NEW mdays \in Int,
         NEW flags \in Nat, NEW nw \in Nat, Day(nw) <= LastDay, cdays <= LastDay,
         mdays >= 0 => Day(mdays) <= LastDay, mdays < 0 <=> cdays < 0,
         NEW row, row = WriteKey(Key, 0, 2, 1, cdays, mdays, ttl, flags, nw), Storable(row)
  PROVE  /\ RecordRow(row) /\ row.ttl = ttl /\ ~(ttl.mins >= MIN_OF_DAY /\ ~ttl.int)
         /\ row.cdays = IF cdays < 0 THEN Day(nw) ELSE cdays
         /\ row.mdays = Stamp(cdays, mdays, ttl, nw)
<1> DEFINE kept == flags % 2^FlagBits
           cday == IF cdays < 0 THEN Day(nw) ELSE cdays
           stamp == Stamp(cdays, mdays, ttl, nw)
           fl == IF ttl.mins > 0 THEN With(kept, KF_EXPIRE) ELSE Without(kept, KF_EXPIRE)
<1>1. /\ MIN_OF_DAY \in Nat \ {0} /\ 2^SubDayBits \in Nat \ {0} /\ 2^NewDayBits \in Nat \ {0}
      /\ LastDay \in Nat /\ LastDay < 2^SubDayBits /\ LastDay < 2^NewDayBits
      /\ MAX_TTL_DAYS \in Nat /\ MAX_TTL_DAYS >= 3 /\ 2 \in 0 .. 2^SizeBits - 1
  <2>1. MaxClock \div MIN_SEC \in Nat
    <3>1. MaxClock \in 0 .. MaxClock
      BY ExpiryAssumption DEF ExpiryAssumption
    <3> QED BY <3>1, ClockFits
  <2>2. LastDay \in Nat
    BY <2>1, DayOfMinutes DEF LastDay
  <2> QED BY <2>2, Widths, PowerPositive, FitsWide DEF FieldsFit
<1>2. /\ ttl.mins \in Nat /\ ttl.int \in BOOLEAN /\ ttl = [mins |-> ttl.mins, int |-> ttl.int]
      /\ (IF ttl.mins <= 0 THEN NoTtl
          ELSE IF Day(ttl.mins) < MAX_TTL_DAYS THEN ttl ELSE DayTtl(MAX_TTL_DAYS)) = ttl
  <2>1. CASE ttl = NoTtl
    BY <2>1 DEF NoTtl
  <2>2. CASE \E n \in 1 .. MAX_TTL_DAYS : ttl = DayTtl(n)
    <3>1. PICK n \in 1 .. MAX_TTL_DAYS : ttl = DayTtl(n)
      BY <2>2
    <3>2. n \in Nat \ {0} /\ n <= MAX_TTL_DAYS
      BY <1>1
    <3>3. ttl.mins = Minutes(n) /\ ttl.int = TRUE
      BY <3>1 DEF DayTtl
    <3>4. Minutes(n) \in Nat /\ Minutes(n) >= MIN_OF_DAY
      BY <3>2, DayOfMinutes
    <3>5. Minutes(n) > 0 /\ Day(Minutes(n)) = n
      BY <1>1, <3>2, <3>4, DayOfMinutes
    <3>6. ~(n < MAX_TTL_DAYS) => n = MAX_TTL_DAYS
      BY <1>1, <3>2
    <3>7. /\ ttl.mins \in Nat /\ ~(ttl.mins <= 0) /\ Day(ttl.mins) = n /\ ttl.int \in BOOLEAN
      <4>1. ttl.mins = Minutes(n)
        BY <3>3
      <4>2. Minutes(n) \in Nat /\ ~(Minutes(n) <= 0) /\ Day(Minutes(n)) = n
        BY <3>4, <3>5
      <4>3. ttl.int \in BOOLEAN
        BY <3>3
      <4> QED BY <4>1, <4>2, <4>3
    <3>8. ttl = [mins |-> ttl.mins, int |-> ttl.int]
      BY <3>1 DEF DayTtl
    <3>9. n = MAX_TTL_DAYS => ttl = DayTtl(MAX_TTL_DAYS)
      BY <3>1
    <3> QED BY <3>6, <3>7, <3>8, <3>9
  <2>3. CASE \E n \in 1 .. MIN_OF_DAY : ttl = MinTtl(n)
    <3>1. PICK n \in 1 .. MIN_OF_DAY : ttl = MinTtl(n)
      BY <2>3
    <3>2. n \in Nat \ {0} /\ n <= MIN_OF_DAY
      BY <1>1
    <3>3. ttl.mins = n /\ ttl.int = FALSE
      BY <3>1 DEF MinTtl
    <3>4. Day(n) <= 1 /\ Day(n) \in Nat
      <4>1. Minutes(1) = MIN_OF_DAY /\ Day(Minutes(1)) = 1
        BY <1>1, DayOfMinutes DEF Minutes
      <4> QED BY <1>1, <3>2, <4>1, DayOrder, DayOfMinutes, ZenonT(60)
    <3> QED BY <1>1, <3>1, <3>2, <3>3, <3>4 DEF MinTtl
  <2> QED BY <2>1, <2>2, <2>3 DEF Lifetime
<1>3. /\ cday \in Nat /\ cday <= LastDay
      /\ (IF cdays < 0 THEN Day(nw) ELSE cdays % 2^SubDayBits) = cday
  <2>1. Day(nw) \in Nat
    BY DayOfMinutes
  <2>2. cdays >= 0 => cdays % 2^SubDayBits = cdays
    BY <1>1
  <2> QED BY <1>1, <2>1, <2>2
<1>4. kept \in 0 .. 7 /\ 2^FlagBits = 8
  <2>1. 2^FlagBits = 8
    BY DEF FlagBits
  <2> QED BY <2>1
<1>5. fl \in 0 .. 7 /\ (Has(fl, KF_EXPIRE) <=> ttl.mins > 0)
  BY <1>4, FlagSet
<1>6. row = [key |-> Key, file |-> 0, row_size |-> 2, val_size |-> 1, cdays |-> cday,
             mdays |-> stamp, ttl |-> ttl, flags |-> fl]
  <2>1. GroupFile # 0
    BY DEF GroupFile
  <2> DEFINE kept_ttl == IF ttl.mins <= 0 THEN NoTtl
                     ELSE IF Day(ttl.mins) < MAX_TTL_DAYS THEN ttl ELSE DayTtl(MAX_TTL_DAYS)
             cd == IF cdays < 0 THEN Day(nw) ELSE cdays % 2^SubDayBits
             st == IF mdays < 0 THEN IF SubDay(kept_ttl) THEN nw ELSE Minutes(Day(nw))
                   ELSE Most(Minutes(cd), IF SubDay(kept_ttl) THEN mdays ELSE Minutes(Day(mdays)))
  <2>2. row = [key |-> Key, file |-> 0, row_size |-> 2, val_size |-> 1, cdays |-> cd,
               mdays |-> st, ttl |-> kept_ttl,
               flags |-> IF kept_ttl.mins > 0 THEN With(kept, KF_EXPIRE)
                         ELSE Without(kept, KF_EXPIRE)]
    BY <2>1 DEF WriteKey
  <2>3. kept_ttl = ttl /\ cd = cday
    BY <1>2, <1>3
  <2>4. st = stamp
    <3>1. ~(mdays < 0) => cday = cdays
      OBVIOUS
    <3> HIDE DEF kept_ttl, cd, cday
    <3> QED BY <2>3, <3>1 DEF Stamp
  <2> HIDE DEF kept_ttl, cd, st, cday, stamp, kept
  <2> QED BY <2>2, <2>3, <2>4
<1>7. stamp \in Nat /\ cday <= Day(stamp) /\ Day(stamp) <= LastDay
      /\ (~SubDay(ttl) => stamp = Minutes(Day(stamp)))
  <2>1. CASE mdays < 0
    <3>1. cdays < 0 /\ stamp = IF SubDay(ttl) THEN nw ELSE Minutes(Day(nw))
      BY <2>1 DEF Stamp
    <3>2. Day(nw) \in Nat /\ Minutes(Day(nw)) \in Nat /\ Day(Minutes(Day(nw))) = Day(nw)
      BY DayOfMinutes
    <3> HIDE DEF stamp
    <3> QED BY <3>1, <3>2
  <2>2. CASE ~(mdays < 0)
    <3> DEFINE m == IF SubDay(ttl) THEN mdays ELSE Minutes(Day(mdays))
    <3>1. stamp = Most(Minutes(cday), m) /\ cday = cdays
      BY <2>2 DEF Stamp
    <3>2. mdays \in Nat /\ Day(mdays) \in Nat /\ Day(mdays) <= LastDay
      BY <2>2, DayOfMinutes
    <3>3. m \in Nat /\ Day(m) = Day(mdays) /\ (~SubDay(ttl) => m = Minutes(Day(m)))
      BY <3>2, DayOfMinutes
    <3>4. Minutes(cday) \in Nat /\ Day(Minutes(cday)) = cday
      BY <1>3, DayOfMinutes
    <3> HIDE DEF m, stamp, cday
    <3>5. CASE Minutes(cday) < m
      <4>1. stamp = m
        BY <3>1, <3>5 DEF Most
      <4>2. cday <= Day(m)
        BY <1>3, <3>3, <3>4, <3>5, DayOrder
      <4> QED BY <3>2, <3>3, <4>1, <4>2
    <3>6. CASE ~(Minutes(cday) < m)
      <4>1. stamp = Minutes(cday)
        BY <3>1, <3>6 DEF Most
      <4> QED BY <1>3, <3>4, <4>1
    <3> QED BY <3>5, <3>6
  <2> QED BY <2>1, <2>2
<1>8. ~(ttl.mins >= MIN_OF_DAY /\ ~ttl.int)
  BY <1>6 DEF Storable
<1>9. GoodRow(row)
  <2> HIDE DEF stamp, cday, fl
  <2>1. Key \in Seq(KeyParts) \ {<<>>}
    <3>1. "k" \in KeyParts
      BY DEF KeyParts
    <3>2. <<"k">> \in Seq(KeyParts) /\ <<"k">> # <<>>
      BY <3>1
    <3> QED BY <3>2 DEF Key
  <2> HIDE DEF Key
  <2>2. row \in [key : Seq(KeyParts) \ {<<>>}, file : Nat, row_size : 0 .. 2^SizeBits - 1,
                 val_size : Nat, cdays : Nat, mdays : Nat,
                 ttl : [mins : Nat, int : BOOLEAN], flags : 0 .. 2^FlagBits - 1]
    <3>1. fl \in 0 .. 2^FlagBits - 1
      BY <1>4, <1>5
    <3>2. ttl \in [mins : Nat, int : BOOLEAN]
      BY <1>2
    <3>3. 0 \in Nat /\ 1 \in Nat /\ 2 \in 0 .. 2^SizeBits - 1 /\ cday \in Nat /\ stamp \in Nat
      BY <1>1, <1>3, <1>7
    <3> QED BY <1>6, <2>1, <3>1, <3>2, <3>3
  <2>3. Day(stamp) < 2^SubDayBits /\ Day(stamp) < 2^NewDayBits
    <3>1. Day(stamp) \in Nat
      BY <1>7, DayOfMinutes
    <3> QED BY <1>1, <1>7, <3>1
  <2>4. \/ ttl = NoTtl
        \/ \E n \in 1 .. MAX_TTL_DAYS : ttl = DayTtl(n)
        \/ \E n \in 1 .. MIN_OF_DAY - 1 : ttl = MinTtl(n)
    <3>1. ASSUME NEW n \in 1 .. MIN_OF_DAY, ttl = MinTtl(n)
          PROVE  n \in 1 .. MIN_OF_DAY - 1
      BY <1>1, <1>8, <3>1 DEF MinTtl
    <3> QED BY <3>1 DEF Lifetime
  <2>5. row.file # GroupFile
    BY <1>6 DEF GroupFile
  <2> QED BY <1>5, <1>6, <1>7, <2>2, <2>3, <2>4, <2>5, SMTT(30) DEF GoodRow
<1> QED BY <1>6, <1>7, <1>8, <1>9 DEF RecordRow

\* write_key of a record that exists: the sizes, the flags and the creation day
\* are those of its row.
LEMMA Rewritten ==
  ASSUME FieldsFit, NEW old, RecordRow(old), NEW ttl, Lifetime(ttl),
         NEW mdays \in Nat, Day(mdays) <= LastDay, NEW nw \in Nat, Day(nw) <= LastDay,
         NEW row, Storable(row),
         row = WriteKey(Key, old.file, old.row_size, old.val_size, old.cdays, mdays, ttl,
                        old.flags, nw)
  PROVE  /\ RecordRow(row) /\ row.ttl = ttl /\ ~(ttl.mins >= MIN_OF_DAY /\ ~ttl.int)
         /\ row.mdays = Most(Minutes(old.cdays),
                             IF SubDay(ttl) THEN mdays ELSE Minutes(Day(mdays)))
<1>1. /\ old.cdays \in Nat /\ old.mdays \in Nat /\ old.cdays <= Day(old.mdays)
      /\ old.file = 0 /\ old.row_size = 2 /\ old.val_size = 1 /\ Day(old.mdays) <= LastDay
      /\ old.flags \in 0 .. 2^FlagBits - 1
  BY DEF RecordRow, GoodRow
<1>2. old.flags \in Nat
  BY <1>1
<1>3. old.cdays <= LastDay
  <2>1. Day(old.mdays) \in Nat /\ LastDay \in Nat
    <3>1. MaxClock \div MIN_SEC \in Nat
      BY ExpiryAssumption, ClockFits DEF ExpiryAssumption
    <3> QED BY <1>1, <3>1, DayOfMinutes DEF LastDay
  <2> QED BY <1>1, <2>1
<1>4. old.cdays \in Int /\ mdays \in Int /\ (mdays < 0 <=> old.cdays < 0) /\ ~(mdays < 0)
      /\ ~(old.cdays < 0)
  BY <1>1
<1>5. row = WriteKey(Key, 0, 2, 1, old.cdays, mdays, ttl, old.flags, nw)
  BY <1>1
<1> DEFINE cdays == old.cdays
           flags == old.flags
<1>6. /\ cdays \in Int /\ flags \in Nat /\ cdays <= LastDay /\ (mdays < 0 <=> cdays < 0)
      /\ row = WriteKey(Key, 0, 2, 1, cdays, mdays, ttl, flags, nw)
  BY <1>2, <1>3, <1>4, <1>5
<1>7. Stamp(cdays, mdays, ttl, nw)
        = Most(Minutes(old.cdays), IF SubDay(ttl) THEN mdays ELSE Minutes(Day(mdays)))
  BY <1>4 DEF Stamp
<1> HIDE DEF cdays, flags
<1> QED BY <1>4, <1>6, <1>7, WriteKeyGood

\* A row keeps its stamp and its lifetime when it is written and read again.
LEMMA AsReadKeeps ==
  ASSUME NEW row, GoodRow(row)
  PROVE  /\ AsRead(row).mdays = row.mdays /\ AsRead(row).ttl = row.ttl
         /\ AsRead(row).key = row.key /\ AsRead(row).file = row.file
         /\ AsRead(row).row_size = row.row_size /\ AsRead(row).val_size = row.val_size
         /\ row = [AsRead(row) EXCEPT !.cdays = row.cdays]
<1>1. row = [key |-> row.key, file |-> row.file, row_size |-> row.row_size,
             val_size |-> row.val_size, cdays |-> row.cdays, mdays |-> row.mdays,
             ttl |-> row.ttl, flags |-> row.flags]
  BY DEF GoodRow
<1> QED BY <1>1 DEF AsRead

\* The row that a handle sees is a row of the record, and the file has it.
LEMMA RowRight ==
  ASSUME RowInv, Present, NEW h \in Handles
  PROVE  /\ RecordRow(Row(h)) /\ AsRead(Row(h)) = Kept
         /\ Row(h).mdays = Kept.mdays /\ Row(h).ttl = Kept.ttl
<1>1. RecordRow(Row(h)) /\ AsRead(Row(h)) = Kept
  BY DEF RowInv, Row, Kept
<1>2. AsRead(Row(h)).mdays = Row(h).mdays /\ AsRead(Row(h)).ttl = Row(h).ttl
  BY <1>1, AsReadKeeps DEF RecordRow
<1> QED BY <1>1, <1>2

\* A lifetime of a row is one that write_key can be asked for.
LEMMA RowLifetime ==
  ASSUME NEW row, RecordRow(row)
  PROVE  Lifetime(row.ttl) /\ row.ttl.mins \in Nat
<1>1. MIN_OF_DAY \in Nat
  BY Widths
<1>2. ASSUME NEW n \in 1 .. MIN_OF_DAY - 1
      PROVE  n \in 1 .. MIN_OF_DAY
  BY <1>1
<1> QED BY <1>2 DEF RecordRow, GoodRow, Lifetime

\* What write_key has stored is in the file and in the cache of its handle.
LEMMA Stored ==
  ASSUME NEW h \in Handles, NEW row, RecordRow(row), Store(h, row), ver \in Versions, ver' = ver
  PROVE  RowInv' /\ Kept' = AsRead(row)
<1>1. Format \in Formats /\ ver' \in 0 .. 2
  BY ExpiryAssumption DEF ExpiryAssumption, Formats
<1>2. file' = Dumps(Format, ver', row) /\ GoodRow(row)
  BY DEF Store, RecordRow
<1>3. LoadsRow(Format, ver', file') = AsRead(row)
  BY <1>1, <1>2, RowsReturn
<1>4. Kept' = AsRead(row)
  BY <1>3 DEF Kept
<1>5. RecordRow(AsRead(row)) /\ AsRead(AsRead(row)) = AsRead(row)
  <2>1. /\ GoodRow(AsRead(row)) /\ AsRead(AsRead(row)) = AsRead(row)
    BY <1>2, ReadRowStays
  <2>2. AsRead(row).key = row.key /\ AsRead(row).file = row.file
        /\ AsRead(row).row_size = row.row_size /\ AsRead(row).val_size = row.val_size
        /\ AsRead(row).mdays = row.mdays
    BY <1>2, AsReadKeeps
  <2> QED BY <2>1, <2>2 DEF RecordRow
<1>6. rows' = [o \in Handles |-> IF o = h THEN row ELSE NoRow]
  BY DEF Store
<1>7. DOMAIN rows' = Handles
      /\ \A o \in Handles : rows'[o] # NoRow => rows'[o] = row
  BY <1>6
<1> DEFINE kept == AsRead(row)
<1>8. RecordRow(kept) /\ AsRead(kept) = kept /\ Kept' = kept /\ AsRead(row) = kept
  BY <1>4, <1>5
<1> HIDE DEF kept
<1>9. \A o \in Handles : rows'[o] # NoRow => RecordRow(rows'[o]) /\ AsRead(rows'[o]) = Kept'
  BY <1>7, <1>8
<1>10. RecordRow(Kept') /\ AsRead(Kept') = Kept'
  BY <1>8
<1> QED BY <1>4, <1>7, <1>9, <1>10 DEF RowInv

-----------------------------------------------------------------------------
(* What the operations store.                                              *)

\* No handle's minute is later than the end of the clock.
NowFits == \A h \in Handles : now[h] \in 0 .. MaxClock \div MIN_SEC

\* The lifetimes that f_write and f_write_key_flags store for the seconds they
\* are given: a negative number keeps the lifetime there is, or none.
UpdateTtl(h, secs) == IF ConvTtl(secs).mins < 0 THEN Row(h).ttl ELSE ConvTtl(secs)
GivenTtl(secs) == IF ConvTtl(secs).mins < 0 THEN NoTtl ELSE ConvTtl(secs)

\* The stamp that f_write gives a record that exists.
UpdateStamp(h, secs, keep) ==
  IF keep THEN Row(h).mdays ELSE NewStamp(h, Row(h), UpdateTtl(h, secs))

\* The stamp that a row gets for the one that it is given: not before the
\* creation day, and the beginning of its day unless the lifetime is counted in
\* minutes.
Stamped(cdays, mdays, ttl) ==
  Most(Minutes(cdays), IF SubDay(ttl) THEN mdays ELSE Minutes(Day(mdays)))

\* The minute and the day of a handle, and those of the clock.
LEMMA DaysFit ==
  ASSUME TypeOK, NowFits, NEW h \in Handles
  PROVE  /\ now[h] \in Nat /\ Day(now[h]) \in Nat /\ Day(now[h]) <= LastDay
         /\ Minute \in Nat /\ Day(Minute) \in Nat /\ Day(Minute) <= LastDay
         /\ Minute \in 0 .. MaxClock \div MIN_SEC
<1> DEFINE last == MaxClock \div MIN_SEC
<1>1. last \in Nat /\ Minute \in 0 .. last /\ now[h] \in 0 .. last
  BY ClockFits DEF TypeOK, Minute, NowFits
<1>2. LastDay = Day(last)
  BY DEF LastDay
<1> HIDE DEF last
<1>3. now[h] \in Nat /\ now[h] <= last /\ Minute \in Nat /\ Minute <= last
  BY <1>1
<1>4. Day(now[h]) <= Day(last) /\ Day(Minute) <= Day(last)
  BY <1>1, <1>3, DayOrder
<1>5. Day(now[h]) \in Nat /\ Day(Minute) \in Nat
  BY <1>3, DayOfMinutes
<1> QED BY <1>1, <1>2, <1>3, <1>4, <1>5 DEF last

\* A lifetime that the caller asks for can be stored, unless it is a float.
LEMMA AskedTtl ==
  ASSUME FieldsFit, NEW secs \in Int
  PROVE  /\ Lifetime(GivenTtl(secs))
         /\ ConvTtl(secs).mins < 0 <=> secs < 0
         /\ secs >= 0 => Lifetime(ConvTtl(secs))
<1>1. CASE secs < 0
  <2>1. ConvTtl(secs).mins = -1
    BY <1>1 DEF ConvTtl, KeepTtl
  <2> QED BY <1>1, <2>1 DEF GivenTtl, Lifetime
<1>2. CASE secs >= 0
  <2>1. Lifetime(ConvTtl(secs)) /\ ConvTtl(secs).mins \in Nat
    BY <1>2, ConvTtlRounds
  <2> QED BY <1>2, <2>1 DEF GivenTtl
<1> QED BY <1>1, <1>2

\* f_write of a record that exists, when it stores something.
LEMMA UpdateStores ==
  ASSUME FieldsFit, TypeOK, NowFits, RowInv,
         NEW h \in Handles, NEW secs \in Lifetimes, NEW keep \in BOOLEAN, Update(h, secs, keep),
         ~Skipped(h)
  PROVE  \E row : /\ RecordRow(row) /\ Store(h, row)
                  /\ row.ttl = UpdateTtl(h, secs) /\ ~(row.ttl.mins >= MIN_OF_DAY /\ ~row.ttl.int)
                  /\ row.mdays = Stamped(Row(h).cdays, UpdateStamp(h, secs, keep),
                                         UpdateTtl(h, secs))
<1> DEFINE old == Row(h)
           ttl == UpdateTtl(h, secs)
           mdays == UpdateStamp(h, secs, keep)
           nw == now[h]
           row == WriteKey(Key, old.file, old.row_size, old.val_size, old.cdays, mdays, ttl,
                           old.flags, nw)
<1>1. Store(h, row) /\ Present
  BY DEF Update, UpdateTtl, UpdateStamp
<1>2. Storable(row)
  BY <1>1 DEF Store
<1>3. RecordRow(old)
  BY <1>1, RowRight
<1>4. Lifetime(ttl)
  <2>1. secs \in Int
    BY ExpiryAssumption DEF ExpiryAssumption
  <2> QED BY <1>3, <2>1, AskedTtl, RowLifetime DEF UpdateTtl
<1>5. nw \in Nat /\ Day(nw) <= LastDay
  BY DaysFit
<1>6. mdays \in Nat /\ Day(mdays) <= LastDay
  <2>1. old.mdays \in Nat /\ Day(old.mdays) <= LastDay
    BY <1>3 DEF RecordRow, GoodRow
  <2>2. Minutes(Day(now[h])) \in Nat /\ Day(Minutes(Day(now[h]))) <= LastDay
    BY DaysFit, DayOfMinutes
  <2>3. Minute \in Nat /\ Day(Minute) <= LastDay
    BY DaysFit
  <2> QED BY <2>1, <2>2, <2>3 DEF UpdateStamp, NewStamp
<1> DEFINE new == row
<1>7. new = WriteKey(Key, old.file, old.row_size, old.val_size, old.cdays, mdays, ttl,
                     old.flags, nw) /\ Storable(new) /\ Store(h, new)
  BY <1>1, <1>2
<1>8. Stamped(old.cdays, mdays, ttl)
        = Most(Minutes(old.cdays), IF SubDay(ttl) THEN mdays ELSE Minutes(Day(mdays)))
  BY DEF Stamped
<1> HIDE DEF new, old, ttl, mdays, nw
<1>9. /\ RecordRow(new) /\ new.ttl = ttl /\ ~(ttl.mins >= MIN_OF_DAY /\ ~ttl.int)
      /\ new.mdays = Stamped(old.cdays, mdays, ttl)
  BY <1>3, <1>4, <1>5, <1>6, <1>7, <1>8, Rewritten
<1>10. \E r : /\ RecordRow(r) /\ Store(h, r) /\ r.ttl = ttl
              /\ ~(r.ttl.mins >= MIN_OF_DAY /\ ~r.ttl.int)
              /\ r.mdays = Stamped(old.cdays, mdays, ttl)
  BY <1>7, <1>9
<1> QED BY <1>10 DEF old, ttl, mdays

\* f_write_key_flags with a lifetime.
LEMMA SetLifetimeStores ==
  ASSUME FieldsFit, TypeOK, NowFits, RowInv,
         NEW h \in Handles, NEW secs \in Lifetimes, SetLifetime(h, secs)
  PROVE  \E row : /\ RecordRow(row) /\ Store(h, row)
                  /\ row.ttl = GivenTtl(secs) /\ ~(row.ttl.mins >= MIN_OF_DAY /\ ~row.ttl.int)
                  /\ row.mdays = Stamped(Row(h).cdays, Row(h).mdays, GivenTtl(secs))
<1> DEFINE old == Row(h)
           ttl == GivenTtl(secs)
           mdays == old.mdays
           nw == now[h]
           new == WriteKey(Key, old.file, old.row_size, old.val_size, old.cdays, mdays, ttl,
                           old.flags, nw)
<1>1. Store(h, new) /\ Present
  BY DEF SetLifetime, GivenTtl
<1>2. Storable(new)
  BY <1>1 DEF Store
<1>3. RecordRow(old)
  BY <1>1, RowRight
<1>4. Lifetime(ttl)
  <2>1. secs \in Int
    BY ExpiryAssumption DEF ExpiryAssumption
  <2> QED BY <2>1, AskedTtl
<1>5. nw \in Nat /\ Day(nw) <= LastDay
  BY DaysFit
<1>6. mdays \in Nat /\ Day(mdays) <= LastDay
  BY <1>3 DEF RecordRow, GoodRow
<1>7. new = WriteKey(Key, old.file, old.row_size, old.val_size, old.cdays, mdays, ttl,
                     old.flags, nw)
  OBVIOUS
<1>8. Stamped(old.cdays, mdays, ttl)
        = Most(Minutes(old.cdays), IF SubDay(ttl) THEN mdays ELSE Minutes(Day(mdays)))
  BY DEF Stamped
<1> HIDE DEF new, old, ttl, mdays, nw
<1>9. /\ RecordRow(new) /\ new.ttl = ttl /\ ~(ttl.mins >= MIN_OF_DAY /\ ~ttl.int)
      /\ new.mdays = Stamped(old.cdays, mdays, ttl)
  BY <1>2, <1>3, <1>4, <1>5, <1>6, <1>7, <1>8, Rewritten
<1>10. \E r : /\ RecordRow(r) /\ Store(h, r) /\ r.ttl = ttl
              /\ ~(r.ttl.mins >= MIN_OF_DAY /\ ~r.ttl.int)
              /\ r.mdays = Stamped(old.cdays, mdays, ttl)
  BY <1>1, <1>9
<1> QED BY <1>10 DEF old, ttl, mdays

\* f_write and f_append of a record that does not exist.
LEMMA InsertStores ==
  ASSUME FieldsFit, TypeOK, NowFits, NEW h \in Handles, NEW secs \in Lifetimes,
         NEW flags \in {0, KF_HIDDEN + KF_UNLOCK}, Insert(h, secs, flags)
  PROVE  \E row : /\ RecordRow(row) /\ Store(h, row)
                  /\ row.ttl = GivenTtl(secs) /\ ~(row.ttl.mins >= MIN_OF_DAY /\ ~row.ttl.int)
                  /\ row.mdays = IF SubDay(GivenTtl(secs)) THEN now[h] ELSE Minutes(Day(now[h]))
<1> DEFINE ttl == GivenTtl(secs)
           nw == now[h]
           none == -1
           new == WriteKey(Key, 0, 2, 1, none, none, ttl, flags, nw)
<1>1. Store(h, new)
  BY DEF Insert, GivenTtl
<1>2. Storable(new)
  BY <1>1 DEF Store
<1>3. Lifetime(ttl)
  <2>1. secs \in Int
    BY ExpiryAssumption DEF ExpiryAssumption
  <2> QED BY <2>1, AskedTtl
<1>4. nw \in Nat /\ Day(nw) <= LastDay
  BY DaysFit
<1>5. flags \in Nat
  BY DEF KF_HIDDEN, KF_UNLOCK
<1>6. LastDay \in Nat
  <2>1. MaxClock \div MIN_SEC \in Nat
    BY ExpiryAssumption, ClockFits DEF ExpiryAssumption
  <2> QED BY <2>1, DayOfMinutes DEF LastDay
<1>7. /\ none \in Int /\ none < 0 /\ none <= LastDay /\ ~(none >= 0)
      /\ new = WriteKey(Key, 0, 2, 1, none, none, ttl, flags, nw)
  BY <1>6
<1>8. Stamp(none, none, ttl, nw) = IF SubDay(ttl) THEN nw ELSE Minutes(Day(nw))
  BY DEF Stamp
<1> HIDE DEF new, ttl, nw, none
<1>9. /\ RecordRow(new) /\ new.ttl = ttl /\ ~(ttl.mins >= MIN_OF_DAY /\ ~ttl.int)
      /\ new.mdays = Stamp(none, none, ttl, nw)
  BY <1>2, <1>3, <1>4, <1>5, <1>7, WriteKeyGood
<1>10. \E r : /\ RecordRow(r) /\ Store(h, r) /\ r.ttl = ttl
              /\ ~(r.ttl.mins >= MIN_OF_DAY /\ ~r.ttl.int)
              /\ r.mdays = IF SubDay(ttl) THEN nw ELSE Minutes(Day(nw))
  BY <1>1, <1>8, <1>9
<1> QED BY <1>10 DEF ttl, nw

\* What an operation does with the rows: it leaves them, it caches the row it
\* has read, it forgets one, or the record goes.
Untouched == UNCHANGED <<file, rows, ver>>
Cached(h) == /\ Present /\ rows' = [rows EXCEPT ![h] = Row(h)] /\ UNCHANGED <<file, ver>>
Forgotten(h) == /\ rows' = [rows EXCEPT ![h] = NoRow] /\ UNCHANGED <<file, ver>>
Gone == /\ file' = <<>> /\ rows' = [o \in Handles |-> NoRow] /\ UNCHANGED ver

\* A handle sees the same minute as before, none, or the one of the clock.
LEMMA NowStep ==
  ASSUME TypeOK, [Next]_vars
  PROVE  \/ now' = now
         \/ \E h \in Handles : \/ now' = [now EXCEPT ![h] = 0]
                               \/ now' = [now EXCEPT ![h] = Minute]
<1> DEFINE Goal == \/ now' = now
                   \/ \E h \in Handles : \/ now' = [now EXCEPT ![h] = 0]
                                         \/ now' = [now EXCEPT ![h] = Minute]
<1>1. now \in [Handles -> 0 .. MaxClock]
  BY DEF TypeOK
<1>2. ASSUME NEW h \in Handles PROVE now = [now EXCEPT ![h] = now[h]]
  BY <1>1
<1>3. ASSUME NEW h \in Handles, OpenRead(h) \/ OpenWrite(h) PROVE Goal
  BY <1>3 DEF OpenRead, OpenWrite, Refresh
<1>4. ASSUME NEW h \in Handles, Close(h) \/ Switch(h) \/ DropExpired(h) PROVE Goal
  BY <1>4 DEF Close, Switch, DropExpired, EndSession
<1>5. ASSUME NEW h \in Handles, Read(h) PROVE Goal
  <2>1. \/ now' = [now EXCEPT ![h] = now[h]]
        \/ now' = [now EXCEPT ![h] = Minute]
    BY <1>5 DEF Read
  <2> QED BY <1>2, <2>1
<1>6. ASSUME NEW h \in Handles, Recycle(h) PROVE Goal
  <2>1. \/ now' = [now EXCEPT ![h] = now[h]]
        \/ now' = [now EXCEPT ![h] = Minute]
    BY <1>6 DEF Recycle, LiveNow
  <2> QED BY <1>2, <2>1
<1>7. ASSUME NEW h \in Handles, NEW secs \in Lifetimes, NEW keep \in BOOLEAN, Update(h, secs, keep)
      PROVE  Goal
  <2>1. \/ now' = [now EXCEPT ![h] = now[h]]
        \/ now' = [now EXCEPT ![h] = Minute]
        \/ now' = now
    BY <1>7 DEF Update, Skipped
  <2> QED BY <1>2, <2>1
<1>8. ASSUME NEW h \in Handles, NEW secs \in Lifetimes,
             \/ SetLifetime(h, secs)
             \/ \E flags \in {0, KF_HIDDEN + KF_UNLOCK} : Insert(h, secs, flags)
      PROVE  Goal
  BY <1>8 DEF SetLifetime, Insert
<1>9. ASSUME NEW h \in Handles, Delete(h) \/ Evict(h) PROVE Goal
  BY <1>9 DEF Delete, Evict
<1>10. CASE Tick \/ UNCHANGED vars
  BY <1>10 DEF Tick, vars
<1> QED BY <1>3, <1>4, <1>5, <1>6, <1>7, <1>8, <1>9, <1>10 DEF Next

\* The minute a handle sees is one that the clock has shown.
LEMMA NowFitsStep ==
  ASSUME TypeOK, NowFits, [Next]_vars
  PROVE  NowFits'
<1>1. now \in [Handles -> 0 .. MaxClock] /\ clock \in 0 .. MaxClock
  BY DEF TypeOK
<1>2. Minute \in 0 .. MaxClock \div MIN_SEC /\ 0 \in 0 .. MaxClock \div MIN_SEC
  BY <1>1, ClockFits DEF Minute
<1> DEFINE last == MaxClock \div MIN_SEC
<1>3. Minute \in 0 .. last /\ 0 \in 0 .. last /\ \A h \in Handles : now[h] \in 0 .. last
  BY <1>2 DEF NowFits
<1> HIDE DEF last
<1>4. \A h \in Handles : now'[h] \in 0 .. last
  BY <1>1, <1>3, NowStep
<1> QED BY <1>4 DEF NowFits, last

\* What each operation does with the rows.
LEMMA RowActions ==
  ASSUME FieldsFit, TypeOK, NowFits, RowInv, [Next]_vars
  PROVE  \/ Untouched \/ Gone
         \/ \E h \in Handles : Cached(h) \/ Forgotten(h)
         \/ \E h \in Handles : \E row : RecordRow(row) /\ Store(h, row) /\ ver' = ver
<1> DEFINE Stores == \E h \in Handles : \E row : RecordRow(row) /\ Store(h, row) /\ ver' = ver
<1>1. ASSUME NEW h \in Handles, OpenRead(h) \/ OpenWrite(h) \/ Close(h) \/ Switch(h)
      PROVE  Untouched
  BY <1>1 DEF OpenRead, OpenWrite, Close, Switch, Untouched
<1>2. ASSUME NEW h \in Handles, DropExpired(h)
      PROVE  Untouched \/ Gone
  BY <1>2 DEF DropExpired, Deleted, Untouched, Gone
<1>3. ASSUME NEW h \in Handles, Delete(h) \/ Recycle(h)
      PROVE  Gone
  BY <1>3 DEF Delete, Recycle, Deleted, Gone
<1>4. ASSUME NEW h \in Handles, Read(h)
      PROVE  Cached(h)
  BY <1>4 DEF Read, Cached
<1>5. ASSUME NEW h \in Handles, Evict(h)
      PROVE  Forgotten(h)
  BY <1>5 DEF Evict, Forgotten
<1>6. ASSUME NEW h \in Handles, NEW secs \in Lifetimes, NEW keep \in BOOLEAN, Update(h, secs, keep)
      PROVE  Stores \/ Untouched
  <2>1. ver' = ver
    BY <1>6 DEF Update
  <2>2. CASE Skipped(h)
    BY <2>1, <2>2 DEF Skipped, Untouched
  <2>3. CASE ~Skipped(h)
    BY <1>6, <2>1, <2>3, UpdateStores
  <2> QED BY <2>2, <2>3
<1>7. ASSUME NEW h \in Handles, NEW secs \in Lifetimes, NEW flags \in {0, KF_HIDDEN + KF_UNLOCK},
             Insert(h, secs, flags)
      PROVE  Stores
  <2>1. ver' = ver
    BY <1>7 DEF Insert
  <2> QED BY <1>7, <2>1, InsertStores
<1>8. ASSUME NEW h \in Handles, NEW secs \in Lifetimes, SetLifetime(h, secs)
      PROVE  Stores
  <2>1. ver' = ver
    BY <1>8 DEF SetLifetime
  <2> QED BY <1>8, <2>1, SetLifetimeStores
<1>9. CASE Tick \/ UNCHANGED vars
  BY <1>9 DEF Tick, vars, Untouched
<1> QED BY <1>1, <1>2, <1>3, <1>4, <1>5, <1>6, <1>7, <1>8, <1>9 DEF Next

\* Every action keeps the rows right.
LEMMA RowStep ==
  ASSUME FieldsFit, TypeOK, NowFits, RowInv, [Next]_vars
  PROVE  RowInv'
<1>1. CASE Untouched
  BY <1>1 DEF Untouched, RowInv, Kept, Present
<1>2. CASE Gone
  BY <1>2 DEF Gone, RowInv, Present
<1>3. ASSUME NEW h \in Handles, Cached(h)
      PROVE  RowInv'
  <2>1. RecordRow(Row(h)) /\ AsRead(Row(h)) = Kept
    BY <1>3, RowRight DEF Cached
  <2>2. Kept' = Kept /\ (Present' <=> Present)
    BY <1>3 DEF Cached, Kept, Present
  <2>3. DOMAIN rows' = Handles
        /\ \A o \in Handles : rows'[o] = IF o = h THEN Row(h) ELSE rows[o]
    BY <1>3 DEF Cached, RowInv
  <2> DEFINE row == Row(h)
             kept == Kept
  <2>4. RecordRow(row) /\ AsRead(row) = kept /\ Kept' = kept
    BY <2>1, <2>2
  <2>5. RecordRow(kept) /\ AsRead(kept) = kept
        /\ \A o \in Handles : rows[o] # NoRow => RecordRow(rows[o]) /\ AsRead(rows[o]) = kept
    BY <1>3 DEF RowInv, Cached
  <2>6. \A o \in Handles : rows'[o] = IF o = h THEN row ELSE rows[o]
    BY <2>3
  <2> HIDE DEF row, kept
  <2>7. RecordRow(Kept') /\ AsRead(Kept') = Kept'
        /\ \A o \in Handles : rows'[o] # NoRow => RecordRow(rows'[o]) /\ AsRead(rows'[o]) = Kept'
    BY <2>4, <2>5, <2>6
  <2> QED BY <2>3, <2>7 DEF RowInv
<1>4. ASSUME NEW h \in Handles, Forgotten(h)
      PROVE  RowInv'
  <2>1. Kept' = Kept /\ (Present' <=> Present)
    BY <1>4 DEF Forgotten, Kept, Present
  <2>2. DOMAIN rows' = Handles
        /\ \A o \in Handles : rows'[o] = IF o = h THEN NoRow ELSE rows[o]
    BY <1>4 DEF Forgotten, RowInv
  <2>3. ASSUME Present
        PROVE  /\ RecordRow(Kept') /\ AsRead(Kept') = Kept'
               /\ \A o \in Handles :
                    rows'[o] # NoRow => RecordRow(rows'[o]) /\ AsRead(rows'[o]) = Kept'
    BY <2>1, <2>2, <2>3 DEF RowInv
  <2> QED BY <2>1, <2>2, <2>3 DEF RowInv
<1>5. ASSUME NEW h \in Handles, NEW row, RecordRow(row), Store(h, row), ver' = ver
      PROVE  RowInv'
  BY <1>5, Stored DEF TypeOK
<1> QED BY <1>1, <1>2, <1>3, <1>4, <1>5, RowActions

\* The cached row and the row in the file, once RowInv holds.
LEMMA RowSurvives == RowInv => RowSurvivesFile
<1> SUFFICES ASSUME RowInv, NEW h \in Handles, Present, rows[h] # NoRow
             PROVE  /\ rows[h] = [Kept EXCEPT !.cdays = rows[h].cdays]
                    /\ Kept.cdays \in {rows[h].cdays, Day(rows[h].mdays)}
  BY DEF RowSurvivesFile, Kept
<1> DEFINE row == rows[h]
<1>1. GoodRow(row) /\ AsRead(row) = Kept
  BY DEF RowInv, RecordRow
<1>2. AsRead(row).cdays \in {row.cdays, Day(row.mdays)}
  BY <1>1, ReadRowStays
<1>3. row = [AsRead(row) EXCEPT !.cdays = row.cdays]
  BY <1>1, AsReadKeeps
<1> HIDE DEF row
<1> QED BY <1>1, <1>2, <1>3 DEF row

\* There is no record at the start.
LEMMA RowInit == Init => NowFits /\ RowInv
<1>1. MaxClock \div MIN_SEC \in Nat
  BY ExpiryAssumption, ClockFits DEF ExpiryAssumption
<1> QED BY <1>1 DEF Init, NowFits, RowInv, Present

\* The cached row and the row in the file are one row, whatever is done and
\* whatever the format and the version, while days fit in their fields.
THEOREM RowsSurvive == FieldsFit => (Spec => []RowSurvivesFile)
<1> SUFFICES ASSUME FieldsFit PROVE Spec => []RowSurvivesFile
  OBVIOUS
<1> DEFINE Inv == TypeOK /\ NowFits /\ RowInv
<1>1. Init => Inv
  BY TypeInit, RowInit
<1>2. Inv /\ [Next]_vars => Inv'
  BY TypeStep, NowFitsStep, RowStep
<1>3. Inv => RowSurvivesFile
  BY RowSurvives
<1> QED BY <1>1, <1>2, <1>3, PTL DEF Spec

-----------------------------------------------------------------------------
(* Lifetimes end on time.                                                  *)

\* The stamp of the row and the second of the modification that it stands for:
\* rounded down to the minute, or to the day.
Since(row, mod) ==
  IF SubDay(row.ttl)
  THEN row.mdays * MIN_SEC <= mod /\ mod < row.mdays * MIN_SEC + MIN_SEC
  ELSE Day(row.mdays) * DAY_SEC <= mod /\ mod < Day(row.mdays) * DAY_SEC + DAY_SEC

\* The row in the file counts what the caller asked for.
Counts == /\ life.mod <= clock
          /\ Rounds(Kept.ttl, life.secs)
          /\ Since(Kept, life.mod)

\* No handle is ahead of the clock, and one that may write is not behind.
NowInStep == \A h \in Handles : now[h] <= Minute /\ (mode[h] = "write" => now[h] = Minute)

\* The minutes and the days of the clock are those that have begun.
LEMMA ClockUnits ==
  ASSUME TypeOK
  PROVE  /\ clock \in Nat /\ Minute \in Nat /\ Day(Minute) \in Nat
         /\ MIN_SEC \in Nat \ {0} /\ MIN_OF_DAY \in Nat \ {0} /\ DAY_SEC \in Nat \ {0}
         /\ DAY_SEC = MIN_OF_DAY * MIN_SEC
         /\ \A k \in Nat : k * MIN_SEC <= clock <=> k <= Minute
         /\ \A k \in Nat : k * DAY_SEC <= clock <=> k <= Day(Minute)
         /\ Minute * MIN_SEC <= clock /\ clock < Minute * MIN_SEC + MIN_SEC
         /\ Day(Minute) * DAY_SEC <= clock /\ clock < Day(Minute) * DAY_SEC + DAY_SEC
<1>1. MIN_SEC \in Nat \ {0} /\ MIN_OF_DAY \in Nat \ {0}
  BY Widths
<1>2. DAY_SEC = MIN_OF_DAY * MIN_SEC /\ DAY_SEC \in Nat \ {0}
  BY <1>1 DEF DAY_SEC
<1>3. clock \in Nat
  BY ExpiryAssumption DEF ExpiryAssumption, TypeOK
<1>4. Minute \in Nat /\ \A k \in Nat : k * MIN_SEC <= clock <=> k <= Minute
  BY <1>1, <1>3, Fits DEF Minute
<1>5. Day(Minute) \in Nat
  BY <1>4, DayOfMinutes
<1>6. ASSUME NEW k \in Nat
      PROVE  k * DAY_SEC <= clock <=> k <= Day(Minute)
  <2>1. k * DAY_SEC = Minutes(k) * MIN_SEC
    BY <1>1, <1>2 DEF Minutes
  <2>2. Minutes(k) \in Nat
    BY DayOfMinutes
  <2>3. Minutes(k) * MIN_SEC <= clock <=> Minutes(k) <= Minute
    BY <1>4, <2>2
  <2>4. Minutes(k) <= Minute <=> k <= Day(Minute)
    BY <1>4, DayOrder
  <2> QED BY <2>1, <2>3, <2>4
<1>7. Minute * MIN_SEC <= clock /\ ~((Minute + 1) * MIN_SEC <= clock)
  BY <1>4
<1>8. Day(Minute) * DAY_SEC <= clock /\ ~((Day(Minute) + 1) * DAY_SEC <= clock)
  BY <1>5, <1>6
<1>9. (Minute + 1) * MIN_SEC = Minute * MIN_SEC + MIN_SEC
      /\ (Day(Minute) + 1) * DAY_SEC = Day(Minute) * DAY_SEC + DAY_SEC
      /\ Minute * MIN_SEC \in Nat /\ Day(Minute) * DAY_SEC \in Nat
  BY <1>1, <1>2, <1>4, <1>5
<1>10. clock < Minute * MIN_SEC + MIN_SEC /\ clock < Day(Minute) * DAY_SEC + DAY_SEC
  BY <1>1, <1>2, <1>3, <1>7, <1>8, <1>9
<1> QED BY <1>1, <1>2, <1>3, <1>4, <1>5, <1>6, <1>7, <1>8, <1>10

\* A lifetime counted in days.
LEMMA DayRow ==
  ASSUME NEW row, RecordRow(row), row.ttl.mins > 0, ~SubDay(row.ttl)
  PROVE  \E d, n \in Nat : /\ Day(row.mdays) = d /\ row.mdays = Minutes(d)
                           /\ row.ttl.mins = Minutes(n) /\ row.ttl.mins >= MIN_OF_DAY
                           /\ row.mdays + row.ttl.mins = Minutes(d + n)
                           /\ Minutes(d + n + 1) > Minutes(d + n)
                           /\ row.ttl.mins * MIN_SEC = n * DAY_SEC
                           /\ (d + n + 1) * DAY_SEC = d * DAY_SEC + n * DAY_SEC + DAY_SEC
<1>1. /\ row.mdays \in Nat /\ row.ttl.mins \in Nat
      /\ row.mdays = Minutes(Day(row.mdays))
      /\ \/ row.ttl = NoTtl
         \/ \E n \in 1 .. MAX_TTL_DAYS : row.ttl = DayTtl(n)
         \/ \E n \in 1 .. MIN_OF_DAY - 1 : row.ttl = MinTtl(n)
  BY DEF RecordRow, GoodRow
<1>2. MIN_SEC \in Nat \ {0} /\ MIN_OF_DAY \in Nat \ {0}
  BY Widths
<1>3. row.ttl.mins >= MIN_OF_DAY
  BY <1>1, <1>2 DEF SubDay
<1>4. \E n \in 1 .. MAX_TTL_DAYS : row.ttl = DayTtl(n)
  <2>1. row.ttl # NoTtl
    BY <1>2, <1>3 DEF NoTtl
  <2>2. ASSUME NEW n \in 1 .. MIN_OF_DAY - 1 PROVE row.ttl # MinTtl(n)
    BY <1>2, <1>3 DEF MinTtl
  <2> QED BY <1>1, <2>1, <2>2
<1>5. PICK n \in 1 .. MAX_TTL_DAYS : row.ttl = DayTtl(n)
  BY <1>4
<1>6. n \in Nat /\ row.ttl.mins = Minutes(n)
  BY <1>5 DEF DayTtl
<1> DEFINE d == Day(row.mdays)
<1>7. d \in Nat /\ row.mdays = Minutes(d)
  BY <1>1, DayOfMinutes
<1> HIDE DEF d
<1>8. Minutes(d) + Minutes(n) = Minutes(d + n) /\ Minutes(d + n + 1) > Minutes(d + n)
      /\ Minutes(n) * MIN_SEC = n * DAY_SEC
  BY <1>2, <1>6, <1>7 DEF Minutes, DAY_SEC
<1>9. DAY_SEC \in Nat
  BY <1>2 DEF DAY_SEC
<1>10. (d + n + 1) * DAY_SEC = d * DAY_SEC + n * DAY_SEC + DAY_SEC
  BY <1>6, <1>7, <1>9
<1>11. Day(row.mdays) = d
  BY DEF d
<1> QED BY <1>3, <1>6, <1>7, <1>8, <1>10, <1>11

\* A record that reads as expired to a handle that is not ahead of the clock
\* has had all of its lifetime.
LEMMA NotEarly ==
  ASSUME TypeOK, NEW row, RecordRow(row), NEW mod \in Nat, NEW left \in Nat,
         Since(row, mod), Rounds(row.ttl, left), NEW n \in Nat, n <= Minute,
         Expired(row, Day(n), Minute)
  PROVE  left > 0 /\ clock > mod + left
<1>1. /\ row.mdays \in Nat /\ row.ttl.mins \in Nat /\ row.ttl.mins > 0
  BY DEF RecordRow, GoodRow, Expired
<1>2. left > 0
  BY <1>1 DEF Rounds
<1>3. CASE SubDay(row.ttl)
  <2> DEFINE m == row.mdays
             t == row.ttl.mins
  <2>1. Minute > m + t
    BY <1>1, <1>3, ClockUnits DEF SubDay, Expired
  <2>2. mod < m * MIN_SEC + MIN_SEC /\ left <= t * MIN_SEC
    BY <1>3 DEF Since, Rounds
  <2>3. m \in Nat /\ t \in Nat
    BY <1>1
  <2> HIDE DEF m, t
  <2>4. m + t + 1 \in Nat /\ m + t + 1 <= Minute
    BY <2>1, <2>3, ClockUnits
  <2>5. (m + t + 1) * MIN_SEC <= clock
    BY <2>4, ClockUnits
  <2>6. (m + t + 1) * MIN_SEC = m * MIN_SEC + t * MIN_SEC + MIN_SEC
        /\ m * MIN_SEC \in Nat /\ t * MIN_SEC \in Nat
    <3>1. MIN_SEC \in Nat
      BY ClockUnits
    <3> QED BY <2>3, <3>1
  <2> QED BY <1>2, <2>2, <2>5, <2>6, ClockUnits
<1>4. CASE ~SubDay(row.ttl)
  <2>1. PICK d \in Nat, k \in Nat :
              /\ Day(row.mdays) = d /\ row.mdays = Minutes(d)
              /\ row.ttl.mins = Minutes(k) /\ row.ttl.mins >= MIN_OF_DAY
              /\ row.mdays + row.ttl.mins = Minutes(d + k)
              /\ Minutes(d + k + 1) > Minutes(d + k)
              /\ row.ttl.mins * MIN_SEC = k * DAY_SEC
              /\ (d + k + 1) * DAY_SEC = d * DAY_SEC + k * DAY_SEC + DAY_SEC
    BY <1>1, <1>4, DayRow
  <2>2. Minutes(Day(n)) > Minutes(d + k)
    BY <2>1 DEF Expired
  <2>3. mod < d * DAY_SEC + DAY_SEC /\ left <= k * DAY_SEC
    BY <1>4, <2>1 DEF Since, Rounds
  <2>4. Day(n) \in Nat /\ Day(n) <= Day(Minute) /\ d + k \in Nat /\ Day(Minute) \in Nat
    BY <2>1, ClockUnits, DayOrder, DayOfMinutes
  <2>5. ~(Day(n) <= d + k)
    <3>1. Minutes(Day(n)) \in Nat /\ Minutes(d + k) \in Nat
      BY <2>4, DayOfMinutes
    <3>2. Day(n) <= d + k => Minutes(Day(n)) <= Minutes(d + k)
      BY <2>4, DayOrder
    <3> QED BY <2>2, <3>1, <3>2
  <2>6. d + k + 1 \in Nat /\ d + k + 1 <= Day(Minute)
    BY <2>4, <2>5
  <2>7. (d + k + 1) * DAY_SEC <= clock
    BY <2>6, ClockUnits
  <2>8. d * DAY_SEC \in Nat /\ k * DAY_SEC \in Nat
    BY <2>1, ClockUnits
  <2> QED BY <1>2, <2>1, <2>3, <2>7, <2>8, ClockUnits
<1> QED BY <1>3, <1>4

\* A record reads as expired once its lifetime is over by two units.
LEMMA NotLate ==
  ASSUME TypeOK, NEW row, RecordRow(row), NEW mod \in Nat, NEW left \in Nat \ {0},
         Since(row, mod), Rounds(row.ttl, left),
         clock >= mod + left + 2 * (IF left < DAY_SEC THEN MIN_SEC ELSE DAY_SEC)
  PROVE  Expired(row, Day(Minute), Minute)
<1>1. /\ row.mdays \in Nat /\ row.ttl.mins \in Nat /\ row.ttl.mins > 0
  <2>1. row.mdays \in Nat /\ row.ttl.mins \in Nat
    BY DEF RecordRow, GoodRow
  <2>2. row.ttl.mins # 0
    BY DEF Rounds
  <2> QED BY <2>1, <2>2
<1>2. CASE SubDay(row.ttl)
  <2> DEFINE m == row.mdays
             t == row.ttl.mins
  <2>1. m * MIN_SEC <= mod /\ left < DAY_SEC /\ t * MIN_SEC < left + MIN_SEC
    BY <1>2 DEF Since, Rounds
  <2>2. m \in Nat /\ t \in Nat
    BY <1>1
  <2>3. clock >= mod + left + 2 * MIN_SEC
    BY <2>1
  <2> HIDE DEF m, t
  <2>4. (m + t + 1) * MIN_SEC = m * MIN_SEC + t * MIN_SEC + MIN_SEC
        /\ m * MIN_SEC \in Nat /\ t * MIN_SEC \in Nat
    <3>1. MIN_SEC \in Nat
      BY ClockUnits
    <3> QED BY <2>2, <3>1
  <2>5. (m + t + 1) * MIN_SEC <= clock
    BY <2>1, <2>3, <2>4, ClockUnits
  <2>6. m + t + 1 <= Minute
    BY <2>2, <2>5, ClockUnits
  <2>7. Minute > m + t
    BY <2>2, <2>6, ClockUnits
  <2>8. ~(row.ttl.mins >= MIN_OF_DAY)
    BY <1>1, <1>2, ClockUnits DEF SubDay
  <2> QED BY <1>1, <2>7, <2>8 DEF Expired, m, t
<1>3. CASE ~SubDay(row.ttl)
  <2>1. PICK d \in Nat, k \in Nat :
              /\ Day(row.mdays) = d /\ row.mdays = Minutes(d)
              /\ row.ttl.mins = Minutes(k) /\ row.ttl.mins >= MIN_OF_DAY
              /\ row.mdays + row.ttl.mins = Minutes(d + k)
              /\ Minutes(d + k + 1) > Minutes(d + k)
              /\ row.ttl.mins * MIN_SEC = k * DAY_SEC
              /\ (d + k + 1) * DAY_SEC = d * DAY_SEC + k * DAY_SEC + DAY_SEC
    BY <1>1, <1>3, DayRow
  <2>2. d * DAY_SEC <= mod /\ DAY_SEC <= left /\ k * DAY_SEC < left + DAY_SEC
    BY <1>3, <2>1 DEF Since, Rounds
  <2>3. clock >= mod + left + 2 * DAY_SEC
    BY <2>2, ClockUnits
  <2>4. d * DAY_SEC \in Nat /\ k * DAY_SEC \in Nat
    BY <2>1, ClockUnits
  <2>5. (d + k + 1) * DAY_SEC <= clock
    BY <2>1, <2>2, <2>3, <2>4, ClockUnits
  <2>6. d + k + 1 \in Nat /\ d + k + 1 <= Day(Minute)
    BY <2>1, <2>5, ClockUnits
  <2>7. Minutes(d + k + 1) <= Minutes(Day(Minute))
    BY <2>6, ClockUnits, DayOrder
  <2>8. Minutes(d + k + 1) \in Nat /\ Minutes(d + k) \in Nat /\ Minutes(Day(Minute)) \in Nat
    <3>1. d + k \in Nat /\ d + k + 1 \in Nat /\ Day(Minute) \in Nat
      BY <2>6, ClockUnits
    <3> QED BY <3>1, DayOfMinutes
  <2>9. Minutes(Day(Minute)) > row.mdays + row.ttl.mins
    BY <2>1, <2>7, <2>8
  <2> QED BY <1>1, <2>1, <2>9 DEF Expired
<1> QED BY <1>2, <1>3

\* A stamp that is not before the creation day is kept, to the minute or to the
\* day.
LEMMA StampKept ==
  ASSUME NEW cdays \in Nat, NEW mdays \in Nat, cdays <= Day(mdays), NEW ttl
  PROVE  Stamped(cdays, mdays, ttl) = IF SubDay(ttl) THEN mdays ELSE Minutes(Day(mdays))
<1>1. Minutes(cdays) <= mdays /\ Minutes(cdays) <= Minutes(Day(mdays))
  <2>1. Day(mdays) \in Nat
    BY DayOfMinutes
  <2> QED BY <2>1, DayOrder
<1>2. Minutes(cdays) \in Nat /\ Minutes(Day(mdays)) \in Nat
  BY DayOfMinutes
<1>3. ASSUME NEW a \in Nat, NEW b \in Nat, a <= b
      PROVE  Most(a, b) = b
  BY <1>3 DEF Most
<1> QED BY <1>1, <1>2, <1>3 DEF Stamped

\* The stamp of a modification that is made now.
LEMMA SinceNow ==
  ASSUME TypeOK, NEW row,
         row.mdays = IF SubDay(row.ttl) THEN Minute ELSE Minutes(Day(Minute))
  PROVE  Since(row, clock)
<1>1. CASE SubDay(row.ttl)
  BY <1>1, ClockUnits DEF Since
<1>2. CASE ~SubDay(row.ttl)
  <2>1. Day(row.mdays) = Day(Minute)
    BY <1>2, ClockUnits, DayOfMinutes
  <2> QED BY <1>2, <2>1, ClockUnits DEF Since
<1> QED BY <1>1, <1>2

\* The second that the stamp of a rewritten row stands for: the one before, but
\* the beginning of its day when a lifetime of minutes takes the place of one
\* of days, or of none.
Floored(mod, ttl, old) ==
  IF SubDay(ttl) /\ ~SubDay(old.ttl) THEN (mod \div DAY_SEC) * DAY_SEC ELSE mod

\* The stamp of a row that keeps the stamp it had.
LEMMA SinceBefore ==
  ASSUME TypeOK, NEW old, RecordRow(old), NEW mod \in Nat, Since(old, mod), NEW row,
         row.mdays = Stamped(old.cdays, old.mdays, row.ttl)
  PROVE  /\ Since(row, Floored(mod, row.ttl, old))
         /\ Floored(mod, row.ttl, old) \in Nat /\ Floored(mod, row.ttl, old) <= mod
<1> DEFINE m == old.mdays
           d == Day(old.mdays)
<1>1. /\ m \in Nat /\ old.cdays \in Nat /\ old.cdays <= d
      /\ ~SubDay(old.ttl) => m = Minutes(d)
  BY DEF RecordRow, GoodRow
<1>2. d \in Nat /\ Day(Minutes(d)) = d
  BY <1>1, DayOfMinutes
<1>3. row.mdays = IF SubDay(row.ttl) THEN m ELSE Minutes(d)
  BY <1>1, StampKept
<1>4. /\ MIN_SEC \in Nat \ {0} /\ MIN_OF_DAY \in Nat \ {0} /\ DAY_SEC \in Nat \ {0}
      /\ DAY_SEC = MIN_OF_DAY * MIN_SEC
  BY ClockUnits
<1>5. Minutes(d) * MIN_SEC = d * DAY_SEC
  BY <1>2, <1>4 DEF Minutes
<1> HIDE DEF m, d
<1>6. CASE SubDay(row.ttl) /\ SubDay(old.ttl)
  <2>1. Since(row, mod)
    BY <1>3, <1>6 DEF Since, m
  <2> QED BY <1>6, <2>1 DEF Floored
<1>7. CASE SubDay(row.ttl) /\ ~SubDay(old.ttl)
  <2>1. d * DAY_SEC <= mod /\ mod < d * DAY_SEC + DAY_SEC
    BY <1>7 DEF Since, d
  <2>2. mod \div DAY_SEC = d
    <3>1. mod \div DAY_SEC \in Nat /\ \A k \in Nat : k * DAY_SEC <= mod <=> k <= mod \div DAY_SEC
      BY <1>4, Fits
    <3>2. (d + 1) * DAY_SEC = d * DAY_SEC + DAY_SEC /\ d * DAY_SEC \in Nat
      BY <1>2, <1>4
    <3>3. ~((d + 1) * DAY_SEC <= mod)
      BY <1>4, <2>1, <3>2
    <3>4. d <= mod \div DAY_SEC /\ ~(d + 1 <= mod \div DAY_SEC)
      BY <1>2, <2>1, <3>1, <3>3
    <3> QED BY <1>2, <3>1, <3>4
  <2>3. Floored(mod, row.ttl, old) = d * DAY_SEC
    BY <1>7, <2>2 DEF Floored
  <2>4. row.mdays * MIN_SEC = d * DAY_SEC
    BY <1>1, <1>3, <1>5, <1>7
  <2>5. d * DAY_SEC \in Nat
    BY <1>2, <1>4
  <2>6. Since(row, d * DAY_SEC)
    BY <1>4, <1>7, <2>4, <2>5 DEF Since
  <2> QED BY <2>1, <2>3, <2>5, <2>6
<1>8. CASE ~SubDay(row.ttl)
  <2>1. Day(row.mdays) = d
    BY <1>2, <1>3, <1>8
  <2>2. d * DAY_SEC <= mod /\ mod < d * DAY_SEC + DAY_SEC
    <3>1. CASE ~SubDay(old.ttl)
      BY <3>1 DEF Since, d
    <3>2. CASE SubDay(old.ttl)
      <4> DEFINE r == m % MIN_OF_DAY
      <4>1. m = Minutes(d) + r /\ r \in 0 .. MIN_OF_DAY - 1
        <5>1. d = Day(m)
          BY DEF d, m
        <5> QED BY <1>1, <5>1, DayOfMinutes
      <4>2. m * MIN_SEC <= mod /\ mod < m * MIN_SEC + MIN_SEC
        BY <3>2 DEF Since, m
      <4> HIDE DEF r
      <4>3. m * MIN_SEC = Minutes(d) * MIN_SEC + r * MIN_SEC
        <5>1. Minutes(d) \in Nat
          BY <1>2, DayOfMinutes
        <5> QED BY <1>4, <4>1, <5>1
      <4>4. r * MIN_SEC >= 0 /\ r * MIN_SEC + MIN_SEC <= DAY_SEC /\ r * MIN_SEC \in Nat
        <5>1. (r + 1) * MIN_SEC <= MIN_OF_DAY * MIN_SEC
          BY <1>4, <4>1
        <5>2. (r + 1) * MIN_SEC = r * MIN_SEC + MIN_SEC /\ r * MIN_SEC \in Nat
          BY <1>4, <4>1
        <5> QED BY <1>4, <5>1, <5>2
      <4>5. d * DAY_SEC \in Nat
        BY <1>2, <1>4
      <4> QED BY <1>4, <1>5, <4>2, <4>3, <4>4, <4>5
    <3> QED BY <3>1, <3>2
  <2>3. Since(row, mod)
    BY <1>8, <2>1, <2>2 DEF Since
  <2> QED BY <1>8, <2>3 DEF Floored
<1> QED BY <1>6, <1>7, <1>8

\* The lifetime stored for the seconds asked for is rounded up by less than a
\* unit.
LEMMA AskedRounds ==
  ASSUME FieldsFit, NEW secs \in Int
  PROVE  /\ ~(GivenTtl(secs).mins >= MIN_OF_DAY /\ ~GivenTtl(secs).int)
              => Rounds(GivenTtl(secs), IF secs < 0 THEN 0 ELSE CapSecs(secs))
         /\ (secs >= 0 => GivenTtl(secs) = ConvTtl(secs))
<1>1. CASE secs < 0
  <2>1. GivenTtl(secs) = NoTtl
    BY <1>1, AskedTtl DEF GivenTtl
  <2>2. MIN_OF_DAY \in Nat \ {0}
    BY Widths
  <2> QED BY <1>1, <2>1, <2>2 DEF Rounds, NoTtl, SubDay
<1>2. CASE secs >= 0
  <2>1. GivenTtl(secs) = ConvTtl(secs)
    BY <1>2, AskedTtl DEF GivenTtl
  <2>2. ~(ConvTtl(secs).mins >= MIN_OF_DAY /\ ~ConvTtl(secs).int)
          => Rounds(ConvTtl(secs), CapSecs(secs))
    BY <1>2, ConvTtlRounds
  <2> QED BY <1>2, <2>1, <2>2
<1> QED BY <1>1, <1>2

\* What the row in the file counts once it has been stored.
LEMMA StoredCounts ==
  ASSUME TypeOK, NEW h \in Handles, NEW row, RecordRow(row), Store(h, row), ver' = ver,
         life'.mod <= clock', Rounds(row.ttl, life'.secs), Since(row, life'.mod)
  PROVE  Counts'
<1>1. Kept' = AsRead(row)
  BY Stored DEF TypeOK
<1>2. AsRead(row).mdays = row.mdays /\ AsRead(row).ttl = row.ttl
  BY AsReadKeeps DEF RecordRow
<1> DEFINE kept == AsRead(row)
           mod == life'.mod
           left == life'.secs
<1>3. kept.mdays = row.mdays /\ kept.ttl = row.ttl /\ Kept' = kept
  BY <1>1, <1>2
<1>4. Rounds(kept.ttl, left) /\ Since(kept, mod) /\ mod <= clock'
  <2> HIDE DEF kept, mod, left
  <2>1. Rounds(row.ttl, left) /\ Since(row, mod) /\ mod <= clock'
    BY DEF mod, left
  <2> QED BY <1>3, <2>1 DEF Since
<1> HIDE DEF kept
<1> QED BY <1>3, <1>4 DEF Counts

\* What has to hold for a record to expire on time.
Timely == NowInStep /\ (Present => Counts)

\* f_write of a record that exists, with and without NO_ATIME.
LEMMA UpdateCounts ==
  ASSUME FieldsFit, TypeOK, NowFits, RowInv, Timely,
         NEW h \in Handles, NEW secs \in Lifetimes, NEW keep \in BOOLEAN, Update(h, secs, keep),
         ~ValueCache
  PROVE  Counts'
<1> DEFINE ttl == UpdateTtl(h, secs)
           old == Row(h)
<1>1. PICK row : /\ RecordRow(row) /\ Store(h, row)
                 /\ row.ttl = ttl /\ ~(row.ttl.mins >= MIN_OF_DAY /\ ~row.ttl.int)
                 /\ row.mdays = Stamped(old.cdays, UpdateStamp(h, secs, keep), ttl)
  BY UpdateStores DEF Skipped, HoldsValue
<1>2. Present /\ mode[h] = "write" /\ ver' = ver /\ clock' = clock
  BY DEF Update
<1>3. /\ RecordRow(old) /\ old.mdays = Kept.mdays /\ old.ttl = Kept.ttl
  BY <1>2, RowRight
<1>4. /\ life.mod \in Nat /\ life.mod <= clock /\ clock \in Nat /\ life.secs \in Nat
      /\ Rounds(old.ttl, life.secs) /\ Since(old, life.mod)
  <2>1. life.mod \in Nat /\ life.secs \in Nat
    BY DEF TypeOK
  <2> QED BY <1>2, <1>3, <2>1, ClockUnits DEF Timely, Counts, Since
<1>5. secs \in Int
  BY ExpiryAssumption DEF ExpiryAssumption
<1>6. life' = [mod |-> IF ~keep THEN clock ELSE Floored(life.mod, ttl, old),
               secs |-> IF secs < 0 THEN life.secs ELSE CapSecs(secs)]
  BY DEF Update, Floored, UpdateTtl
<1>7. Rounds(row.ttl, life'.secs)
  <2>1. CASE secs < 0
    <3>1. ttl = old.ttl
      BY <1>5, <2>1, AskedTtl DEF UpdateTtl
    <3>2. life'.secs = life.secs
      BY <1>6, <2>1
    <3> QED BY <1>1, <1>4, <3>1, <3>2
  <2>2. CASE ~(secs < 0)
    <3>1. ttl = ConvTtl(secs) /\ GivenTtl(secs) = ConvTtl(secs)
      BY <1>5, <2>2, AskedTtl, AskedRounds DEF UpdateTtl
    <3>2. life'.secs = CapSecs(secs)
      BY <1>6, <2>2
    <3>3. Rounds(ttl, CapSecs(secs))
      <4>1. row.ttl = GivenTtl(secs) /\ ttl = GivenTtl(secs)
        BY <1>1, <3>1
      <4> HIDE DEF ttl, old
      <4>2. ~(GivenTtl(secs).mins >= MIN_OF_DAY /\ ~GivenTtl(secs).int)
        BY <1>1, <4>1
      <4> QED BY <1>5, <2>2, <4>1, <4>2, AskedRounds
    <3> QED BY <1>1, <3>2, <3>3
  <2> QED BY <2>1, <2>2
<1> HIDE DEF ttl, old
<1>8. CASE keep
  <2>1. row.mdays = Stamped(old.cdays, old.mdays, row.ttl)
    BY <1>1, <1>8 DEF UpdateStamp, old
  <2>2. life'.mod = Floored(life.mod, row.ttl, old)
    BY <1>1, <1>6, <1>8
  <2>3. Since(row, life'.mod) /\ life'.mod \in Nat /\ life'.mod <= life.mod
    BY <1>3, <1>4, <2>1, <2>2, SinceBefore
  <2>4. life'.mod <= clock'
    BY <1>2, <1>4, <2>3
  <2> QED BY <1>1, <1>2, <1>7, <2>3, <2>4, StoredCounts
<1>9. CASE ~keep
  <2>1. now[h] = Minute
    BY <1>2 DEF Timely, NowInStep
  <2>2. UpdateStamp(h, secs, keep) = IF SubDay(ttl) THEN Minute ELSE Minutes(Day(Minute))
    BY <1>9, <2>1 DEF UpdateStamp, NewStamp, ttl
  <2> DEFINE m == UpdateStamp(h, secs, keep)
  <2>3. m \in Nat /\ Day(m) = Day(Minute) /\ Minute \in Nat
    BY <2>2, ClockUnits, DayOfMinutes
  <2>4. old.cdays \in Nat /\ old.cdays <= Day(Minute)
    <3>1. old.cdays \in Nat /\ old.mdays \in Nat /\ old.cdays <= Day(old.mdays)
      BY <1>3 DEF RecordRow, GoodRow
    <3>2. Day(old.mdays) \in Nat /\ Day(old.mdays) <= Day(Minute)
      <4>1. Day(old.mdays) \in Nat
        BY <3>1, DayOfMinutes
      <4>2. CASE SubDay(old.ttl)
        <5>1. old.mdays * MIN_SEC <= life.mod
          BY <1>4, <4>2 DEF Since
        <5>2. old.mdays * MIN_SEC \in Nat
          <6>1. MIN_SEC \in Nat
            BY ClockUnits
          <6> QED BY <3>1, <6>1
        <5>3. old.mdays * MIN_SEC <= clock
          BY <1>4, <5>1, <5>2
        <5>4. old.mdays <= Minute
          BY <3>1, <5>3, ClockUnits
        <5> QED BY <3>1, <4>1, <5>4, ClockUnits, DayOrder
      <4>3. CASE ~SubDay(old.ttl)
        <5>1. Day(old.mdays) * DAY_SEC <= life.mod
          BY <1>4, <4>3 DEF Since
        <5>2. Day(old.mdays) * DAY_SEC \in Nat
          <6>1. DAY_SEC \in Nat
            BY ClockUnits
          <6> QED BY <4>1, <6>1
        <5>3. Day(old.mdays) * DAY_SEC <= clock
          BY <1>4, <5>1, <5>2
        <5> QED BY <4>1, <5>3, ClockUnits
      <4> QED BY <4>2, <4>3
    <3> QED BY <3>1, <3>2, ClockUnits
  <2>5. Stamped(old.cdays, m, ttl) = IF SubDay(ttl) THEN m ELSE Minutes(Day(m))
    <3> HIDE DEF m
    <3> QED BY <2>3, <2>4, StampKept
  <2>6. row.mdays = IF SubDay(row.ttl) THEN Minute ELSE Minutes(Day(Minute))
    BY <1>1, <2>2, <2>3, <2>5
  <2>7. life'.mod = clock
    BY <1>6, <1>9
  <2>8. Since(row, life'.mod) /\ life'.mod <= clock'
    BY <1>2, <1>4, <2>6, <2>7, SinceNow
  <2> QED BY <1>1, <1>2, <1>7, <2>8, StoredCounts
<1> QED BY <1>8, <1>9

\* f_write_key_flags: the new lifetime counts from the stamp the record has.
LEMMA SetLifetimeCounts ==
  ASSUME FieldsFit, TypeOK, NowFits, RowInv, Timely,
         NEW h \in Handles, NEW secs \in Lifetimes, SetLifetime(h, secs)
  PROVE  Counts'
<1> DEFINE ttl == GivenTtl(secs)
           old == Row(h)
<1>1. PICK row : /\ RecordRow(row) /\ Store(h, row)
                 /\ row.ttl = ttl /\ ~(row.ttl.mins >= MIN_OF_DAY /\ ~row.ttl.int)
                 /\ row.mdays = Stamped(old.cdays, old.mdays, ttl)
  BY SetLifetimeStores
<1>2. Present /\ ver' = ver /\ clock' = clock
  BY DEF SetLifetime
<1>3. /\ RecordRow(old) /\ old.mdays = Kept.mdays /\ old.ttl = Kept.ttl
  BY <1>2, RowRight
<1>4. /\ life.mod \in Nat /\ life.mod <= clock /\ clock \in Nat /\ Since(old, life.mod)
  <2>1. life.mod \in Nat
    BY DEF TypeOK
  <2> QED BY <1>2, <1>3, <2>1, ClockUnits DEF Timely, Counts, Since
<1>5. secs \in Int
  BY ExpiryAssumption DEF ExpiryAssumption
<1>6. life' = [mod |-> Floored(life.mod, ttl, old),
               secs |-> IF secs < 0 THEN 0 ELSE CapSecs(secs)]
  BY DEF SetLifetime, Floored, GivenTtl
<1> HIDE DEF old
<1>7. Rounds(row.ttl, life'.secs)
  <2>1. ~(ttl.mins >= MIN_OF_DAY /\ ~ttl.int)
    BY <1>1
  <2>2. Rounds(ttl, IF secs < 0 THEN 0 ELSE CapSecs(secs))
    BY <1>5, <2>1, AskedRounds
  <2>3. life'.secs = IF secs < 0 THEN 0 ELSE CapSecs(secs)
    BY <1>6
  <2> QED BY <1>1, <2>2, <2>3
<1> HIDE DEF ttl
<1>8. /\ row.mdays = Stamped(old.cdays, old.mdays, row.ttl)
      /\ life'.mod = Floored(life.mod, row.ttl, old)
  BY <1>1, <1>6
<1>9. Since(row, life'.mod) /\ life'.mod \in Nat /\ life'.mod <= life.mod
  BY <1>3, <1>4, <1>8, SinceBefore
<1>10. life'.mod <= clock'
  BY <1>2, <1>4, <1>9
<1> QED BY <1>1, <1>2, <1>7, <1>9, <1>10, StoredCounts

\* f_write and f_append of a record that does not exist.
LEMMA InsertCounts ==
  ASSUME FieldsFit, TypeOK, NowFits, Timely, NEW h \in Handles, NEW secs \in Lifetimes,
         NEW flags \in {0, KF_HIDDEN + KF_UNLOCK}, Insert(h, secs, flags)
  PROVE  Counts'
<1> DEFINE ttl == GivenTtl(secs)
<1>1. PICK row : /\ RecordRow(row) /\ Store(h, row)
                 /\ row.ttl = ttl /\ ~(row.ttl.mins >= MIN_OF_DAY /\ ~row.ttl.int)
                 /\ row.mdays = IF SubDay(ttl) THEN now[h] ELSE Minutes(Day(now[h]))
  BY InsertStores
<1>2. mode[h] = "write" /\ ver' = ver /\ clock' = clock
  BY DEF Insert
<1>3. now[h] = Minute
  BY <1>2 DEF Timely, NowInStep
<1>4. secs \in Int
  BY ExpiryAssumption DEF ExpiryAssumption
<1>5. life' = [mod |-> clock, secs |-> IF secs < 0 THEN 0 ELSE CapSecs(secs)]
  BY DEF Insert
<1>6. Rounds(row.ttl, life'.secs)
  <2>1. ~(ttl.mins >= MIN_OF_DAY /\ ~ttl.int)
    BY <1>1
  <2>2. Rounds(ttl, IF secs < 0 THEN 0 ELSE CapSecs(secs))
    BY <1>4, <2>1, AskedRounds
  <2>3. life'.secs = IF secs < 0 THEN 0 ELSE CapSecs(secs)
    BY <1>5
  <2> QED BY <1>1, <2>2, <2>3
<1> HIDE DEF ttl
<1>7. row.mdays = IF SubDay(row.ttl) THEN Minute ELSE Minutes(Day(Minute))
  BY <1>1, <1>3
<1>8. life'.mod = clock /\ clock \in Nat
  BY <1>5, ClockUnits
<1>9. Since(row, life'.mod) /\ life'.mod <= clock'
  BY <1>2, <1>7, <1>8, SinceNow
<1> QED BY <1>1, <1>2, <1>6, <1>9, StoredCounts

\* The clock goes on, and never while a session can write.
LEMMA ClockStep ==
  ASSUME TypeOK, ~LongSessions, [Next]_vars
  PROVE  /\ clock' \in Nat /\ Minute' \in Nat /\ clock <= clock' /\ Minute <= Minute'
         /\ clock' # clock => /\ Tick /\ \A h \in Handles : mode[h] # "write"
<1>1. clock' = clock \/ Tick
  BY DEF Next, vars, OpenRead, OpenWrite, Close, Switch, DropExpired, Read, Delete, Recycle,
         Evict, Update, Insert, SetLifetime
<1>2. clock \in Nat /\ Minute \in Nat
  BY ClockUnits
<1>3. clock' \in Nat /\ clock <= clock' /\ (clock' # clock => Tick)
  BY <1>1, <1>2 DEF Tick
<1>4. Minute' \in Nat /\ Minute <= Minute'
  <2>1. MIN_SEC \in Nat \ {0}
    BY Widths
  <2>2. Minute' = clock' \div MIN_SEC
    BY DEF Minute
  <2>3. /\ clock' \div MIN_SEC \in Nat
        /\ \A k \in Nat : k * MIN_SEC <= clock' <=> k <= clock' \div MIN_SEC
    BY <1>3, <2>1, Fits
  <2>4. Minute * MIN_SEC <= clock'
    <3>1. Minute * MIN_SEC <= clock
      BY ClockUnits
    <3>2. Minute * MIN_SEC \in Nat
      BY <1>2, <2>1
    <3> QED BY <1>2, <1>3, <3>1, <3>2
  <2> QED BY <1>2, <2>2, <2>3, <2>4
<1>5. Tick => \A h \in Handles : mode[h] # "write"
  BY DEF Tick
<1> QED BY <1>3, <1>4, <1>5

\* A session that begins to write is at the minute of the clock, and so is one
\* that writes on.
LEMMA WriterStep ==
  ASSUME TypeOK, NowInStep, [Next]_vars, NEW h \in Handles, mode'[h] = "write"
  PROVE  now'[h] = Minute
<1>1. /\ now \in [Handles -> 0 .. MaxClock]
      /\ mode \in [Handles -> {"none", "read", "write", "switch"}]
  BY DEF TypeOK
<1>2. mode[h] = "write" => now[h] = Minute
  BY DEF NowInStep
<1>3. ASSUME NEW o \in Handles, OpenRead(o) \/ OpenWrite(o)
      PROVE  now'[h] = Minute
  BY <1>1, <1>2, <1>3 DEF OpenRead, OpenWrite, Refresh
<1>4. ASSUME NEW o \in Handles, Close(o) \/ Switch(o) \/ DropExpired(o)
      PROVE  now'[h] = Minute
  <2>1. o # h
    BY <1>1, <1>4 DEF Close, Switch, DropExpired, EndSession
  <2> QED BY <1>1, <1>2, <1>4, <2>1 DEF Close, Switch, DropExpired, EndSession
<1>5. ASSUME mode' = mode,
             \/ now' = now
             \/ \E x \in Handles : \/ now' = [now EXCEPT ![x] = Minute]
                                   \/ now' = [now EXCEPT ![x] = now[x]]
      PROVE  now'[h] = Minute
  BY <1>1, <1>2, <1>5
<1>6. ASSUME NEW o \in Handles, Read(o)
      PROVE  now'[h] = Minute
  <2>1. mode' = mode /\ \/ now' = [now EXCEPT ![o] = now[o]]
                        \/ now' = [now EXCEPT ![o] = Minute]
    BY <1>6 DEF Read
  <2> QED BY <1>5, <2>1
<1>7. ASSUME NEW o \in Handles, Recycle(o)
      PROVE  now'[h] = Minute
  <2>1. mode' = mode /\ \/ now' = [now EXCEPT ![o] = now[o]]
                        \/ now' = [now EXCEPT ![o] = Minute]
    BY <1>7 DEF Recycle, LiveNow
  <2> QED BY <1>5, <2>1
<1>8. ASSUME NEW o \in Handles, NEW secs \in Lifetimes, NEW keep \in BOOLEAN, Update(o, secs, keep)
      PROVE  now'[h] = Minute
  <2>1. mode' = mode /\ \/ now' = [now EXCEPT ![o] = now[o]]
                        \/ now' = [now EXCEPT ![o] = Minute]
                        \/ now' = now
    BY <1>8 DEF Update, Skipped
  <2> QED BY <1>5, <2>1
<1>9. ASSUME NEW o \in Handles, NEW secs \in Lifetimes,
             \/ SetLifetime(o, secs)
             \/ \E flags \in {0, KF_HIDDEN + KF_UNLOCK} : Insert(o, secs, flags)
      PROVE  now'[h] = Minute
  <2>1. mode' = mode /\ now' = now
    BY <1>9 DEF SetLifetime, Insert
  <2> QED BY <1>5, <2>1
<1>10. ASSUME NEW o \in Handles, Delete(o) \/ Evict(o)
       PROVE  now'[h] = Minute
  <2>1. mode' = mode /\ now' = now
    BY <1>10 DEF Delete, Evict
  <2> QED BY <1>5, <2>1
<1>11. CASE Tick \/ UNCHANGED vars
  <2>1. mode' = mode /\ now' = now
    BY <1>11 DEF Tick, vars
  <2> QED BY <1>5, <2>1
<1> QED BY <1>3, <1>4, <1>6, <1>7, <1>8, <1>9, <1>10, <1>11 DEF Next

\* No action puts a handle ahead of the clock, or one that writes behind it.
LEMMA NowInStepStep ==
  ASSUME TypeOK, NowInStep, ~LongSessions, [Next]_vars
  PROVE  NowInStep'
<1>1. now \in [Handles -> 0 .. MaxClock]
  BY DEF TypeOK
<1>2. Minute \in Nat /\ Minute' \in Nat /\ Minute <= Minute'
  BY ClockStep, ClockUnits
<1>3. \A h \in Handles : now[h] \in Nat /\ now[h] <= Minute
  BY <1>1, ExpiryAssumption DEF NowInStep, ExpiryAssumption
<1>4. ASSUME NEW h \in Handles
      PROVE  now'[h] <= Minute'
  <2>1. now'[h] \in {now[h], 0, Minute}
    BY <1>1, NowStep
  <2> QED BY <1>2, <1>3, <2>1
<1>5. ASSUME NEW h \in Handles, mode'[h] = "write"
      PROVE  now'[h] = Minute'
  <2>1. now'[h] = Minute
    BY <1>5, WriterStep
  <2>2. clock' = clock
    <3>1. SUFFICES ASSUME clock' # clock PROVE FALSE
      OBVIOUS
    <3>2. Tick /\ mode[h] # "write"
      BY <3>1, ClockStep
    <3> QED BY <1>5, <3>2 DEF Tick
  <2>3. Minute' = Minute
    BY <2>2 DEF Minute
  <2> QED BY <2>1, <2>3
<1> QED BY <1>4, <1>5 DEF NowInStep

\* Every action that leaves a record leaves one that counts what was asked for.
LEMMA CountsStep ==
  ASSUME FieldsFit, TypeOK, NowFits, RowInv, Timely, ~LongSessions, ~ValueCache,
         [Next]_vars, Present'
  PROVE  Counts'
<1>1. ASSUME file' = file, ver' = ver, life' = life
      PROVE  Counts'
  <2>1. Kept' = Kept /\ Present
    BY <1>1 DEF Kept, Present
  <2>2. life.mod <= clock /\ Rounds(Kept.ttl, life.secs) /\ Since(Kept, life.mod)
    BY <2>1 DEF Timely, Counts
  <2>3. life.mod <= clock'
    <3>1. life.mod \in Nat
      BY DEF TypeOK
    <3> QED BY <2>2, <3>1, ClockStep, ClockUnits
  <2> DEFINE kept == Kept
  <2>4. Kept' = kept /\ Rounds(kept.ttl, life.secs) /\ Since(kept, life.mod)
    BY <2>1, <2>2
  <2> HIDE DEF kept
  <2> QED BY <1>1, <2>3, <2>4 DEF Counts
<1>2. ASSUME NEW h \in Handles,
             OpenRead(h) \/ OpenWrite(h) \/ Close(h) \/ Switch(h) \/ Read(h) \/ Evict(h)
      PROVE  Counts'
  <2>1. file' = file /\ ver' = ver /\ life' = life
    BY <1>2 DEF OpenRead, OpenWrite, Close, Switch, Read, Evict
  <2> QED BY <1>1, <2>1
<1>3. ASSUME NEW h \in Handles, DropExpired(h)
      PROVE  Counts'
  <2>1. file' = file /\ ver' = ver /\ life' = life
    BY <1>3 DEF DropExpired, Deleted, Present
  <2> QED BY <1>1, <2>1
<1>4. ASSUME NEW h \in Handles, Delete(h) \/ Recycle(h)
      PROVE  Counts'
  BY <1>4 DEF Delete, Recycle, Deleted, Present
<1>5. ASSUME NEW h \in Handles, NEW secs \in Lifetimes, NEW keep \in BOOLEAN, Update(h, secs, keep)
      PROVE  Counts'
  BY <1>5, UpdateCounts
<1>6. ASSUME NEW h \in Handles, NEW secs \in Lifetimes, NEW flags \in {0, KF_HIDDEN + KF_UNLOCK},
             Insert(h, secs, flags)
      PROVE  Counts'
  BY <1>6, InsertCounts
<1>7. ASSUME NEW h \in Handles, NEW secs \in Lifetimes, SetLifetime(h, secs)
      PROVE  Counts'
  BY <1>7, SetLifetimeCounts
<1>8. CASE Tick \/ UNCHANGED vars
  <2>1. file' = file /\ ver' = ver /\ life' = life
    BY <1>8 DEF Tick, vars
  <2> QED BY <1>1, <2>1
<1> QED BY <1>2, <1>3, <1>4, <1>5, <1>6, <1>7, <1>8 DEF Next

\* Both together, for the theorem.
LEMMA TimelyStep ==
  ASSUME FieldsFit, TypeOK, NowFits, RowInv, Timely, ~LongSessions, ~ValueCache, [Next]_vars
  PROVE  Timely'
<1>1. NowInStep'
  BY NowInStepStep DEF Timely
<1>2. Present' => Counts'
  BY CountsStep
<1> QED BY <1>1, <1>2 DEF Timely

\* At the start the clock and every handle are at 0, and there is no record.
LEMMA TimelyInit == Init => Timely
<1> SUFFICES ASSUME Init PROVE Timely
  OBVIOUS
<1>1. MIN_SEC \in Nat \ {0}
  BY Widths
<1>2. Minute = 0
  BY <1>1 DEF Init, Minute
<1> QED BY <1>2 DEF Init, Timely, NowInStep, Present

\* The row that a handle sees counts what the caller asked for.
LEMMA RowCounts ==
  ASSUME TypeOK, RowInv, Timely, Present, NEW h \in Handles
  PROVE  /\ RecordRow(Row(h)) /\ Rounds(Row(h).ttl, life.secs) /\ Since(Row(h), life.mod)
         /\ life.mod \in Nat /\ life.secs \in Nat
<1>1. RecordRow(Row(h)) /\ Row(h).mdays = Kept.mdays /\ Row(h).ttl = Kept.ttl
  BY RowRight
<1>2. Rounds(Kept.ttl, life.secs) /\ Since(Kept, life.mod)
  BY DEF Timely, Counts
<1>3. life.mod \in Nat /\ life.secs \in Nat
  BY DEF TypeOK
<1> QED BY <1>1, <1>2, <1>3 DEF Since

\* The invariant says that the record expires on time: NotEarly and NotLate for
\* the row that a handle sees.
LEMMA OnTime == TypeOK /\ RowInv /\ Timely => ExpiresOnTime
<1> SUFFICES ASSUME TypeOK, RowInv, Timely PROVE ExpiresOnTime
  OBVIOUS
<1>1. ASSUME NEW h \in Handles, Present, Expired(Row(h), Day(now[h]), Minute)
      PROVE  HasLifetime /\ clock > Due
  <2>1. /\ RecordRow(Row(h)) /\ Rounds(Row(h).ttl, life.secs) /\ Since(Row(h), life.mod)
        /\ life.mod \in Nat /\ life.secs \in Nat
    BY <1>1, RowCounts
  <2>2. now[h] \in Nat /\ now[h] <= Minute
    BY ExpiryAssumption DEF TypeOK, Timely, NowInStep, ExpiryAssumption
  <2>3. life.secs > 0 /\ clock > life.mod + life.secs
    BY <1>1, <2>1, <2>2, NotEarly
  <2> QED BY <1>1, <2>3 DEF HasLifetime, Due
<1>2. ASSUME NEW h \in Handles, HasLifetime, now[h] = Minute,
             clock >= Due + 2 * (IF life.secs < DAY_SEC THEN MIN_SEC ELSE DAY_SEC)
      PROVE  Expired(Row(h), Day(now[h]), Minute)
  <2>1. /\ RecordRow(Row(h)) /\ Rounds(Row(h).ttl, life.secs) /\ Since(Row(h), life.mod)
        /\ life.mod \in Nat /\ life.secs \in Nat
    BY <1>2, RowCounts DEF HasLifetime
  <2>2. life.secs \in Nat \ {0}
    BY <1>2, <2>1 DEF HasLifetime
  <2>3. clock >= life.mod + life.secs + 2 * (IF life.secs < DAY_SEC THEN MIN_SEC ELSE DAY_SEC)
    BY <1>2 DEF Due
  <2>4. Expired(Row(h), Day(Minute), Minute)
    BY <2>1, <2>2, <2>3, NotLate
  <2> QED BY <1>2, <2>4
<1> QED BY <1>1, <1>2 DEF ExpiresOnTime, NeverExpiresEarly, ExpiresInTime

\* A record expires when the lifetime that the caller asked for is over, not
\* before, and not much later, while no time passes in a session that writes and
\* no value cache answers for a write.
THEOREM ExpiresRight ==
  (FieldsFit /\ ~LongSessions /\ ~ValueCache) => (Spec => []ExpiresOnTime)
<1> SUFFICES ASSUME FieldsFit, ~LongSessions, ~ValueCache PROVE Spec => []ExpiresOnTime
  OBVIOUS
<1> DEFINE Inv == TypeOK /\ NowFits /\ RowInv /\ Timely
<1>1. Init => Inv
  BY TypeInit, RowInit, TimelyInit
<1>2. Inv /\ [Next]_vars => Inv'
  BY TypeStep, NowFitsStep, RowStep, TimelyStep
<1>3. Inv => ExpiresOnTime
  BY OnTime
<1> QED BY <1>1, <1>2, <1>3, PTL DEF Spec

=============================================================================
