------------------------- MODULE CardFormFieldProofs -------------------------
(***************************************************************************)
(* Proofs about CardFormField: whatever is typed, deleted, pasted, scanned *)
(* or restored, the text of a field has the digits that are meant and is   *)
(* divided as they have it, the cursor of a number stays behind the same   *)
(* digit, a mistyped number is rejected, and an expiration is judged by    *)
(* the date it means; for numbers and years that TLC has not tried.        *)
(***************************************************************************)
EXTENDS CardFormField, FiniteSetTheorems, WellFoundedInduction, SequenceTheorems, TLAPS

-----------------------------------------------------------------------------
(* The date that an expiration means.                                      *)

(* The last two digits of a year that is less than twenty years away are   *)
(* completed to that year (CardExpirationProcessor, "We round-off 20-years *)
(* deferment").                                                            *)
THEOREM ExpandNearest ==
  ASSUME NEW date \in [year: Nat, month: 1 .. 12], NEW k \in -19 .. 19, date.year + k >= 0
  PROVE  expandTwoDigitsYearToFour((date.year + k) % 100, date) = date.year + k
<1> DEFINE c == date.year \div 100
           r == date.year % 100
           y == (date.year + k) % 100
<1>1. /\ c \in Nat /\ r \in 0 .. 99 /\ y \in 0 .. 99 /\ date.year = 100 * c + r
      /\ \/ r + k \in 0 .. 99 /\ y = r + k
         \/ r + k >= 100 /\ y = r + k - 100
         \/ r + k < 0 /\ y = r + k + 100
  BY SMTT(30)
<1>2. expandTwoDigitsYearToFour(y, date)
        = (IF r > 80 /\ y < 20 THEN c + 1 ELSE IF r < 20 /\ y > 80 THEN c - 1 ELSE c) * 100 + y
  BY DEF expandTwoDigitsYearToFour
<1>3. k \in Int /\ k >= -19 /\ k <= 19
  OBVIOUS
<1> HIDE DEF c, r, y
<1>4. (IF r > 80 /\ y < 20 THEN c + 1 ELSE IF r < 20 /\ y > 80 THEN c - 1 ELSE c) * 100 + y
        = 100 * c + r + k
  BY <1>1, <1>3
<1> QED
  BY <1>1, <1>2, <1>4 DEF y

(* A month that is less than twenty years away is accepted just when it    *)
(* has not passed.                                                         *)
LEMMA AcceptedUnlessPassed ==
  ASSUME NEW date \in [year: Nat, month: 1 .. 12], NEW k \in -19 .. 19, date.year + k >= 0,
         NEW month
  PROVE  processCardExpiration(month, (date.year + k) % 100, date)
           <=> month \in 1 .. 12 /\ (k > 0 \/ (k = 0 /\ month >= date.month))
<1>1. expandTwoDigitsYearToFour((date.year + k) % 100, date) = date.year + k
  BY ExpandNearest
<1>2. processCardExpiration(month, (date.year + k) % 100, date)
        <=> month \in 1 .. 12 /\ ~expired(month, date.year + k, date)
  BY <1>1 DEF processCardExpiration, validateMonth
<1>3. ASSUME month \in 1 .. 12
      PROVE  ~expired(month, date.year + k, date)
               <=> (k > 0 \/ (k = 0 /\ month >= date.month))
  BY <1>3 DEF expired
<1> QED
  BY <1>2, <1>3

(* The month it is, which no step changes.                                 *)
DateInv == kind \in Kinds /\ now \in Dates[kind]

(* No step changes the field or the month.                                 *)
LEMMA DateStep == DateInv /\ [Next]_vars => DateInv'
<1> SUFFICES ASSUME DateInv, [Next]_vars
             PROVE  kind' = kind /\ now' = now
  BY DEF DateInv
<1>1. ASSUME NEW p \in 0 .. Len(text), NEW d \in Keys[kind], Typed(p, d)
      PROVE  kind' = kind /\ now' = now
  BY <1>1 DEF Typed, Edit
<1>2. ASSUME NEW p \in 0 .. Len(text) - 1, Deleted(p)
      PROVE  kind' = kind /\ now' = now
  BY <1>2 DEF Deleted, Edit
<1>3. ASSUME NEW s \in Pieces[kind], Pasted(s) \/ Scanned(s)
      PROVE  kind' = kind /\ now' = now
  BY <1>3 DEF Pasted, Scanned, Edit
<1>4. CASE Restored
  BY <1>4 DEF Restored
<1>5. CASE UNCHANGED vars
  BY <1>5 DEF vars
<1> QED
  BY <1>1, <1>2, <1>3, <1>4, <1>5 DEF Next

(* By that month an expiration is judged right.                            *)
LEMMA DateInvJudges == DateInv => ExpirationJudged
<1> SUFFICES ASSUME DateInv, kind = "expiration", Len(text) = 5,
                    NEW k \in -19 .. 19, (now.year + k) % 100 = Two(4)
             PROVE  ExpirationError = "none"
                      <=> Two(1) \in 1 .. 12 /\ (k > 0 \/ (k = 0 /\ Two(1) >= now.month))
  BY DEF ExpirationJudged
<1>1. now \in [year: Nat, month: 1 .. 12] /\ now.year + k >= 0
  <2>1. now \in [year: Nat, month: 1 .. 12] /\ now.year >= 100
    BY DatesAssumption DEF DateInv
  <2>2. now.year \in Nat
    BY <2>1
  <2>3. k \in Int /\ k >= -19
    OBVIOUS
  <2> QED
    BY <2>1, <2>2, <2>3
<1>2. processCardExpiration(Two(1), Two(4), now)
        <=> Two(1) \in 1 .. 12 /\ (k > 0 \/ (k = 0 /\ Two(1) >= now.month))
  BY <1>1, AcceptedUnlessPassed
<1> QED
  BY <1>2 DEF ExpirationError, processCardExpiration

(* Whatever is typed in whatever month, a finished expiration that is less *)
(* than twenty years away is accepted just when it has not passed.         *)
THEOREM ExpirationJudgedHolds == Spec => []ExpirationJudged
<1>1. Init => DateInv
  BY DEF Init, DateInv
<1> QED
  BY <1>1, DateStep, DateInvJudges, PTL DEF Spec

-----------------------------------------------------------------------------
(* Induction over numbers and sequences: from a least counterexample,      *)
(* since recursion is by functions.                                        *)

Symbol == Digit \cup {Delimiter}

(* Induction over the numbers of a set, from the least one that is not in  *)
(* it.                                                                     *)
LEMMA Induction ==
  ASSUME NEW T, 0 \in T, \A n \in Nat : n \in T => n + 1 \in T
  PROVE  Nat \subseteq T
<1> DEFINE U == Nat \ T
<1> SUFFICES ASSUME U # {}
             PROVE  FALSE
  OBVIOUS
<1>1. PICK x \in U : \A y \in U : ~(<<y, x>> \in OpToRel(<, Nat))
  <2>1. U \subseteq Nat
    OBVIOUS
  <2> HIDE DEF U
  <2> QED
    BY <2>1, NatLessThanWellFounded, WFMin, Zenon
<1>2. \A y \in U : ~(y < x)
  BY <1>1 DEF OpToRel
<1>3. x # 0 /\ x - 1 \in Nat /\ x - 1 \notin U
  BY <1>2
<1>4. x - 1 \in T
  BY <1>3
<1>5. x - 1 + 1 \in T
  BY <1>3, <1>4
<1> QED
  BY <1>5

(* f is defined by recursion on 0 .. N.                                    *)
ByRecursion(f, S, base, N, step) ==
  /\ f \in [0 .. N -> S]
  /\ f[0] = base
  /\ \A n \in 1 .. N : f[n] = step[<<n, f[n - 1]>>]

(* A function that is defined by recursion exists.                         *)
LEMMA Recursion ==
  ASSUME NEW S, NEW base \in S, NEW N \in Nat, NEW step \in [(1 .. N) \X S -> S]
  PROVE  \E f : ByRecursion(f, S, base, N, step)
<1> DEFINE Upto(m, f) ==
             /\ f \in [0 .. m -> S]
             /\ f[0] = base
             /\ \A n \in 1 .. m : f[n] = step[<<n, f[n - 1]>>]
           T == {m \in Nat : m <= N => \E f : Upto(m, f)}
<1>1. 0 \in T
  <2>1. Upto(0, [n \in 0 .. 0 |-> base])
    OBVIOUS
  <2> QED
    BY <2>1
<1>2. ASSUME NEW m \in Nat, m \in T, m + 1 <= N
      PROVE  \E f : Upto(m + 1, f)
  <2>1. PICK f : Upto(m, f)
    BY <1>2
  <2> DEFINE g == [n \in 0 .. m + 1 |-> IF n = m + 1 THEN step[<<n, f[m]>>] ELSE f[n]]
  <2>2. m + 1 \in 1 .. N /\ f[m] \in S /\ step[<<m + 1, f[m]>>] \in S
    BY <2>1, <1>2
  <2>3. g \in [0 .. m + 1 -> S] /\ g[0] = base
    BY <2>1, <2>2
  <2>4. ASSUME NEW n \in 1 .. m + 1
        PROVE  g[n] = step[<<n, g[n - 1]>>]
    <3>1. g[n - 1] = f[n - 1] /\ g[n] = IF n = m + 1 THEN step[<<n, f[m]>>] ELSE f[n]
      OBVIOUS
    <3>2. CASE n = m + 1
      <4>1. n - 1 = m
        BY <3>2
      <4> HIDE DEF g
      <4> QED
        BY <3>1, <3>2, <4>1
    <3>3. CASE n # m + 1
      <4>1. n \in 1 .. m
        BY <3>3
      <4>2. f[n] = step[<<n, f[n - 1]>>]
        BY <2>1, <4>1
      <4> HIDE DEF g
      <4> QED
        BY <3>1, <3>3, <4>2
    <3> QED
      BY <3>2, <3>3
  <2>5. Upto(m + 1, g)
    BY <2>3, <2>4
  <2> HIDE DEF g, Upto
  <2> QED
    BY <2>5
<1>3. Nat \subseteq T
  <2>1. \A m \in Nat : m \in T => m + 1 \in T
    BY <1>2
  <2> HIDE DEF T
  <2> QED
    BY <1>1, <2>1, Induction
<1> QED
  <2>1. N \in T
    BY <1>3
  <2> QED
    BY <2>1 DEF ByRecursion

(* Induction over sequences, from a sequence to those one longer.          *)
LEMMA SeqInduction ==
  ASSUME NEW S, NEW T, <<>> \in T,
         \A s \in Seq(S), c \in S : s \in T => Append(s, c) \in T
  PROVE  Seq(S) \subseteq T
<1> DEFINE U == {n \in Nat : \A s \in Seq(S) : Len(s) = n => s \in T}
<1>1. 0 \in U
  <2>1. \A s \in Seq(S) : Len(s) = 0 => s = <<>>
    BY EmptySeq
  <2> QED
    BY <2>1
<1>2. ASSUME NEW n \in Nat, n \in U, NEW s \in Seq(S), Len(s) = n + 1
      PROVE  s \in T
  <2> DEFINE r == SubSeq(s, 1, n)
  <2>1. s[n + 1] \in S
    BY <1>2, ElementOfSeq
  <2>2. r \in Seq(S) /\ Len(r) = n
    BY <1>2
  <2>3. s = Append(r, s[n + 1])
    BY <1>2
  <2>4. r \in T
    BY <1>2, <2>2
  <2> HIDE DEF r
  <2> QED
    BY <2>1, <2>2, <2>3, <2>4
<1>3. Nat \subseteq U
  <2>1. \A n \in Nat : n \in U => n + 1 \in U
    BY <1>2
  <2> HIDE DEF U
  <2> QED
    BY <1>1, <2>1, Induction
<1> QED
  BY <1>3

(* The digits of a text are found from its first symbol to its last one.   *)
LEMMA DigitsRecursion ==
  ASSUME NEW s \in Seq(Symbol)
  PROVE  \E f \in [0 .. Len(s) -> Seq(Digit)] :
           /\ f[0] = <<>>
           /\ \A n \in 1 .. Len(s) :
                f[n] = IF s[n] = Delimiter THEN f[n - 1] ELSE Append(f[n - 1], s[n])
           /\ Digits(s) = f[Len(s)]
<1> DEFINE body(f) == [n \in 0 .. Len(s) |->
                         IF n = 0 THEN <<>>
                         ELSE IF s[n] = Delimiter THEN f[n - 1] ELSE Append(f[n - 1], s[n])]
           step == [p \in (1 .. Len(s)) \X Seq(Digit) |->
                      IF s[p[1]] = Delimiter THEN p[2] ELSE Append(p[2], s[p[1]])]
<1>1. Len(s) \in Nat /\ \A n \in 1 .. Len(s) : s[n] = Delimiter \/ s[n] \in Digit
  BY DEF Symbol
<1>2. step \in [(1 .. Len(s)) \X Seq(Digit) -> Seq(Digit)]
  BY <1>1
<1>3. \E f : ByRecursion(f, Seq(Digit), <<>>, Len(s), step)
  <2>1. <<>> \in Seq(Digit)
    OBVIOUS
  <2> HIDE DEF step
  <2> QED
    BY <1>1, <1>2, <2>1, Recursion
<1>4. \E f : f = body(f)
  <2>1. PICK f : ByRecursion(f, Seq(Digit), <<>>, Len(s), step)
    BY <1>3
  <2>2. ASSUME NEW n \in 0 .. Len(s)
        PROVE  f[n] = body(f)[n]
    <3>1. CASE n = 0
      BY <2>1, <3>1 DEF ByRecursion
    <3>2. CASE n # 0
      <4>1. n \in 1 .. Len(s) /\ n - 1 \in 0 .. Len(s)
        BY <1>1, <3>2
      <4>2. f[n] = step[<<n, f[n - 1]>>] /\ f[n - 1] \in Seq(Digit)
        BY <2>1, <4>1 DEF ByRecursion
      <4>3. step[<<n, f[n - 1]>>]
              = IF s[n] = Delimiter THEN f[n - 1] ELSE Append(f[n - 1], s[n])
        BY <4>1, <4>2
      <4> QED
        BY <3>2, <4>2, <4>3
    <3> QED
      BY <3>1, <3>2
  <2>3. f = body(f)
    BY <2>1, <2>2 DEF ByRecursion
  <2> HIDE DEF body
  <2> QED
    BY <2>3
<1> DEFINE F == CHOOSE f : f = body(f)
<1>5. F = body(F)
  <2> HIDE DEF body
  <2> QED
    BY <1>4, Zenon
<1>6. Digits(s) = F[Len(s)]
  BY Zenon DEF Digits
<1> HIDE DEF F
<1>8a. F[0] = <<>>
  BY <1>1, <1>5
<1>8b. ASSUME NEW n \in 1 .. Len(s)
       PROVE  F[n] = IF s[n] = Delimiter THEN F[n - 1] ELSE Append(F[n - 1], s[n])
  <2>1. n \in 0 .. Len(s) /\ n # 0
    BY <1>1
  <2>2. F[n] = body(F)[n]
    <3> HIDE DEF body
    <3> QED BY <1>5
  <2> QED
    BY <2>1, <2>2
<1> DEFINE T == {n \in Nat : n <= Len(s) => F[n] \in Seq(Digit)}
<1>7. Nat \subseteq T
  <2>1. 0 \in T
    BY <1>1, <1>5
  <2>2. ASSUME NEW n \in Nat, n \in T, n + 1 <= Len(s)
        PROVE  F[n + 1] \in Seq(Digit)
    <3>1. F[n + 1] = IF s[n + 1] = Delimiter THEN F[n] ELSE Append(F[n], s[n + 1])
      BY <1>1, <1>8b, <2>2
    <3> QED
      BY <1>1, <2>2, <3>1
  <2>3. \A n \in Nat : n \in T => n + 1 \in T
    BY <2>2
  <2> HIDE DEF T
  <2> QED
    BY <2>1, <2>3, Induction
<1>8. F \in [0 .. Len(s) -> Seq(Digit)]
  <2>1. \A n \in 0 .. Len(s) : F[n] \in Seq(Digit)
    BY <1>1, <1>7
  <2> QED
    BY <1>5, <2>1
<1>9. /\ F[0] = <<>>
      /\ \A n \in 1 .. Len(s) :
           F[n] = IF s[n] = Delimiter THEN F[n - 1] ELSE Append(F[n - 1], s[n])
  BY <1>8a, <1>8b
<1> QED
  BY <1>6, <1>8, <1>9

-----------------------------------------------------------------------------
(* The digits of a text.                                                   *)

(* No text, no digits.                                                     *)
LEMMA EmptyDigits == Digits(<<>>) = <<>>
<1>1. <<>> \in Seq(Symbol) /\ Len(<<>>) = 0
  OBVIOUS
<1> QED
  BY <1>1, DigitsRecursion

(* A symbol more is a digit more, unless it is a delimiter.                *)
LEMMA DigitsAppend ==
  ASSUME NEW s \in Seq(Symbol), NEW c \in Symbol
  PROVE  Digits(Append(s, c)) = IF c = Delimiter THEN Digits(s) ELSE Append(Digits(s), c)
<1> DEFINE t == Append(s, c)
<1>1. /\ t \in Seq(Symbol) /\ Len(t) = Len(s) + 1 /\ Len(s) \in Nat
      /\ t[Len(s) + 1] = c /\ \A n \in 1 .. Len(s) : t[n] = s[n]
  BY AppendProperties
<1> HIDE DEF t
<1>2. PICK f : /\ f[0] = <<>>
               /\ \A n \in 1 .. Len(s) :
                    f[n] = IF s[n] = Delimiter THEN f[n - 1] ELSE Append(f[n - 1], s[n])
               /\ Digits(s) = f[Len(s)]
  BY DigitsRecursion
<1>3. PICK g : /\ g[0] = <<>>
               /\ \A n \in 1 .. Len(t) :
                    g[n] = IF t[n] = Delimiter THEN g[n - 1] ELSE Append(g[n - 1], t[n])
               /\ Digits(t) = g[Len(t)]
  BY <1>1, DigitsRecursion
<1> DEFINE T == {n \in Nat : n <= Len(s) => f[n] = g[n]}
<1>4. Nat \subseteq T
  <2>1. 0 \in T
    BY <1>2, <1>3
  <2>2. ASSUME NEW n \in Nat, n \in T, n + 1 <= Len(s)
        PROVE  f[n + 1] = g[n + 1]
    <3>1. n + 1 \in 1 .. Len(s) /\ n + 1 \in 1 .. Len(t) /\ (n + 1) - 1 = n
      BY <1>1, <2>2
    <3>2. f[n + 1] = IF s[n + 1] = Delimiter THEN f[n] ELSE Append(f[n], s[n + 1])
      BY <1>2, <3>1
    <3>3. g[n + 1] = IF t[n + 1] = Delimiter THEN g[n] ELSE Append(g[n], t[n + 1])
      BY <1>3, <3>1
    <3>4. f[n] = g[n] /\ s[n + 1] = t[n + 1]
      BY <1>1, <2>2, <3>1
    <3> QED
      BY <3>2, <3>3, <3>4
  <2>3. \A n \in Nat : n \in T => n + 1 \in T
    BY <2>2
  <2> HIDE DEF T
  <2> QED
    BY <2>1, <2>3, Induction
<1>5. f[Len(s)] = g[Len(s)]
  BY <1>1, <1>4
<1>6. g[Len(t)] = IF c = Delimiter THEN g[Len(s)] ELSE Append(g[Len(s)], c)
  <2>1. Len(t) \in 1 .. Len(t) /\ Len(t) - 1 = Len(s) /\ t[Len(t)] = c
    BY <1>1
  <2> QED
    BY <1>3, <2>1
<1> QED
  BY <1>2, <1>3, <1>5, <1>6 DEF t

(* The digits of a text are digits.                                        *)
LEMMA DigitsType ==
  ASSUME NEW s \in Seq(Symbol)
  PROVE  /\ Digits(s) \in Seq(Digit)
         /\ Len(Digits(s)) \in Nat
<1>1. Digits(s) \in Seq(Digit)
  <2>1. PICK f \in [0 .. Len(s) -> Seq(Digit)] : Digits(s) = f[Len(s)]
    BY DigitsRecursion
  <2>2. Len(s) \in 0 .. Len(s)
    OBVIOUS
  <2> QED
    BY <2>1, <2>2
<1> QED
  BY <1>1

(* A text without delimiters is its digits.                                *)
LEMMA DigitsOnly == \A s \in Seq(Digit) : Digits(s) = s
<1> DEFINE T == {s \in Seq(Digit) : Digits(s) = s}
<1>1. <<>> \in T
  BY EmptyDigits
<1>2. ASSUME NEW s \in Seq(Digit), NEW c \in Digit, s \in T
      PROVE  Append(s, c) \in T
  <2>1. s \in Seq(Symbol) /\ c \in Symbol /\ c # Delimiter
    BY DEF Symbol, Digit, Delimiter
  <2>2. Digits(Append(s, c)) = Append(Digits(s), c)
    BY <2>1, DigitsAppend
  <2> QED
    BY <1>2, <2>2
<1>3. Seq(Digit) \subseteq T
  <2> HIDE DEF T
  <2> QED
    BY <1>1, <1>2, SeqInduction
<1> QED
  BY <1>3

(* Two sequences, the second with an element more.                         *)
LEMMA ConcatAppend ==
  ASSUME NEW S, NEW s \in Seq(S), NEW t \in Seq(S), NEW c \in S
  PROVE  s \o Append(t, c) = Append(s \o t, c)
<1>1. Append(t, c) = t \o <<c>> /\ <<c>> \in Seq(S)
  BY AppendIsConcat
<1>2. s \o t \in Seq(S)
  BY ConcatProperties
<1>3. Append(s \o t, c) = (s \o t) \o <<c>>
  BY <1>2, AppendIsConcat
<1>4. (s \o t) \o <<c>> = s \o (t \o <<c>>)
  BY <1>1, ConcatAssociative
<1> QED
  BY <1>1, <1>3, <1>4

(* The digits of two texts, one after the other.                           *)
LEMMA DigitsConcat ==
  ASSUME NEW s \in Seq(Symbol)
  PROVE  \A t \in Seq(Symbol) : Digits(s \o t) = Digits(s) \o Digits(t)
<1> DEFINE T == {t \in Seq(Symbol) : Digits(s \o t) = Digits(s) \o Digits(t)}
<1>1. <<>> \in T
  <2>1. s \o <<>> = s /\ Digits(s) \o <<>> = Digits(s)
    BY DigitsType, ConcatEmptySeq
  <2>2. <<>> \in Seq(Symbol)
    OBVIOUS
  <2>3. Digits(s \o <<>>) = Digits(s) \o Digits(<<>>)
    BY <2>1, EmptyDigits, Zenon
  <2> QED
    BY <2>2, <2>3
<1>2. ASSUME NEW t \in Seq(Symbol), NEW c \in Symbol, t \in T
      PROVE  Append(t, c) \in T
  <2>1. s \o Append(t, c) = Append(s \o t, c) /\ s \o t \in Seq(Symbol)
    <3>1. s \o t \in Seq(Symbol)
      BY ConcatProperties
    <3>2. s \o Append(t, c) = Append(s \o t, c)
      BY ConcatAppend
    <3> QED
      BY <3>1, <3>2
  <2>2. Digits(Append(s \o t, c))
          = IF c = Delimiter THEN Digits(s \o t) ELSE Append(Digits(s \o t), c)
    BY <2>1, DigitsAppend
  <2>3. Digits(Append(t, c)) = IF c = Delimiter THEN Digits(t) ELSE Append(Digits(t), c)
    BY DigitsAppend
  <2>0. Digits(s \o t) = Digits(s) \o Digits(t) /\ Append(t, c) \in Seq(Symbol)
    BY <1>2, AppendProperties
  <2>6. SUFFICES Digits(s \o Append(t, c)) = Digits(s) \o Digits(Append(t, c))
    BY <2>0
  <2>4. CASE c = Delimiter
    BY <2>0, <2>1, <2>2, <2>3, <2>4
  <2>5. CASE c # Delimiter
    <3>1. Digits(s) \o Append(Digits(t), c) = Append(Digits(s) \o Digits(t), c)
      <4>1. Digits(s) \in Seq(Digit) /\ Digits(t) \in Seq(Digit) /\ c \in Digit
        BY <2>5, DigitsType DEF Symbol
      <4> QED
        BY <4>1, ConcatAppend
    <3> QED
      BY <2>0, <2>1, <2>2, <2>3, <2>5, <3>1
  <2> QED
    BY <2>4, <2>5
<1>3. Seq(Symbol) \subseteq T
  <2> HIDE DEF T
  <2> QED
    BY <1>1, <1>2, SeqInduction
<1> QED
  BY <1>3

-----------------------------------------------------------------------------
(* The check digit of a number.                                            *)

(* What the n-th digit from the end adds to the sum.                       *)
Weighed(n, d) == IF n % 2 = 1 THEN d ELSE Doubled(d)

(* A digit weighs no more than nine.                                       *)
LEMMA WeighedType == \A n \in Nat, d \in Digit : Weighed(n, d) \in Digit
<1> SUFFICES ASSUME NEW n \in Nat, NEW d \in Digit
             PROVE  Weighed(n, d) \in Digit
  OBVIOUS
<1>1. Doubled(d) \in Digit
  BY DEF Doubled, Digit
<1> QED
  BY <1>1 DEF Weighed

(* The digits are weighed and summed up from the last one to the first.    *)
LEMMA LuhnRecursion ==
  ASSUME NEW digits \in Seq(Digit)
  PROVE  \E f \in [0 .. Len(digits) -> Int] :
           /\ f[0] = 0
           /\ \A n \in 1 .. Len(digits) :
                f[n] = f[n - 1] + Weighed(n, digits[Len(digits) + 1 - n])
           /\ isLuhnValid(digits) <=> f[Len(digits)] % 10 = 0
<1> DEFINE body(f) == [n \in 0 .. Len(digits) |->
                         IF n = 0 THEN 0
                         ELSE LET d == digits[Len(digits) + 1 - n]
                              IN  f[n - 1] + IF n % 2 = 1 THEN d ELSE Doubled(d)]
           step == [p \in (1 .. Len(digits)) \X Int |->
                      p[2] + Weighed(p[1], digits[Len(digits) + 1 - p[1]])]
<1>1. /\ Len(digits) \in Nat
      /\ \A n \in 1 .. Len(digits) : Weighed(n, digits[Len(digits) + 1 - n]) \in Int
  <2>1. Len(digits) \in Nat
    OBVIOUS
  <2>2. ASSUME NEW n \in 1 .. Len(digits)
        PROVE  Weighed(n, digits[Len(digits) + 1 - n]) \in Int
    <3>1. Len(digits) + 1 - n \in 1 .. Len(digits) /\ n \in Nat
      BY <2>1
    <3>2. digits[Len(digits) + 1 - n] \in Digit
      BY <3>1, ElementOfSeq
    <3>3. Weighed(n, digits[Len(digits) + 1 - n]) \in Digit
      BY <3>1, <3>2, WeighedType
    <3> QED
      BY <3>3 DEF Digit
  <2> QED
    BY <2>1, <2>2
<1>2. step \in [(1 .. Len(digits)) \X Int -> Int]
  BY <1>1
<1>3. \E f : ByRecursion(f, Int, 0, Len(digits), step)
  <2>1. 0 \in Int
    OBVIOUS
  <2> HIDE DEF step
  <2> QED
    BY <1>1, <1>2, <2>1, Recursion, Zenon
<1>4. \E f : f = body(f)
  <2>1. PICK f : ByRecursion(f, Int, 0, Len(digits), step)
    BY <1>3
  <2>2. ASSUME NEW n \in 0 .. Len(digits)
        PROVE  f[n] = body(f)[n]
    <3>1. CASE n = 0
      BY <2>1, <3>1 DEF ByRecursion
    <3>2. CASE n # 0
      <4>1. n \in 1 .. Len(digits) /\ n - 1 \in 0 .. Len(digits)
        BY <1>1, <3>2
      <4>2. f[n] = step[<<n, f[n - 1]>>] /\ f[n - 1] \in Int
        BY <2>1, <4>1 DEF ByRecursion
      <4>3. step[<<n, f[n - 1]>>] = f[n - 1] + Weighed(n, digits[Len(digits) + 1 - n])
        BY <4>1, <4>2
      <4> QED
        BY <3>2, <4>2, <4>3 DEF Weighed
    <3> QED
      BY <3>1, <3>2
  <2>3. f = body(f)
    BY <2>1, <2>2 DEF ByRecursion
  <2> HIDE DEF body
  <2> QED
    BY <2>3
<1> DEFINE F == CHOOSE f : f = body(f)
<1>5. F = body(F)
  <2> HIDE DEF body
  <2> QED
    BY <1>4, Zenon
<1>6. isLuhnValid(digits) <=> F[Len(digits)] % 10 = 0
  BY Zenon DEF isLuhnValid
<1> HIDE DEF F
<1>7. F[0] = 0
  BY <1>1, <1>5
<1>8. ASSUME NEW n \in 1 .. Len(digits)
      PROVE  F[n] = F[n - 1] + Weighed(n, digits[Len(digits) + 1 - n])
  <2>1. n \in 0 .. Len(digits) /\ n # 0
    BY <1>1
  <2>2. F[n] = body(F)[n]
    <3> HIDE DEF body
    <3> QED
      BY <1>5
  <2> QED
    BY <2>1, <2>2 DEF Weighed
<1> DEFINE T == {n \in Nat : n <= Len(digits) => F[n] \in Int}
<1>9. Nat \subseteq T
  <2>1. 0 \in T
    BY <1>1, <1>7
  <2>2. ASSUME NEW n \in Nat, n \in T, n + 1 <= Len(digits)
        PROVE  F[n + 1] \in Int
    <3>1. n + 1 \in 1 .. Len(digits) /\ (n + 1) - 1 = n /\ F[n] \in Int
      BY <1>1, <2>2
    <3>2. F[n + 1] = F[n] + Weighed(n + 1, digits[Len(digits) + 1 - (n + 1)])
      BY <1>8, <3>1
    <3>3. Weighed(n + 1, digits[Len(digits) + 1 - (n + 1)]) \in Int
      BY <1>1, <3>1
    <3> QED
      BY <3>1, <3>2, <3>3
  <2>3. \A n \in Nat : n \in T => n + 1 \in T
    BY <2>2
  <2> HIDE DEF T
  <2> QED
    BY <2>1, <2>3, Induction
<1>10. F \in [0 .. Len(digits) -> Int]
  <2>1. \A n \in 0 .. Len(digits) : F[n] \in Int
    BY <1>1, <1>9
  <2> QED
    BY <1>5, <2>1
<1> QED
  BY <1>6, <1>7, <1>8, <1>10

(* f[n] is the sum of the first n addends.                                 *)
Sums(f, u, L) ==
  /\ f \in [0 .. L -> Int]
  /\ u \in [1 .. L -> Int]
  /\ f[0] = 0
  /\ \A n \in 1 .. L : f[n] = f[n - 1] + u[n]

(* What a digit adds to the difference of two sums.                        *)
LEMMA SumsStep ==
  ASSUME NEW L \in Nat, NEW f, NEW u, NEW g, NEW v, Sums(f, u, L), Sums(g, v, L),
         NEW n \in 1 .. L
  PROVE  /\ f[n] - g[n] = (u[n] - v[n]) + (f[n - 1] - g[n - 1])
         /\ f[n] - g[n] \in Int /\ u[n] \in Int /\ v[n] \in Int
<1>1. f[n] = f[n - 1] + u[n] /\ g[n] = g[n - 1] + v[n]
  BY DEF Sums
<1>2. n \in 0 .. L /\ n - 1 \in 0 .. L
  OBVIOUS
<1>3. f[n - 1] \in Int /\ g[n - 1] \in Int /\ u[n] \in Int /\ v[n] \in Int
  BY <1>2 DEF Sums
<1>4. \A a, b, x, y \in Int : /\ (a + x) - (b + y) = (x - y) + (a - b)
                              /\ (a + x) - (b + y) \in Int
  OBVIOUS
<1> QED
  BY <1>1, <1>3, <1>4

(* Two sums differ as before as long as their addends are the same.        *)
LEMMA SumsAgree ==
  ASSUME NEW L \in Nat, NEW f, NEW u, NEW g, NEW v, Sums(f, u, L), Sums(g, v, L),
         NEW l \in 0 .. L, NEW m \in l .. L, \A n \in l + 1 .. m : u[n] = v[n]
  PROVE  f[m] - g[m] = f[l] - g[l]
<1> DEFINE T == {n \in Nat : l <= n /\ n <= m => f[n] - g[n] = f[l] - g[l]}
<1>1. 0 \in T
  OBVIOUS
<1>2. ASSUME NEW n \in Nat, n \in T
      PROVE  n + 1 \in T
  <2> SUFFICES ASSUME l <= n + 1, n + 1 <= m
               PROVE  f[n + 1] - g[n + 1] = f[l] - g[l]
    OBVIOUS
  <2>1. CASE l = n + 1
    BY <2>1
  <2>2. CASE l # n + 1
    <3>1. n + 1 \in 1 .. L /\ n \in 0 .. L /\ (n + 1) - 1 = n /\ n + 1 \in l + 1 .. m
      BY <2>2
    <3>2. f[n] - g[n] = f[l] - g[l]
      BY <1>2, <3>1
    <3>3. /\ f[n + 1] - g[n + 1] = (u[n + 1] - v[n + 1]) + (f[n] - g[n])
          /\ u[n + 1] \in Int /\ v[n + 1] \in Int
      BY <3>1, SumsStep
    <3>4. u[n + 1] = v[n + 1]
      BY <3>1
    <3>5. f[n] - g[n] \in Int
      <4>1. f[n] \in Int /\ g[n] \in Int
        BY <3>1 DEF Sums
      <4> QED
        BY <4>1
    <3>6. \A x, d \in Int : (x - x) + d = d
      OBVIOUS
    <3> QED
      BY <3>2, <3>3, <3>4, <3>5, <3>6
  <2> QED
    BY <2>1, <2>2
<1>3. Nat \subseteq T
  <2> HIDE DEF T
  <2> QED
    BY <1>1, <1>2, Induction
<1> QED
  BY <1>3

(* Two sums whose addends differ only at p and the one before it, or at p. *)
LEMMA SumsDiffer ==
  ASSUME NEW L \in Nat, NEW f, NEW u, NEW g, NEW v, Sums(f, u, L), Sums(g, v, L),
         NEW p \in 1 .. L, NEW q \in 1 .. L, p = q \/ p = q + 1,
         \A n \in 1 .. L : n \notin {p, q} => u[n] = v[n]
  PROVE  f[L] - g[L] = IF p = q THEN u[p] - v[p] ELSE (u[p] - v[p]) + (u[q] - v[q])
<1>1. f[q - 1] - g[q - 1] = f[0] - g[0]
  <2>1. 0 \in 0 .. L /\ q - 1 \in 0 .. L /\ \A n \in 0 + 1 .. q - 1 : u[n] = v[n]
    OBVIOUS
  <2> QED
    BY <2>1, SumsAgree
<1>2. f[L] - g[L] = f[p] - g[p]
  <2>1. p \in 0 .. L /\ L \in p .. L /\ \A n \in p + 1 .. L : u[n] = v[n]
    OBVIOUS
  <2> QED
    BY <2>1, SumsAgree
<1>3. f[0] - g[0] = 0
  BY DEF Sums
<1>4. /\ f[q] - g[q] = (u[q] - v[q]) + (f[q - 1] - g[q - 1])
      /\ u[q] \in Int /\ v[q] \in Int
  BY SumsStep
<1>5. f[q] - g[q] = u[q] - v[q]
  BY <1>1, <1>3, <1>4
<1>6. CASE p = q
  BY <1>2, <1>5, <1>6
<1>7. CASE p # q
  <2>1. p - 1 = q
    BY <1>7
  <2>2. f[p] - g[p] = (u[p] - v[p]) + (f[p - 1] - g[p - 1])
    BY SumsStep
  <2> QED
    BY <1>2, <1>5, <1>7, <2>1, <2>2, Zenon
<1> QED
  BY <1>6, <1>7

(* The sum that isLuhnValid makes.                                         *)
LEMMA LuhnSum ==
  ASSUME NEW digits \in Seq(Digit)
  PROVE  \E f : /\ Sums(f, [n \in 1 .. Len(digits) |-> Weighed(n, digits[Len(digits) + 1 - n])],
                        Len(digits))
                /\ isLuhnValid(digits) <=> f[Len(digits)] % 10 = 0
<1> DEFINE u == [n \in 1 .. Len(digits) |-> Weighed(n, digits[Len(digits) + 1 - n])]
<1>1. PICK f \in [0 .. Len(digits) -> Int] :
        /\ f[0] = 0
        /\ \A n \in 1 .. Len(digits) :
             f[n] = f[n - 1] + Weighed(n, digits[Len(digits) + 1 - n])
        /\ isLuhnValid(digits) <=> f[Len(digits)] % 10 = 0
  BY LuhnRecursion
<1>2. u \in [1 .. Len(digits) -> Int]
  <2> SUFFICES ASSUME NEW n \in 1 .. Len(digits)
               PROVE  Weighed(n, digits[Len(digits) + 1 - n]) \in Int
    OBVIOUS
  <2>1. Len(digits) + 1 - n \in 1 .. Len(digits) /\ n \in Nat
    OBVIOUS
  <2>2. digits[Len(digits) + 1 - n] \in Digit
    BY <2>1, ElementOfSeq
  <2>3. Weighed(n, digits[Len(digits) + 1 - n]) \in Digit
    BY <2>1, <2>2, WeighedType
  <2> QED
    BY <2>3 DEF Digit
<1>3. Sums(f, u, Len(digits))
  BY <1>1, <1>2 DEF Sums
<1> QED
  BY <1>1, <1>3

(* Two valid numbers that differ at most in the digits at i and j.         *)
LEMMA LuhnDiffers ==
  ASSUME NEW a \in Seq(Digit), NEW b \in Seq(Digit), Len(a) = Len(b),
         NEW i \in 1 .. Len(a), NEW j \in 1 .. Len(a), j = i \/ j = i + 1,
         \A k \in 1 .. Len(a) : k \notin {i, j} => a[k] = b[k],
         isLuhnValid(a), isLuhnValid(b)
  PROVE  LET W(c, k) == Weighed(Len(a) + 1 - k, c[k])
         IN  (IF i = j THEN W(a, i) - W(b, i)
              ELSE (W(a, i) - W(b, i)) + (W(a, j) - W(b, j))) % 10 = 0
<1> DEFINE L == Len(a)
           u == [n \in 1 .. L |-> Weighed(n, a[L + 1 - n])]
           v == [n \in 1 .. L |-> Weighed(n, b[L + 1 - n])]
           p == L + 1 - i
           q == L + 1 - j
<1>1. /\ L \in Nat /\ i \in 1 .. L /\ j \in 1 .. L /\ p \in 1 .. L /\ q \in 1 .. L
      /\ p = q \/ p = q + 1
      /\ p = q <=> i = j
      /\ L + 1 - p = i /\ L + 1 - q = j
  OBVIOUS
<1>2. PICK f : Sums(f, u, L) /\ f[L] % 10 = 0
  BY LuhnSum
<1>3. PICK g : Sums(g, v, L) /\ g[L] % 10 = 0
  BY LuhnSum
<1>4. \A n \in 1 .. L : n \notin {p, q} => u[n] = v[n]
  <2> SUFFICES ASSUME NEW n \in 1 .. L, n \notin {p, q}
               PROVE  a[L + 1 - n] = b[L + 1 - n]
    OBVIOUS
  <2>1. L + 1 - n \in 1 .. L /\ L + 1 - n \notin {i, j}
    BY <1>1
  <2> QED
    BY <2>1
<1>5. /\ u[p] = Weighed(p, a[L + 1 - p]) /\ v[p] = Weighed(p, b[L + 1 - p])
      /\ u[q] = Weighed(q, a[L + 1 - q]) /\ v[q] = Weighed(q, b[L + 1 - q])
  BY <1>1
<1>6. f[L] \in Int /\ g[L] \in Int
  <2>1. L \in 0 .. L
    BY <1>1
  <2> QED
    BY <1>2, <1>3, <2>1 DEF Sums
<1>7. (f[L] - g[L]) % 10 = 0
  <2>1. \A x, y \in Int : x % 10 = 0 /\ y % 10 = 0 => (x - y) % 10 = 0
    OBVIOUS
  <2> QED
    BY <1>2, <1>3, <1>6, <2>1
<1> SUFFICES (IF i = j THEN Weighed(p, a[i]) - Weighed(p, b[i])
              ELSE (Weighed(p, a[i]) - Weighed(p, b[i]))
                     + (Weighed(q, a[j]) - Weighed(q, b[j]))) % 10 = 0
  OBVIOUS
<1> HIDE DEF u, v, p, q, L
<1>8. f[L] - g[L] = IF p = q THEN u[p] - v[p] ELSE (u[p] - v[p]) + (u[q] - v[q])
  BY <1>1, <1>2, <1>3, <1>4, SumsDiffer
<1> QED
  BY <1>1, <1>5, <1>7, <1>8

(* isLuhnValid does not take a number with one digit mistyped.             *)
LEMMA MistypedDigit ==
  ASSUME NEW a \in Seq(Digit), NEW i \in 1 .. Len(a), NEW d \in Digit, d # a[i],
         isLuhnValid(a)
  PROVE  ~isLuhnValid([a EXCEPT ![i] = d])
<1> DEFINE b == [a EXCEPT ![i] = d]
           n == Len(a) + 1 - i
<1> SUFFICES ASSUME isLuhnValid(b)
             PROVE  FALSE
  OBVIOUS
<1>1. /\ b \in Seq(Digit) /\ Len(b) = Len(a) /\ b[i] = d
      /\ \A k \in 1 .. Len(a) : k # i => a[k] = b[k]
  BY ExceptSeq
<1>2. a[i] \in Digit /\ n \in Nat
  BY ElementOfSeq
<1> HIDE DEF b
<1>3. (Weighed(n, a[i]) - Weighed(n, d)) % 10 = 0
  <2>1. (Weighed(Len(a) + 1 - i, a[i]) - Weighed(Len(a) + 1 - i, b[i])) % 10 = 0
    BY <1>1, LuhnDiffers
  <2> QED
    BY <1>1, <2>1
<1> HIDE DEF n
<1>4. \A x, y \in Digit : (x - y) % 10 = 0 => x = y
  BY DEF Digit
<1>5. Weighed(n, a[i]) = Weighed(n, d)
  BY <1>2, <1>3, <1>4, WeighedType
<1>6. \A x, y \in Digit : Doubled(x) = Doubled(y) => x = y
  BY DEF Digit, Doubled
<1> QED
  BY <1>2, <1>5, <1>6 DEF Weighed

(* Nor one with two neighbours swapped, unless they are 0 and 9.           *)
LEMMA SwappedDigits ==
  ASSUME NEW a \in Seq(Digit), NEW i \in 1 .. Len(a) - 1, a[i] # a[i + 1],
         {a[i], a[i + 1]} # {0, 9}, isLuhnValid(a)
  PROVE  ~isLuhnValid([a EXCEPT ![i] = a[i + 1], ![i + 1] = a[i]])
<1> DEFINE b == [a EXCEPT ![i] = a[i + 1], ![i + 1] = a[i]]
           n == Len(a) + 1 - (i + 1)
<1> SUFFICES ASSUME isLuhnValid(b)
             PROVE  FALSE
  OBVIOUS
<1>1. i \in 1 .. Len(a) /\ i + 1 \in 1 .. Len(a) /\ i # i + 1
  OBVIOUS
<1>2. a[i] \in Digit /\ a[i + 1] \in Digit
  BY <1>1, ElementOfSeq
<1>3. /\ b \in Seq(Digit) /\ Len(b) = Len(a) /\ b[i] = a[i + 1] /\ b[i + 1] = a[i]
      /\ \A k \in 1 .. Len(a) : k \notin {i, i + 1} => a[k] = b[k]
  <2> DEFINE c == [a EXCEPT ![i] = a[i + 1]]
  <2>1. c \in Seq(Digit) /\ Len(c) = Len(a)
    BY <1>1, <1>2, ExceptSeq
  <2>2. b = [c EXCEPT ![i + 1] = a[i]]
    OBVIOUS
  <2>3. b \in Seq(Digit) /\ Len(b) = Len(c)
    <3> HIDE DEF b, c
    <3> QED
      BY <1>1, <1>2, <2>1, <2>2, ExceptSeq
  <2> QED
    BY <1>1, <1>2, <2>1, <2>3
<1> HIDE DEF b
<1>4. n \in Nat /\ n + 1 = Len(a) + 1 - i
  OBVIOUS
<1>5. ((Weighed(n + 1, a[i]) - Weighed(n + 1, a[i + 1]))
         + (Weighed(n, a[i + 1]) - Weighed(n, a[i]))) % 10 = 0
  <2>1. ((Weighed(Len(a) + 1 - i, a[i]) - Weighed(Len(a) + 1 - i, b[i]))
           + (Weighed(n, a[i + 1]) - Weighed(n, b[i + 1]))) % 10 = 0
    BY <1>1, <1>3, LuhnDiffers
  <2> QED
    BY <1>3, <1>4, <2>1
<1> HIDE DEF n
<1>6. \A x, y \in Digit :
        ((x - y) + (Doubled(y) - Doubled(x))) % 10 = 0 => x = y \/ {x, y} = {0, 9}
  BY DEF Digit, Doubled
<1>7. (n + 1) % 2 = 1 <=> n % 2 # 1
  BY <1>4
<1>8. \A x \in Digit : Doubled(x) \in Int /\ x \in Int
  BY DEF Digit, Doubled
<1>9. CASE n % 2 = 1
  <2>1. ((Doubled(a[i]) - Doubled(a[i + 1])) + (a[i + 1] - a[i])) % 10 = 0
    BY <1>5, <1>7, <1>9 DEF Weighed
  <2>2. ((a[i + 1] - a[i]) + (Doubled(a[i]) - Doubled(a[i + 1]))) % 10 = 0
    BY <1>2, <1>8, <2>1
  <2> QED
    BY <1>2, <1>6, <2>2
<1>10. CASE n % 2 # 1
  <2>1. ((a[i] - a[i + 1]) + (Doubled(a[i + 1]) - Doubled(a[i]))) % 10 = 0
    BY <1>5, <1>7, <1>10 DEF Weighed
  <2> QED
    BY <1>2, <1>6, <2>1
<1> QED
  BY <1>9, <1>10

-----------------------------------------------------------------------------
(* The layout of a number, and the brand that its digits tell.             *)

(* How many elements there are in a set that is spelled out.               *)
LEMMA SmallSets ==
  /\ Cardinality({}) = 0
  /\ \A a : Cardinality({a}) = 1
  /\ \A a, b : a # b => Cardinality({a, b}) = 2
  /\ \A a, b, c : a # b /\ a # c /\ b # c => Cardinality({a, b, c}) = 3
<1>1. Cardinality({}) = 0
  BY FS_EmptySet
<1>2. \A a : IsFiniteSet({a}) /\ Cardinality({a}) = 1
  BY FS_Singleton
<1>3. ASSUME NEW a, NEW b, a # b
      PROVE  IsFiniteSet({a, b}) /\ Cardinality({a, b}) = 2
  <2>1. {a, b} = {a} \cup {b} /\ b \notin {a}
    BY <1>3
  <2>2. IsFiniteSet({a} \cup {b}) /\ Cardinality({a} \cup {b}) = 1 + 1
    BY <1>2, <2>1, FS_AddElement
  <2> QED
    BY <2>1, <2>2
<1>4. ASSUME NEW a, NEW b, NEW c, a # b, a # c, b # c
      PROVE  Cardinality({a, b, c}) = 3
  <2>1. {a, b, c} = {a, b} \cup {c} /\ c \notin {a, b}
    BY <1>4
  <2>2. Cardinality({a, b} \cup {c}) = 2 + 1
    BY <1>3, <1>4, <2>1, FS_AddElement
  <2> QED
    BY <2>1, <2>2
<1>5. \A a, b : a # b => Cardinality({a, b}) = 2
  BY <1>3, Zenon
<1>6. \A a, b, c : a # b /\ a # c /\ b # c => Cardinality({a, b, c}) = 3
  BY <1>4, Zenon
<1> QED
  BY <1>1, <1>2, <1>5, <1>6, Zenon

(* How many digits there are among the first n symbols of a number that is *)
(* divided as the brand has it.                                            *)
DigitsWithin(n, b) ==
  IF b \in {"AMEX", "DINERS_CLUB"}
  THEN IF n <= 4 THEN n ELSE IF n <= 11 THEN n - 1 ELSE n - 2
  ELSE IF n <= 4 THEN n ELSE IF n <= 9 THEN n - 1 ELSE IF n <= 14 THEN n - 2 ELSE n - 3

(* The symbols of a number with all its delimiters.                        *)
LEMMA LengthMaxes ==
  \A b : LengthMax(b) = IF b = "AMEX" THEN 17 ELSE IF b = "DINERS_CLUB" THEN 16 ELSE 19
<1>1. Cardinality({4, 11}) = 2 /\ Cardinality({4, 9, 14}) = 3
  <2> DEFINE Pair(a, b) == {a, b}
             Triple(a, b, c) == {a, b, c}
  <2>1. /\ \A a, b : a # b => Cardinality(Pair(a, b)) = 2
        /\ \A a, b, c : a # b /\ a # c /\ b # c => Cardinality(Triple(a, b, c)) = 3
    BY SmallSets, Zenon
  <2> HIDE DEF Pair, Triple
  <2>2. Cardinality(Pair(4, 11)) = 2 /\ Cardinality(Triple(4, 9, 14)) = 3
    BY <2>1
  <2> QED
    BY <2>2 DEF Pair, Triple
<1> QED
  BY <1>1 DEF LengthMax, numberLength, getDelimiterPositions

(* The digits within a symbol more; a delimiter is never at the beginning, *)
(* next to another one, or behind the last digit.                          *)
LEMMA Layout ==
  ASSUME NEW b, NEW n \in Nat
  PROVE  /\ DigitsWithin(n, b) \in Nat
         /\ DigitsWithin(n + 1, b)
              = IF n \in getDelimiterPositions(b) THEN DigitsWithin(n, b)
                ELSE DigitsWithin(n, b) + 1
         /\ n \in getDelimiterPositions(b) =>
              /\ n >= 4
              /\ n + 1 \notin getDelimiterPositions(b)
              /\ n - 1 \notin getDelimiterPositions(b)
              /\ DigitsWithin(n, b) \in 4 .. 12
              /\ DigitsWithin(n, b) < numberLength(b)
         /\ DigitsWithin(n, b) <= numberLength(b) <=> n <= LengthMax(b)
         /\ numberLength(b) \in 14 .. 16 /\ LengthMax(b) <= 19
<1>1. DigitsWithin(n, b) \in Nat
  BY DEF DigitsWithin
<1>2. DigitsWithin(n + 1, b)
        = IF n \in getDelimiterPositions(b) THEN DigitsWithin(n, b) ELSE DigitsWithin(n, b) + 1
  BY DEF DigitsWithin, getDelimiterPositions
<1>3. ASSUME n \in getDelimiterPositions(b)
      PROVE  /\ n >= 4
             /\ n + 1 \notin getDelimiterPositions(b)
             /\ n - 1 \notin getDelimiterPositions(b)
             /\ DigitsWithin(n, b) \in 4 .. 12
             /\ DigitsWithin(n, b) < numberLength(b)
  BY <1>3 DEF DigitsWithin, getDelimiterPositions, numberLength
<1>4. DigitsWithin(n, b) <= numberLength(b) <=> n <= LengthMax(b)
  BY LengthMaxes DEF DigitsWithin, numberLength
<1>5. numberLength(b) \in 14 .. 16 /\ LengthMax(b) <= 19
  BY LengthMaxes DEF numberLength
<1> QED
  BY <1>1, <1>2, <1>3, <1>4, <1>5

(* What a symbol more does to a divided text.                              *)
LEMMA DividedAppend ==
  ASSUME NEW b, NEW s \in Seq(Symbol), NEW c \in Symbol
  PROVE  Divided(Append(s, c), b)
           <=> Divided(s, b) /\ (Len(s) \in getDelimiterPositions(b) <=> c = Delimiter)
<1> DEFINE t == Append(s, c)
<1>1. /\ t \in Seq(Symbol) /\ Len(t) = Len(s) + 1 /\ Len(s) \in Nat
      /\ t[Len(s) + 1] = c /\ \A i \in 1 .. Len(s) : t[i] = s[i]
      /\ DOMAIN s = 1 .. Len(s) /\ DOMAIN t = 1 .. Len(t)
  BY AppendProperties
<1> HIDE DEF t
<1> SUFFICES Divided(t, b)
               <=> Divided(s, b) /\ (Len(s) \in getDelimiterPositions(b) <=> c = Delimiter)
  BY DEF t
<1> DEFINE P == getDelimiterPositions(b)
<1> HIDE DEF P
<1>2. ASSUME \A i \in 1 .. Len(t) : i - 1 \in P <=> t[i] = Delimiter
      PROVE  /\ \A i \in 1 .. Len(s) : i - 1 \in P <=> s[i] = Delimiter
             /\ Len(s) \in P <=> c = Delimiter
  <2>1. Len(s) + 1 \in 1 .. Len(t) /\ (Len(s) + 1) - 1 = Len(s)
    BY <1>1
  <2>2. \A i \in 1 .. Len(s) : i \in 1 .. Len(t)
    BY <1>1
  <2> QED
    BY <1>1, <1>2, <2>1, <2>2
<1>3. ASSUME \A i \in 1 .. Len(s) : i - 1 \in P <=> s[i] = Delimiter,
             Len(s) \in P <=> c = Delimiter,
             NEW i \in 1 .. Len(t)
      PROVE  i - 1 \in P <=> t[i] = Delimiter
  <2>1. CASE i = Len(s) + 1
    <3>1. i - 1 = Len(s)
      BY <1>1, <2>1
    <3> QED
      BY <1>1, <1>3, <2>1, <3>1
  <2>2. CASE i # Len(s) + 1
    <3>1. i \in 1 .. Len(s)
      BY <1>1, <2>2
    <3> QED
      BY <1>1, <1>3, <3>1
  <2> QED
    BY <2>1, <2>2
<1> QED
  BY <1>1, <1>2, <1>3 DEF Divided, P

(* A divided text has as many digits as its length tells.                  *)
LEMMA DividedDigits ==
  ASSUME NEW b
  PROVE  \A s \in Seq(Symbol) : Divided(s, b) => Len(Digits(s)) = DigitsWithin(Len(s), b)
<1> DEFINE T == {s \in Seq(Symbol) : Divided(s, b) => Len(Digits(s)) = DigitsWithin(Len(s), b)}
<1>1. <<>> \in T
  <2>1. <<>> \in Seq(Symbol) /\ Len(<<>>) = 0
    OBVIOUS
  <2>2. DigitsWithin(0, b) = 0
    BY DEF DigitsWithin
  <2> QED
    BY <2>1, <2>2, EmptyDigits
<1>2. ASSUME NEW s \in Seq(Symbol), NEW c \in Symbol, s \in T
      PROVE  Append(s, c) \in T
  <2>1. Append(s, c) \in Seq(Symbol) /\ Len(Append(s, c)) = Len(s) + 1 /\ Len(s) \in Nat
    BY AppendProperties
  <2> SUFFICES ASSUME Divided(Append(s, c), b)
               PROVE  Len(Digits(Append(s, c))) = DigitsWithin(Len(s) + 1, b)
    BY <2>1
  <2>2. /\ Divided(s, b) /\ (Len(s) \in getDelimiterPositions(b) <=> c = Delimiter)
    BY DividedAppend
  <2>3. Len(Digits(s)) = DigitsWithin(Len(s), b)
    BY <1>2, <2>2
  <2>4. DigitsWithin(Len(s) + 1, b)
          = IF c = Delimiter THEN DigitsWithin(Len(s), b) ELSE DigitsWithin(Len(s), b) + 1
    BY <2>1, <2>2, Layout
  <2>5. Digits(s) \in Seq(Digit)
    BY DigitsType
  <2>6. CASE c = Delimiter
    BY <2>3, <2>4, <2>6, DigitsAppend
  <2>7. CASE c # Delimiter
    <3>1. c \in Digit
      BY <2>7 DEF Symbol
    <3>2. Len(Append(Digits(s), c)) = Len(Digits(s)) + 1
      BY <2>5, <3>1, AppendProperties
    <3> QED
      BY <2>3, <2>4, <2>7, <3>2, DigitsAppend
  <2> QED
    BY <2>6, <2>7
<1>3. Seq(Symbol) \subseteq T
  <2> HIDE DEF T
  <2> QED
    BY <1>1, <1>2, SeqInduction
<1> QED
  BY <1>3

(* What is detected is a brand, or that there is none.                     *)
LEMMA DetectType == \A digits : detectWithDigits(digits) \in Brand \cup {"UNKNOWN"}
<1> SUFFICES ASSUME NEW digits
             PROVE  detectWithDigits(digits) \in Brand \cup {"UNKNOWN"}
  OBVIOUS
<1> DEFINE D == {x \in Brand : LedBy(digits, x)}
<1>1. detectWithDigits(digits) = IF D = {} THEN "UNKNOWN" ELSE CHOOSE y \in D : TRUE
  BY Zenon DEF detectWithDigits
<1>2. D \subseteq Brand
  OBVIOUS
<1> HIDE DEF D
<1>3. CASE D = {}
  BY <1>1, <1>3, Zenon
<1>4. CASE D # {}
  <2>1. (CHOOSE y \in D : TRUE) \in D
    BY <1>4, Zenon
  <2> QED
    BY <1>1, <1>2, <1>4, <2>1, Zenon
<1> QED
  BY <1>3, <1>4

(* A brand is told by at most four digits.                                 *)
LEMMA LeadsAreShort == \A x \in Brand : \A lead \in Leading[x] : Len(lead) \in 1 .. 4
  BY DEF Brand, Leading

(* The beginnings of two sequences that are the same so far.               *)
LEMMA SamePrefix ==
  ASSUME NEW S, NEW a \in Seq(S), NEW b \in Seq(S), NEW n \in Nat,
         n <= Len(a), n <= Len(b), \A i \in 1 .. n : a[i] = b[i]
  PROVE  SubSeq(a, 1, n) = SubSeq(b, 1, n)
<1> DEFINE u == SubSeq(a, 1, n)
           v == SubSeq(b, 1, n)
<1>1. \A i \in 1 .. n : i \in 1 .. Len(a) /\ i \in 1 .. Len(b)
  OBVIOUS
<1>2. \A i \in 1 .. n : a[i] \in S /\ b[i] \in S
  BY <1>1, ElementOfSeq
<1>3. u \in Seq(S) /\ Len(u) = n /\ \A i \in 1 .. n : u[i] = a[i]
  BY <1>2
<1>4. v \in Seq(S) /\ Len(v) = n /\ \A i \in 1 .. n : v[i] = b[i]
  BY <1>2
<1> HIDE DEF u, v
<1>5. u = v
  BY <1>3, <1>4, SeqEqual
<1> QED
  BY <1>5 DEF u, v

(* The brand is told by the first four digits.                             *)
LEMMA SameBrand ==
  ASSUME NEW a \in Seq(Digit), NEW b \in Seq(Digit), Len(a) >= 4, Len(b) >= 4,
         \A i \in 1 .. 4 : a[i] = b[i]
  PROVE  detectWithDigits(a) = detectWithDigits(b)
<1> DEFINE A == {x \in Brand : LedBy(a, x)}
           B == {x \in Brand : LedBy(b, x)}
<1>1. ASSUME NEW x \in Brand, NEW lead \in Leading[x]
      PROVE  IsPrefix(lead, a) <=> IsPrefix(lead, b)
  <2>1. PICK n \in 1 .. 4 : n = Len(lead)
    BY LeadsAreShort
  <2>2. SubSeq(a, 1, n) = SubSeq(b, 1, n)
    <3>1. n \in Nat /\ n <= Len(a) /\ n <= Len(b) /\ \A i \in 1 .. n : i \in 1 .. 4
      OBVIOUS
    <3> QED
      BY <3>1, SamePrefix
  <2>3. n <= Len(a) /\ n <= Len(b)
    OBVIOUS
  <2> QED
    BY <2>1, <2>2, <2>3 DEF IsPrefix
<1>2. A = B
  BY <1>1 DEF LedBy
<1> DEFINE G(S) == IF S = {} THEN "UNKNOWN" ELSE CHOOSE y \in S : TRUE
<1>3. detectWithDigits(a) = G(A) /\ detectWithDigits(b) = G(B)
  BY Zenon DEF detectWithDigits
<1> HIDE DEF A, B, G
<1> QED
  BY <1>2, <1>3

-----------------------------------------------------------------------------
(* The watcher of the number builds its text.                              *)

(* Of a number only as many digits are kept as the brand has.              *)
Limited(digits, b) ==
  SubSeq(digits, 1, IF Len(digits) < numberLength(b) THEN Len(digits) ELSE numberLength(b))

(* The delimiter after n symbols, or the digit after that, has just been   *)
(* deleted from the end of the text (buildCorrectString).                  *)
SkippedAfter(n, s, start, inserted) ==
  inserted = 0 /\ start \in {n, n + 1} \cap {Len(s), Len(s) + 1}

(* A digit of d is added to the text u, and the delimiter after it.        *)
WithDigit(u, i, d, s, start, inserted, b) ==
  LET w == Append(u, d[i])
  IN  IF /\ Len(w) \in getDelimiterPositions(b)
         /\ i < numberLength(b)
         /\ ~SkippedAfter(Len(w), s, start, inserted)
      THEN Append(w, Delimiter) ELSE w

(* What is kept of the digits: a beginning, and all of them if there are   *)
(* not too many.                                                           *)
LEMMA LimitedType ==
  ASSUME NEW b, NEW digits \in Seq(Digit)
  PROVE  /\ Limited(digits, b) \in Seq(Digit)
         /\ Len(Limited(digits, b)) <= numberLength(b)
         /\ Len(Limited(digits, b)) <= Len(digits)
         /\ Len(Limited(digits, b)) < numberLength(b) => Limited(digits, b) = digits
         /\ Len(digits) <= numberLength(b) => Limited(digits, b) = digits
         /\ \A i \in 1 .. Len(Limited(digits, b)) : Limited(digits, b)[i] = digits[i]
<1> DEFINE n == IF Len(digits) < numberLength(b) THEN Len(digits) ELSE numberLength(b)
<1>1. numberLength(b) \in Nat /\ Len(digits) \in Nat
  BY DEF numberLength
<1>2. n \in Nat /\ n <= Len(digits) /\ n <= numberLength(b)
  BY <1>1
<1>3. n < numberLength(b) \/ Len(digits) <= numberLength(b) => n = Len(digits)
  BY <1>1
<1>4. Limited(digits, b) = SubSeq(digits, 1, n)
  BY DEF Limited
<1> HIDE DEF n
<1>5. \A i \in 1 .. n : digits[i] \in Digit
  BY <1>1, <1>2, ElementOfSeq
<1>6. /\ SubSeq(digits, 1, n) \in Seq(Digit) /\ Len(SubSeq(digits, 1, n)) = n
      /\ \A i \in 1 .. n : SubSeq(digits, 1, n)[i] = digits[i]
  BY <1>2, <1>5
<1>7. n = Len(digits) => SubSeq(digits, 1, n) = digits
  BY SubSeqFull
<1> QED
  BY <1>1, <1>2, <1>3, <1>4, <1>6, <1>7

(* f[i] is the text with i digits.                                         *)
Builds(f, d, s, start, inserted, b) ==
  /\ f \in [0 .. Len(d) -> Seq(Symbol)]
  /\ f[0] = <<>>
  /\ \A i \in 1 .. Len(d) : f[i] = WithDigit(f[i - 1], i, d, s, start, inserted, b)
  /\ buildCorrectString(s, start, inserted, b)
       = IF Len(f[Len(d)]) \in getDelimiterPositions(b) /\ start = Len(f[Len(d)]) /\ inserted = 0
         THEN Front(f[Len(d)]) ELSE f[Len(d)]

(* The text is built digit by digit.                                       *)
LEMMA BuildRecursion ==
  ASSUME NEW s \in Seq(Symbol), NEW start, NEW inserted, NEW b
  PROVE  \E f : Builds(f, Limited(Digits(s), b), s, start, inserted, b)
<1> DEFINE P == getDelimiterPositions(b)
           max == numberLength(b)
           d == SubSeq(Digits(s), 1, IF Len(Digits(s)) < max THEN Len(Digits(s)) ELSE max)
           Skipped(n) == inserted = 0 /\ start \in {n, n + 1} \cap {Len(s), Len(s) + 1}
           body(f) == [i \in 0 .. Len(d) |->
                         IF i = 0 THEN <<>>
                         ELSE LET u == Append(f[i - 1], d[i])
                              IN  IF Len(u) \in P /\ i < max /\ ~Skipped(Len(u))
                                  THEN Append(u, Delimiter) ELSE u]
           F == CHOOSE f : f = body(f)
<1>1. buildCorrectString(s, start, inserted, b)
        = IF Len(F[Len(d)]) \in P /\ start = Len(F[Len(d)]) /\ inserted = 0
          THEN Front(F[Len(d)]) ELSE F[Len(d)]
  BY Zenon DEF buildCorrectString
<1> HIDE DEF F
<1>2. d = Limited(Digits(s), b)
  BY DEF Limited
<1>3. d \in Seq(Digit)
  BY <1>2, DigitsType, LimitedType
<1> HIDE DEF d
<1>4. ASSUME NEW f, NEW i \in 1 .. Len(d)
      PROVE  body(f)[i] = WithDigit(f[i - 1], i, d, s, start, inserted, b)
  <2>1. Len(d) \in Nat
    BY <1>3
  <2>2. i \in 0 .. Len(d) /\ i # 0
    BY <2>1
  <2>3. body(f)[i] = LET u == Append(f[i - 1], d[i])
                     IN  IF Len(u) \in P /\ i < max /\ ~Skipped(Len(u))
                         THEN Append(u, Delimiter) ELSE u
    BY <2>2
  <2> QED
    BY <2>3, Zenon DEF WithDigit, SkippedAfter
<1>5. \A f : body(f)[0] = <<>> /\ body(f) = [i \in 0 .. Len(d) |-> body(f)[i]]
  BY <1>3
<1> HIDE DEF body
<1>6. \A i \in 1 .. Len(d), u \in Seq(Symbol) :
        WithDigit(u, i, d, s, start, inserted, b) \in Seq(Symbol)
  <2> SUFFICES ASSUME NEW i \in 1 .. Len(d), NEW u \in Seq(Symbol)
               PROVE  WithDigit(u, i, d, s, start, inserted, b) \in Seq(Symbol)
    OBVIOUS
  <2>1. d[i] \in Symbol /\ Delimiter \in Symbol
    BY <1>3, ElementOfSeq DEF Symbol
  <2>2. Append(u, d[i]) \in Seq(Symbol)
    BY <2>1, AppendProperties
  <2>3. Append(Append(u, d[i]), Delimiter) \in Seq(Symbol)
    BY <2>1, <2>2, AppendProperties
  <2> QED
    BY <2>2, <2>3, Zenon DEF WithDigit
<1> DEFINE step == [p \in (1 .. Len(d)) \X Seq(Symbol) |->
                      WithDigit(p[2], p[1], d, s, start, inserted, b)]
<1>7. step \in [(1 .. Len(d)) \X Seq(Symbol) -> Seq(Symbol)]
  BY <1>6
<1>8. \A i \in 1 .. Len(d), u \in Seq(Symbol) :
        step[<<i, u>>] = WithDigit(u, i, d, s, start, inserted, b)
  OBVIOUS
<1> HIDE DEF step
<1>9. \E f : f = body(f)
  <2>1. PICK f : ByRecursion(f, Seq(Symbol), <<>>, Len(d), step)
    <3>1. Len(d) \in Nat /\ <<>> \in Seq(Symbol)
      BY <1>3
    <3> QED
      BY <1>7, <3>1, Recursion
  <2>2. f \in [0 .. Len(d) -> Seq(Symbol)] /\ f[0] = <<>>
    BY <2>1 DEF ByRecursion
  <2>3. ASSUME NEW i \in 0 .. Len(d)
        PROVE  f[i] = body(f)[i]
    <3>1. CASE i = 0
      BY <1>5, <2>2, <3>1
    <3>2. CASE i # 0
      <4>1. i \in 1 .. Len(d) /\ i - 1 \in 0 .. Len(d)
        BY <1>3, <3>2
      <4>2. f[i - 1] \in Seq(Symbol)
        BY <2>2, <4>1
      <4>3. f[i] = step[<<i, f[i - 1]>>]
        BY <2>1, <4>1 DEF ByRecursion
      <4> QED
        BY <1>4, <1>8, <4>1, <4>2, <4>3
    <3> QED
      BY <3>1, <3>2
  <2>4. body(f) = [i \in 0 .. Len(d) |-> body(f)[i]]
    BY <1>5
  <2>5. f = body(f)
    BY <2>2, <2>3, <2>4
  <2> QED
    BY <2>5
<1>10. F = body(F)
  BY <1>9, Zenon DEF F
<1>11. F[0] = <<>>
  BY <1>5, <1>10
<1>12. \A i \in 1 .. Len(d) : F[i] = WithDigit(F[i - 1], i, d, s, start, inserted, b)
  BY <1>4, <1>10
<1> DEFINE T == {i \in Nat : i <= Len(d) => F[i] \in Seq(Symbol)}
<1>13. Nat \subseteq T
  <2>1. 0 \in T
    <3>1. <<>> \in Seq(Symbol)
      OBVIOUS
    <3> QED
      BY <1>11, <3>1
  <2>2. ASSUME NEW i \in Nat, i \in T
        PROVE  i + 1 \in T
    <3> SUFFICES ASSUME i + 1 <= Len(d)
                 PROVE  F[i + 1] \in Seq(Symbol)
      OBVIOUS
    <3>1. i + 1 \in 1 .. Len(d) /\ (i + 1) - 1 = i /\ i <= Len(d)
      BY <1>3
    <3>2. F[i] \in Seq(Symbol)
      BY <2>2, <3>1
    <3>3. F[i + 1] = WithDigit(F[i], i + 1, d, s, start, inserted, b)
      BY <1>12, <3>1
    <3> QED
      BY <1>6, <3>1, <3>2, <3>3
  <2> HIDE DEF T
  <2> QED
    BY <2>1, <2>2, Induction
<1>14. F \in [0 .. Len(d) -> Seq(Symbol)]
  <2>1. \A i \in 0 .. Len(d) : F[i] \in Seq(Symbol)
    BY <1>3, <1>13
  <2>2. F = [i \in 0 .. Len(d) |-> F[i]]
    BY <1>5, <1>10, Zenon
  <2> QED
    BY <2>1, <2>2
<1>15. Builds(F, d, s, start, inserted, b)
  BY <1>1, <1>11, <1>12, <1>14 DEF Builds
<1> QED
  BY <1>2, <1>15

(* What becomes of a text when a digit is added to it: with the digits so  *)
(* far divided, so are those with it.                                      *)
LEMMA WithDigitDivided ==
  ASSUME NEW u \in Seq(Symbol), NEW i \in Nat, NEW d, d[i] \in Digit,
         NEW s, NEW start, NEW inserted, NEW b,
         Divided(u, b), Len(u) \notin getDelimiterPositions(b)
  PROVE  LET v == WithDigit(u, i, d, s, start, inserted, b)
         IN  /\ v \in Seq(Symbol)
             /\ Divided(v, b)
             /\ Digits(v) = Append(Digits(u), d[i])
             /\ \/ Len(v) \notin getDelimiterPositions(b)
                \/ SkippedAfter(Len(v), s, start, inserted)
                \/ i >= numberLength(b)
             /\ Len(v) - 1 \in getDelimiterPositions(b)
                  => ~SkippedAfter(Len(v) - 1, s, start, inserted)
<1> DEFINE P == getDelimiterPositions(b)
           w == Append(u, d[i])
           x == Append(w, Delimiter)
           v == WithDigit(u, i, d, s, start, inserted, b)
           put == /\ Len(w) \in P
                  /\ i < numberLength(b)
                  /\ ~SkippedAfter(Len(w), s, start, inserted)
<1>1. d[i] \in Symbol /\ d[i] # Delimiter /\ Delimiter \in Symbol
  BY DEF Symbol, Digit, Delimiter
<1>2. w \in Seq(Symbol) /\ Len(w) = Len(u) + 1 /\ Len(u) \in Nat
  BY <1>1, AppendProperties
<1>3. Divided(w, b) /\ Digits(w) = Append(Digits(u), d[i])
  BY <1>1, DividedAppend, DigitsAppend
<1>4. v = IF put THEN x ELSE w
  BY Zenon DEF WithDigit
<1> HIDE DEF w
<1>5. x \in Seq(Symbol) /\ Len(x) = Len(w) + 1
  BY <1>1, <1>2, AppendProperties
<1>6. Len(w) \in P => Divided(x, b)
  BY <1>1, <1>2, <1>3, DividedAppend
<1>7. Digits(x) = Digits(w)
  BY <1>1, <1>2, DigitsAppend
<1> HIDE DEF x, v
<1>8. numberLength(b) \in Nat
  BY DEF numberLength
<1>9. CASE put
  <2>1. Len(v) \notin P
    <3>1. Len(v) = Len(w) + 1 /\ Len(w) \in Nat /\ Len(w) \in P
      BY <1>2, <1>4, <1>5, <1>9
    <3>2. Len(w) + 1 \notin P
      BY <3>1, Layout
    <3> QED
      BY <3>1, <3>2
  <2>2. Len(v) - 1 = Len(w)
    BY <1>2, <1>4, <1>5, <1>9
  <2> QED
    BY <1>3, <1>4, <1>5, <1>6, <1>7, <1>9, <2>1, <2>2 DEF v
<1>10. CASE ~put
  <2>1. v = w
    BY <1>4, <1>10
  <2>2. Len(v) - 1 = Len(u)
    BY <1>2, <2>1
  <2>3. Len(v) - 1 \notin P
    BY <2>2
  <2>4. \/ Len(v) \notin P
        \/ SkippedAfter(Len(v), s, start, inserted)
        \/ i >= numberLength(b)
    BY <1>8, <1>10, <2>1
  <2> HIDE DEF P
  <2> QED
    BY <1>2, <1>3, <2>1, <2>3, <2>4 DEF v, P
<1> QED
  BY <1>9, <1>10

(* The digits that are kept, divided, and where the text then ends.  The   *)
(* delimiter is left out only after the last digit.                        *)
LEMMA Built ==
  ASSUME NEW s \in Seq(Symbol), NEW start, NEW inserted, NEW b,
         \A n \in getDelimiterPositions(b) :
           SkippedAfter(n, s, start, inserted)
             => Len(Limited(Digits(s), b)) <= DigitsWithin(n, b)
  PROVE  \E u \in Seq(Symbol) :
           /\ Digits(u) = Limited(Digits(s), b)
           /\ Divided(u, b)
           /\ Len(u) \in getDelimiterPositions(b)
                => SkippedAfter(Len(u), s, start, inserted)
           /\ Len(u) - 1 \in getDelimiterPositions(b)
                => ~SkippedAfter(Len(u) - 1, s, start, inserted)
           /\ buildCorrectString(s, start, inserted, b)
                = IF /\ Len(u) \in getDelimiterPositions(b)
                     /\ start = Len(u)
                     /\ inserted = 0
                  THEN Front(u) ELSE u
<1> DEFINE d == Limited(Digits(s), b)
           L == Len(d)
           P == getDelimiterPositions(b)
<1>1. d \in Seq(Digit) /\ L \in Nat /\ L <= numberLength(b)
  BY DigitsType, LimitedType
<1>2a. PICK f : Builds(f, d, s, start, inserted, b)
  BY BuildRecursion
<1>2. /\ f \in [0 .. L -> Seq(Symbol)]
      /\ f[0] = <<>>
      /\ \A i \in 1 .. L : f[i] = WithDigit(f[i - 1], i, d, s, start, inserted, b)
      /\ buildCorrectString(s, start, inserted, b)
           = IF Len(f[L]) \in P /\ start = Len(f[L]) /\ inserted = 0
             THEN Front(f[L]) ELSE f[L]
  BY <1>2a DEF Builds
<1> DEFINE Good(i) ==
             /\ Digits(f[i]) = SubSeq(d, 1, i)
             /\ Divided(f[i], b)
             /\ \/ Len(f[i]) \notin P
                \/ SkippedAfter(Len(f[i]), s, start, inserted)
                \/ i >= numberLength(b)
             /\ Len(f[i]) - 1 \in P => ~SkippedAfter(Len(f[i]) - 1, s, start, inserted)
           T == {i \in Nat : i <= L => Good(i)}
<1> HIDE DEF d
<1>3. \A i \in 0 .. L : Len(SubSeq(d, 1, i)) = i
  <2> SUFFICES ASSUME NEW i \in 0 .. L
               PROVE  Len(SubSeq(d, 1, i)) = i
    OBVIOUS
  <2>1. \A k \in 1 .. i : d[k] \in Digit
    BY <1>1, ElementOfSeq
  <2> QED
    BY <1>1, <2>1
<1>4. numberLength(b) \in Nat
  BY DEF numberLength
<1>5. \A i \in 0 .. L : Good(i) => Len(f[i]) \in Nat /\ DigitsWithin(Len(f[i]), b) = i
  <2> SUFFICES ASSUME NEW i \in 0 .. L, Good(i)
               PROVE  Len(f[i]) \in Nat /\ DigitsWithin(Len(f[i]), b) = i
    OBVIOUS
  <2>1. f[i] \in Seq(Symbol)
    BY <1>2
  <2>2. Len(f[i]) \in Nat
    BY <2>1
  <2>3. Len(Digits(f[i])) = DigitsWithin(Len(f[i]), b)
    BY <2>1, DividedDigits
  <2> QED
    BY <1>3, <2>2, <2>3
<1>6. 0 \in T
  <2>1. SubSeq(d, 1, 0) = <<>>
    BY <1>1
  <2>2. Divided(<<>>, b)
    BY DEF Divided
  <2>3. 0 \notin P /\ 0 - 1 \notin P /\ Len(<<>>) = 0
    BY DEF getDelimiterPositions
  <2> HIDE DEF P, L
  <2>4. Good(0)
    BY <1>2, <2>1, <2>2, <2>3, EmptyDigits
  <2> QED
    BY <2>4
<1>7. ASSUME NEW i \in Nat, i \in T
      PROVE  i + 1 \in T
  <2> SUFFICES ASSUME i + 1 <= L
               PROVE  Good(i + 1)
    OBVIOUS
  <2>1. i \in 0 .. L /\ i + 1 \in 1 .. L /\ (i + 1) - 1 = i /\ i < L
    BY <1>1
  <2>2. Good(i)
    BY <1>7, <2>1
  <2>3. f[i] \in Seq(Symbol)
    BY <1>2, <2>1
  <2>4. Len(f[i]) \notin P
    <3>1. Len(f[i]) \in P => ~SkippedAfter(Len(f[i]), s, start, inserted)
      BY <1>1, <1>5, <2>1, <2>2 DEF d
    <3>2. ~(i >= numberLength(b))
      BY <1>1, <1>4, <2>1
    <3> QED
      BY <2>2, <3>1, <3>2
  <2>5. d[i + 1] \in Digit
    BY <1>1, <2>1, ElementOfSeq
  <2>6. f[i + 1] = WithDigit(f[i], i + 1, d, s, start, inserted, b)
    BY <1>2, <2>1
  <2>7. /\ Divided(f[i + 1], b)
        /\ Digits(f[i + 1]) = Append(Digits(f[i]), d[i + 1])
        /\ \/ Len(f[i + 1]) \notin P
           \/ SkippedAfter(Len(f[i + 1]), s, start, inserted)
           \/ i + 1 >= numberLength(b)
        /\ Len(f[i + 1]) - 1 \in P => ~SkippedAfter(Len(f[i + 1]) - 1, s, start, inserted)
    <3>1. i + 1 \in Nat /\ Divided(f[i], b)
      BY <2>2
    <3> QED
      BY <2>3, <2>4, <2>5, <2>6, <3>1, WithDigitDivided
  <2>8. SubSeq(d, 1, i + 1) = Append(SubSeq(d, 1, i), d[i + 1])
    BY <1>1, <2>1
  <2> QED
    BY <2>2, <2>7, <2>8
<1>8. Good(L)
  <2>1. Nat \subseteq T
    <3> HIDE DEF T
    <3> QED
      BY <1>6, <1>7, Induction
  <2> QED
    BY <1>1, <2>1
<1>9. f[L] \in Seq(Symbol)
  BY <1>1, <1>2
<1>10. Digits(f[L]) = d
  <2>1. SubSeq(d, 1, L) = d
    BY <1>1, SubSeqFull
  <2> QED
    BY <1>8, <2>1
<1>11. Len(f[L]) \in P => SkippedAfter(Len(f[L]), s, start, inserted)
  <2>1. Len(f[L]) \in Nat /\ DigitsWithin(Len(f[L]), b) = L
    BY <1>1, <1>5, <1>8
  <2>2. Len(f[L]) \in P => L < numberLength(b)
    BY <2>1, Layout
  <2> QED
    BY <1>1, <1>4, <1>8, <2>2
<1> QED
  BY <1>2, <1>8, <1>9, <1>10, <1>11 DEF d

-----------------------------------------------------------------------------
(* What the watcher of the number makes of a change.                       *)

(* A divided text that has a whole group at the end, without the last      *)
(* digit of it.                                                            *)
LEMMA FrontOf ==
  ASSUME NEW b, NEW u \in Seq(Symbol), Divided(u, b), Len(u) \in getDelimiterPositions(b)
  PROVE  /\ Front(u) \in Seq(Symbol)
         /\ Len(Front(u)) = Len(u) - 1
         /\ Divided(Front(u), b)
         /\ Digits(Front(u)) = Front(Digits(u))
<1> DEFINE r == Front(u)
           c == u[Len(u)]
<1>1. Len(u) \in Nat /\ Len(u) >= 4 /\ Len(u) - 1 \notin getDelimiterPositions(b)
  BY Layout
<1>2. r \in Seq(Symbol) /\ Len(r) = Len(u) - 1 /\ c \in Symbol /\ u = Append(r, c)
  BY <1>1 DEF Front
<1> HIDE DEF r, c
<1>3. Divided(r, b) /\ c # Delimiter
  BY <1>1, <1>2, DividedAppend
<1>4. Digits(u) = Append(Digits(r), c) /\ Digits(r) \in Seq(Digit) /\ c \in Digit
  BY <1>2, <1>3, DigitsAppend, DigitsType DEF Symbol
<1>5. Front(Append(Digits(r), c)) = Digits(r)
  <2> DEFINE e == Digits(r)
             a == Append(e, c)
  <2>1. /\ e \in Seq(Digit) /\ Len(e) \in Nat /\ a \in Seq(Digit) /\ Len(a) = Len(e) + 1
        /\ \A i \in 1 .. Len(e) : a[i] = e[i]
    BY <1>4, AppendProperties
  <2> HIDE DEF a, e
  <2>2. SubSeq(a, 1, Len(e)) = SubSeq(e, 1, Len(e))
    BY <2>1, SamePrefix
  <2>3. SubSeq(e, 1, Len(e)) = e
    BY <2>1, SubSeqFull
  <2>4. Len(a) - 1 = Len(e)
    BY <2>1
  <2>5. Front(a) = e
    BY <2>2, <2>3, <2>4 DEF Front
  <2> QED
    BY <2>5 DEF a, e
<1> QED
  BY <1>2, <1>3, <1>4, <1>5 DEF r

(* Only a delimiter comes without a digit.                                 *)
LEMMA WithinInjective ==
  ASSUME NEW b, NEW m \in Nat, NEW n \in getDelimiterPositions(b),
         DigitsWithin(m, b) = DigitsWithin(n, b)
  PROVE  m = n \/ m = n + 1
BY DEF DigitsWithin, getDelimiterPositions

(* The last digit of a group is deleted with the delimiter after it.       *)
GroupDeleted(s, start, inserted, b) ==
  /\ inserted = 0
  /\ start = Len(s)
  /\ start \in getDelimiterPositions(b)
  /\ Len(Digits(s)) = DigitsWithin(start, b)

(* What the watcher of the number makes of the text s.                     *)
LEMMA NumberFormatted ==
  ASSUME NEW b, NEW s \in Seq(Symbol), NEW start \in Nat, start <= Len(s), NEW inserted \in Nat,
         NEW c,
         inserted = 0 /\ start = Len(s) =>
           \A n \in getDelimiterPositions(b) :
             start \in {n, n + 1} => Len(Digits(s)) <= DigitsWithin(n, b)
  PROVE  LET t == NumberChanged(s, start, inserted, c, b).text
         IN  /\ t \in Seq(Symbol)
             /\ Divided(t, b)
             /\ Digits(t) = IF GroupDeleted(s, start, inserted, b) THEN Front(Digits(s))
                            ELSE Limited(Digits(s), b)
             /\ GroupDeleted(s, start, inserted, b) => Len(t) = start - 1
             /\ \/ isInputCorrect(s, start, inserted, b) /\ t = s
                \/ /\ ~isInputCorrect(s, start, inserted, b)
                   /\ inserted # 0 \/ start # Len(s) => Len(t) \notin getDelimiterPositions(b)
<1> DEFINE t == NumberChanged(s, start, inserted, c, b).text
           P == getDelimiterPositions(b)
           deleted == GroupDeleted(s, start, inserted, b)
<1>1. /\ Len(s) \in Nat /\ Digits(s) \in Seq(Digit) /\ Len(Digits(s)) \in Nat
      /\ numberLength(b) \in Nat
  BY DigitsType DEF numberLength
<1>2. ASSUME deleted
      PROVE  /\ Limited(Digits(s), b) = Digits(s)
             /\ ~isInputCorrect(s, start, inserted, b)
             /\ SkippedAfter(start, s, start, inserted)
  <2>1. DigitsWithin(start, b) < numberLength(b)
    BY <1>2, Layout DEF GroupDeleted
  <2>2. Limited(Digits(s), b) = Digits(s)
    BY <1>1, <1>2, <2>1, LimitedType DEF GroupDeleted
  <2>3. ~isInputCorrect(s, start, inserted, b)
    BY <1>2 DEF GroupDeleted, isInputCorrect
  <2>4. SkippedAfter(start, s, start, inserted)
    BY <1>2 DEF GroupDeleted, SkippedAfter
  <2> QED
    BY <2>2, <2>3, <2>4
<1>3. CASE isInputCorrect(s, start, inserted, b)
  <2>1. t = s /\ Divided(s, b) /\ Len(s) <= LengthMax(b)
    BY <1>3 DEF NumberChanged, isInputCorrect
  <2>2. Len(Digits(s)) = DigitsWithin(Len(s), b)
    BY <2>1, DividedDigits
  <2>3. Len(Digits(s)) <= numberLength(b)
    BY <1>1, <2>1, <2>2, Layout
  <2>4. Limited(Digits(s), b) = Digits(s)
    BY <1>1, <2>3, LimitedType
  <2> HIDE DEF t
  <2> QED
    BY <1>2, <1>3, <2>1, <2>4 DEF t
<1>4. CASE ~isInputCorrect(s, start, inserted, b)
  <2>1. t = buildCorrectString(s, start, inserted, b)
    BY <1>4 DEF NumberChanged
  <2>2. ASSUME NEW n \in P, SkippedAfter(n, s, start, inserted)
        PROVE  Len(Limited(Digits(s), b)) <= DigitsWithin(n, b)
    <3>1. inserted = 0 /\ start = Len(s) /\ start \in {n, n + 1}
      BY <1>1, <2>2 DEF SkippedAfter
    <3>2. Len(Digits(s)) <= DigitsWithin(n, b)
      BY <3>1
    <3>3. n \in Nat
      BY DEF getDelimiterPositions
    <3>4. DigitsWithin(n, b) \in Nat
      BY <3>3, Layout
    <3>5. /\ Len(Limited(Digits(s), b)) <= Len(Digits(s))
          /\ Len(Limited(Digits(s), b)) \in Nat
      BY <1>1, LimitedType
    <3> QED
      BY <1>1, <3>2, <3>4, <3>5
  <2>3. PICK u \in Seq(Symbol) :
          /\ Digits(u) = Limited(Digits(s), b)
          /\ Divided(u, b)
          /\ Len(u) \in P => SkippedAfter(Len(u), s, start, inserted)
          /\ Len(u) - 1 \in P => ~SkippedAfter(Len(u) - 1, s, start, inserted)
          /\ t = IF Len(u) \in P /\ start = Len(u) /\ inserted = 0 THEN Front(u) ELSE u
    BY <2>1, <2>2, Built
  <2>4. Len(u) \in Nat /\ Len(Digits(u)) = DigitsWithin(Len(u), b)
    BY <2>3, DividedDigits
  <2> HIDE DEF t
  <2>5. CASE Len(u) \in P /\ start = Len(u) /\ inserted = 0
    <3>1. start = Len(s)
      BY <1>1, <2>3, <2>5 DEF SkippedAfter
    <3>2. Len(Digits(u)) < numberLength(b)
      BY <2>4, <2>5, Layout
    <3>3. Limited(Digits(s), b) = Digits(s)
      BY <1>1, <2>3, <3>2, LimitedType
    <3>4. deleted
      BY <2>3, <2>4, <2>5, <3>1, <3>3 DEF GroupDeleted
    <3>5. /\ Front(u) \in Seq(Symbol) /\ Len(Front(u)) = Len(u) - 1
          /\ Divided(Front(u), b) /\ Digits(Front(u)) = Front(Digits(u))
      BY <2>3, <2>5, FrontOf
    <3>6. t = Front(u)
      BY <2>3, <2>5
    <3> QED
      BY <1>4, <2>3, <2>5, <3>1, <3>3, <3>4, <3>5, <3>6 DEF t
  <2>6. CASE ~(Len(u) \in P /\ start = Len(u) /\ inserted = 0)
    <3>1. t = u
      BY <2>3, <2>6
    <3>2. ~deleted
      <4> SUFFICES ASSUME deleted
                   PROVE  FALSE
        OBVIOUS
      <4>1. Len(u) = start \/ Len(u) = start + 1
        <5>1. start \in P /\ DigitsWithin(Len(u), b) = DigitsWithin(start, b)
          BY <1>2, <2>3, <2>4 DEF GroupDeleted
        <5> QED
          BY <2>4, <5>1, WithinInjective
      <4>2. start \in P /\ inserted = 0
        BY DEF GroupDeleted
      <4>3. CASE Len(u) = start
        BY <2>6, <4>2, <4>3
      <4>4. CASE Len(u) = start + 1
        <5>1. Len(u) - 1 = start
          BY <4>4
        <5> QED
          BY <1>2, <2>3, <4>2, <5>1
      <4> QED
        BY <4>1, <4>3, <4>4
    <3>3. inserted # 0 \/ start # Len(s) => Len(u) \notin P
      BY <1>1, <2>3 DEF SkippedAfter
    <3> QED
      BY <1>4, <2>3, <3>1, <3>2, <3>3 DEF t
  <2> QED
    BY <2>5, <2>6
<1> QED
  BY <1>3, <1>4

(* A text that is shorter than a group and its delimiter is divided for    *)
(* every brand.                                                            *)
LEMMA ShortDivided ==
  ASSUME NEW t \in Seq(Symbol), Len(t) <= 4, NEW a, NEW b, Divided(t, a)
  PROVE  Divided(t, b)
<1>1. \A i \in DOMAIN t : i - 1 \notin getDelimiterPositions(a) /\ i - 1 \notin getDelimiterPositions(b)
  BY DEF getDelimiterPositions
<1> QED
  BY <1>1 DEF Divided

(* The digits that are kept tell the same brand.                           *)
LEMMA LimitedBrand ==
  ASSUME NEW digits \in Seq(Digit), NEW b
  PROVE  detectWithDigits(Limited(digits, b)) = detectWithDigits(digits)
<1> DEFINE d == Limited(digits, b)
<1>1. /\ d \in Seq(Digit) /\ Len(d) \in Nat /\ Len(digits) \in Nat
      /\ Len(d) <= Len(digits)
      /\ Len(d) < numberLength(b) => d = digits
      /\ \A i \in 1 .. Len(d) : d[i] = digits[i]
  BY LimitedType
<1>2. numberLength(b) \in 14 .. 16
  BY DEF numberLength
<1> HIDE DEF d
<1> SUFFICES detectWithDigits(d) = detectWithDigits(digits)
  BY DEF d
<1>3. CASE Len(d) < numberLength(b)
  BY <1>1, <1>3
<1>4. CASE Len(d) >= numberLength(b)
  <2>1. Len(d) >= 4 /\ Len(digits) >= 4 /\ \A i \in 1 .. 4 : i \in 1 .. Len(d)
    BY <1>1, <1>2, <1>4
  <2>2. \A i \in 1 .. 4 : d[i] = digits[i]
    BY <1>1, <2>1
  <2> QED
    BY <1>1, <2>1, <2>2, SameBrand
<1> QED
  BY <1>1, <1>2, <1>3, <1>4

(* The digits without the last one tell the same brand, if there are       *)
(* enough of them.                                                         *)
LEMMA FrontDigits ==
  ASSUME NEW digits \in Seq(Digit), Len(digits) >= 4
  PROVE  /\ Front(digits) \in Seq(Digit)
         /\ Len(Front(digits)) = Len(digits) - 1
         /\ Len(digits) > 4 => detectWithDigits(Front(digits)) = detectWithDigits(digits)
<1>1. /\ Front(digits) \in Seq(Digit) /\ Len(Front(digits)) = Len(digits) - 1
      /\ \A i \in 1 .. Len(digits) - 1 : Front(digits)[i] = digits[i]
  BY DEF Front
<1>2. ASSUME Len(digits) > 4
      PROVE  detectWithDigits(Front(digits)) = detectWithDigits(digits)
  <2>1. Len(Front(digits)) >= 4 /\ \A i \in 1 .. 4 : Front(digits)[i] = digits[i]
    BY <1>1, <1>2
  <2> QED
    BY <1>1, <2>1, SameBrand
<1> QED
  BY <1>1, <1>2

(* The digits of a number that are kept, and what a text of them is.       *)
Kept(digits) == Limited(digits, detectWithDigits(digits))

WellFormatted(t) ==
  /\ t \in Seq(Symbol)
  /\ Divided(t, detectWithDigits(Digits(t)))
  /\ Len(Digits(t)) <= numberLength(detectWithDigits(Digits(t)))

(* With the brand that the text tells, the watcher leaves the text as that *)
(* brand has it, also when it is another brand's afterwards.               *)
LEMMA NumberOutcome ==
  ASSUME NEW s \in Seq(Symbol), NEW start \in Nat, start <= Len(s), NEW inserted \in Nat,
         NEW c, NEW b, b = detectWithDigits(Digits(s)),
         inserted = 0 /\ start = Len(s) =>
           \A n \in getDelimiterPositions(b) :
             start \in {n, n + 1} => Len(Digits(s)) <= DigitsWithin(n, b)
  PROVE  LET t == NumberChanged(s, start, inserted, c, b).text
             digits == IF GroupDeleted(s, start, inserted, b) THEN Front(Digits(s)) ELSE Digits(s)
         IN  /\ WellFormatted(t)
             /\ digits \in Seq(Digit)
             /\ Digits(t) = Kept(digits)
             /\ ~GroupDeleted(s, start, inserted, b) => detectWithDigits(Digits(t)) = b
<1> DEFINE t == NumberChanged(s, start, inserted, c, b).text
           deleted == GroupDeleted(s, start, inserted, b)
<1>1. /\ t \in Seq(Symbol)
      /\ Divided(t, b)
      /\ Digits(t) = IF deleted THEN Front(Digits(s)) ELSE Limited(Digits(s), b)
      /\ deleted => Len(t) = start - 1
  BY NumberFormatted
<1>2. Digits(s) \in Seq(Digit) /\ Len(Digits(s)) \in Nat
  BY DigitsType
<1> HIDE DEF t
<1>3. CASE deleted
  <2>1. /\ start \in getDelimiterPositions(b)
        /\ Len(Digits(s)) = DigitsWithin(start, b)
        /\ Len(Digits(s)) \in 4 .. 12
    BY <1>3, Layout DEF GroupDeleted
  <2> DEFINE digits == Front(Digits(s))
  <2>2. /\ digits \in Seq(Digit)
        /\ Len(digits) = Len(Digits(s)) - 1
        /\ Len(Digits(s)) > 4 => detectWithDigits(digits) = b
    BY <1>2, <2>1, FrontDigits
  <2>3. Digits(t) = digits
    BY <1>1, <1>3
  <2> HIDE DEF digits
  <2>4. numberLength(detectWithDigits(digits)) \in 14 .. 16
    BY DEF numberLength
  <2>5. Len(digits) <= numberLength(detectWithDigits(digits))
    BY <2>1, <2>2, <2>4
  <2>6. Kept(digits) = digits
    BY <2>2, <2>5, LimitedType DEF Kept
  <2>7. Divided(t, detectWithDigits(digits))
    <3>1. CASE Len(Digits(s)) > 4
      BY <1>1, <2>2, <3>1
    <3>2. CASE Len(Digits(s)) = 4
      <4>1. start <= 4
        <5>1. \A n \in getDelimiterPositions(b) : DigitsWithin(n, b) = 4 => n <= 4
          BY DEF getDelimiterPositions, DigitsWithin
        <5> QED
          BY <2>1, <3>2, <5>1
      <4>2. Len(t) <= 4
        BY <1>1, <1>3, <4>1
      <4> QED
        BY <1>1, <4>2, ShortDivided
    <3> QED
      BY <2>1, <3>1, <3>2
  <2> QED
    BY <1>1, <1>3, <2>2, <2>3, <2>5, <2>6, <2>7 DEF t, digits, WellFormatted
<1>4. CASE ~deleted
  <2>1. Digits(t) = Limited(Digits(s), b)
    BY <1>1, <1>4
  <2>2. detectWithDigits(Digits(t)) = b
    BY <1>2, <2>1, LimitedBrand
  <2>3. Len(Digits(t)) <= numberLength(b)
    BY <1>2, <2>1, LimitedType
  <2>4. WellFormatted(t)
    BY <1>1, <2>2, <2>3 DEF WellFormatted
  <2>5. Digits(t) = Kept(Digits(s))
    BY <2>1 DEF Kept
  <2> QED
    BY <1>2, <1>4, <2>2, <2>4, <2>5 DEF t
<1> QED
  BY <1>3, <1>4

(* Two divided texts with the same first four symbols tell the same brand. *)
LEMMA SameBeginning ==
  ASSUME NEW s \in Seq(Symbol), NEW t \in Seq(Symbol), NEW a,
         Len(s) >= 4, Len(t) >= 4, Divided(t, a), \A i \in 1 .. 4 : s[i] = t[i]
  PROVE  detectWithDigits(Digits(s)) = detectWithDigits(Digits(t))
<1>1. ASSUME NEW r \in Seq(Symbol), Len(r) >= 4, \A i \in 1 .. 4 : r[i] \in Digit
      PROVE  /\ Digits(r) \in Seq(Digit) /\ Len(Digits(r)) >= 4
             /\ \A i \in 1 .. 4 : Digits(r)[i] = r[i]
  <2> DEFINE x == SubSeq(r, 1, 4)
             y == SubSeq(r, 5, Len(r))
  <2>1. x \in Seq(Digit) /\ Len(x) = 4 /\ \A i \in 1 .. 4 : x[i] = r[i]
    BY <1>1
  <2>2. x \in Seq(Symbol) /\ y \in Seq(Symbol)
    <3>1. \A i \in 1 .. 4 : r[i] \in Symbol
      BY <1>1 DEF Symbol
    <3> QED
      BY <3>1
  <2>3. r = x \o y
    <3>1. Len(r) \in Nat /\ 1 \in 1 .. Len(r) + 1 /\ 4 \in 1 - 1 .. Len(r) /\ Len(r) \in 4 .. Len(r)
      BY <1>1
    <3>2. SubSeq(r, 1, 4) \o SubSeq(r, 4 + 1, Len(r)) = SubSeq(r, 1, Len(r))
      BY <3>1, ConcatAdjacentSubSeq
    <3>3. SubSeq(r, 1, Len(r)) = r
      BY SubSeqFull
    <3> QED
      BY <3>2, <3>3
  <2>4. Digits(r) = Digits(x) \o Digits(y) /\ Digits(x) = x
    BY <2>1, <2>2, <2>3, DigitsConcat, DigitsOnly
  <2>5. Digits(y) \in Seq(Digit) /\ Len(Digits(y)) \in Nat
    BY <2>2, DigitsType
  <2> HIDE DEF x, y
  <2>6. /\ x \o Digits(y) \in Seq(Digit)
        /\ Len(x \o Digits(y)) = 4 + Len(Digits(y))
        /\ \A i \in 1 .. 4 : (x \o Digits(y))[i] = x[i]
    <3> DEFINE z == Digits(y)
    <3> HIDE DEF z
    <3>1. z \in Seq(Digit) /\ Len(z) \in Nat
      BY <2>5 DEF z
    <3>2. /\ x \o z \in Seq(Digit)
          /\ Len(x \o z) = Len(x) + Len(z)
          /\ \A i \in 1 .. Len(x) + Len(z) :
               (x \o z)[i] = IF i <= Len(x) THEN x[i] ELSE z[i - Len(x)]
      BY <2>1, <3>1, ConcatProperties
    <3>3. \A i \in 1 .. 4 : i \in 1 .. Len(x) + Len(z) /\ i <= Len(x)
      BY <2>1, <3>1
    <3> QED
      BY <2>1, <3>2, <3>3 DEF z
  <2>7. Digits(r) = x \o Digits(y)
    BY <2>4, Zenon
  <2>8. Digits(r) \in Seq(Digit) /\ Len(Digits(r)) = 4 + Len(Digits(y))
    BY <2>6, <2>7
  <2>9. \A i \in 1 .. 4 : Digits(r)[i] = r[i]
    BY <2>1, <2>6, <2>7
  <2> QED
    BY <2>5, <2>8, <2>9
<1>2. \A i \in 1 .. 4 : t[i] \in Digit
  <2> SUFFICES ASSUME NEW i \in 1 .. 4
               PROVE  t[i] \in Digit
    OBVIOUS
  <2>1. i \in DOMAIN t /\ i - 1 \notin getDelimiterPositions(a)
    BY DEF getDelimiterPositions
  <2>2. t[i] # Delimiter /\ t[i] \in Symbol
    BY <2>1, ElementOfSeq DEF Divided
  <2> QED
    BY <2>2 DEF Symbol
<1>3. \A i \in 1 .. 4 : s[i] \in Digit
  BY <1>2
<1>4. /\ Digits(t) \in Seq(Digit) /\ Len(Digits(t)) >= 4 /\ \A i \in 1 .. 4 : Digits(t)[i] = t[i]
  BY <1>1, <1>2
<1>5. /\ Digits(s) \in Seq(Digit) /\ Len(Digits(s)) >= 4 /\ \A i \in 1 .. 4 : Digits(s)[i] = s[i]
  BY <1>1, <1>3
<1>6. \A i \in 1 .. 4 : Digits(s)[i] = Digits(t)[i]
  BY <1>4, <1>5
<1> QED
  BY <1>4, <1>5, <1>6, SameBrand

-----------------------------------------------------------------------------
(* The changes of a text, and the invariant of a field with a number.      *)

(* A digit is typed into the text (InsertAt).                              *)
LEMMA Inserted ==
  ASSUME NEW t \in Seq(Symbol), NEW p \in 0 .. Len(t), NEW d \in Digit
  PROVE  LET s == InsertAt(t, p + 1, d)
         IN  /\ s \in Seq(Symbol)
             /\ Len(s) = Len(t) + 1
             /\ s[p + 1] = d
             /\ \A i \in 1 .. p : s[i] = t[i]
<1> DEFINE x == SubSeq(t, 1, p)
           y == SubSeq(t, p + 1, Len(t))
<1>1. d \in Symbol /\ Len(t) \in Nat
  BY DEF Symbol
<1>2. x \in Seq(Symbol) /\ Len(x) = p /\ \A i \in 1 .. p : x[i] = t[i]
  OBVIOUS
<1>3. y \in Seq(Symbol) /\ Len(y) = Len(t) - p
  OBVIOUS
<1>4. InsertAt(t, p + 1, d) = x \o <<d>> \o y
  <2>1. (p + 1) - 1 = p
    OBVIOUS
  <2>2. InsertAt(t, p + 1, d) = SubSeq(t, 1, (p + 1) - 1) \o <<d>> \o SubSeq(t, p + 1, Len(t))
    BY Zenon DEF InsertAt
  <2> QED
    BY <2>1, <2>2, Zenon
<1> HIDE DEF x, y
<1>5. /\ x \o <<d>> \in Seq(Symbol) /\ Len(x \o <<d>>) = p + 1
      /\ (x \o <<d>>)[p + 1] = d
      /\ \A i \in 1 .. p : (x \o <<d>>)[i] = t[i]
  <2>1. x \o <<d>> = Append(x, d)
    BY <1>1, <1>2, AppendIsConcat
  <2>2. /\ Append(x, d) \in Seq(Symbol) /\ Len(Append(x, d)) = p + 1
        /\ Append(x, d)[p + 1] = d /\ \A i \in 1 .. p : Append(x, d)[i] = x[i]
    BY <1>1, <1>2, AppendProperties
  <2> QED
    BY <1>2, <2>1, <2>2
<1> DEFINE z == x \o <<d>>
<1>6. z \in Seq(Symbol) /\ Len(z) = p + 1 /\ z[p + 1] = d /\ \A i \in 1 .. p : z[i] = t[i]
  BY <1>5
<1> HIDE DEF z
<1>7. /\ z \o y \in Seq(Symbol) /\ Len(z \o y) = Len(t) + 1
      /\ \A i \in 1 .. p + 1 : (z \o y)[i] = z[i]
  <2>1. /\ z \o y \in Seq(Symbol) /\ Len(z \o y) = Len(z) + Len(y)
        /\ \A i \in 1 .. Len(z) + Len(y) :
             (z \o y)[i] = IF i <= Len(z) THEN z[i] ELSE y[i - Len(z)]
    BY <1>3, <1>6, ConcatProperties
  <2>2. \A i \in 1 .. p + 1 : i \in 1 .. Len(z) + Len(y) /\ i <= Len(z)
    BY <1>1, <1>3, <1>6
  <2> QED
    BY <1>1, <1>3, <1>6, <2>1, <2>2
<1>8. (z \o y)[p + 1] = d /\ \A i \in 1 .. p : (z \o y)[i] = t[i]
  BY <1>6, <1>7
<1>9. InsertAt(t, p + 1, d) = z \o y
  BY <1>4 DEF z
<1> QED
  BY <1>7, <1>8, <1>9

(* A symbol is deleted from the text (RemoveAt).                           *)
LEMMA Removed ==
  ASSUME NEW t \in Seq(Symbol), NEW p \in 0 .. Len(t) - 1
  PROVE  LET s == RemoveAt(t, p + 1)
         IN  /\ s \in Seq(Symbol)
             /\ Len(s) = Len(t) - 1
             /\ \A i \in 1 .. p : s[i] = t[i]
<1> DEFINE x == SubSeq(t, 1, p)
           y == SubSeq(t, p + 2, Len(t))
<1>1. Len(t) \in Nat
  OBVIOUS
<1>2. x \in Seq(Symbol) /\ Len(x) = p /\ \A i \in 1 .. p : x[i] = t[i]
  OBVIOUS
<1>3. y \in Seq(Symbol) /\ Len(y) = Len(t) - 1 - p
  OBVIOUS
<1>4. RemoveAt(t, p + 1) = x \o y
  <2>1. (p + 1) - 1 = p /\ (p + 1) + 1 = p + 2
    OBVIOUS
  <2>2. RemoveAt(t, p + 1) = SubSeq(t, 1, (p + 1) - 1) \o SubSeq(t, (p + 1) + 1, Len(t))
    BY Zenon DEF RemoveAt
  <2> QED
    BY <2>1, <2>2, Zenon
<1> HIDE DEF x, y
<1>5. /\ x \o y \in Seq(Symbol) /\ Len(x \o y) = Len(x) + Len(y)
      /\ \A i \in 1 .. Len(x) + Len(y) :
           (x \o y)[i] = IF i <= Len(x) THEN x[i] ELSE y[i - Len(x)]
  BY <1>2, <1>3, ConcatProperties
<1>6. \A i \in 1 .. p : i \in 1 .. Len(x) + Len(y) /\ i <= Len(x)
  BY <1>1, <1>2, <1>3
<1>7. \A i \in 1 .. p : (x \o y)[i] = t[i]
  BY <1>2, <1>5, <1>6
<1>8. Len(x \o y) = Len(t) - 1
  BY <1>1, <1>2, <1>3, <1>5
<1> QED
  BY <1>4, <1>5, <1>7, <1>8

(* The beginning of a divided text is divided.                             *)
LEMMA DividedBeginning ==
  ASSUME NEW b, NEW t \in Seq(Symbol), Divided(t, b), NEW s \in Seq(Symbol),
         NEW n \in Nat, n <= Len(t), n <= Len(s), \A i \in 1 .. n : s[i] = t[i]
  PROVE  /\ SubSeq(s, 1, n) \in Seq(Symbol)
         /\ Len(SubSeq(s, 1, n)) = n
         /\ Divided(SubSeq(s, 1, n), b)
         /\ Len(Digits(SubSeq(s, 1, n))) = DigitsWithin(n, b)
<1> DEFINE x == SubSeq(s, 1, n)
<1>1. \A i \in 1 .. n : i \in 1 .. Len(s) /\ s[i] \in Symbol
  BY ElementOfSeq
<1>2. x \in Seq(Symbol) /\ Len(x) = n /\ \A i \in 1 .. n : x[i] = s[i]
  BY <1>1
<1>3. DOMAIN x = 1 .. n /\ DOMAIN t = 1 .. Len(t)
  BY <1>2
<1> HIDE DEF x
<1>4. Divided(x, b)
  <2> SUFFICES ASSUME NEW i \in 1 .. n
               PROVE  i - 1 \in getDelimiterPositions(b) <=> x[i] = Delimiter
    BY <1>3 DEF Divided
  <2>1. x[i] = t[i] /\ i \in DOMAIN t
    BY <1>2, <1>3
  <2> QED
    BY <2>1 DEF Divided
<1>5. Len(Digits(x)) = DigitsWithin(n, b)
  BY <1>2, <1>4, DividedDigits
<1> QED
  BY <1>2, <1>4, <1>5 DEF x

(* A text that has been restored is divided as if it had no brand.         *)
DividedAs(b) == IF restored THEN "UNKNOWN" ELSE b

TypeInv ==
  /\ DateInv
  /\ text \in Seq(Symbol)
  /\ cursor \in Nat
  /\ brand \in Brand \cup {"UNKNOWN"}
  /\ restored \in BOOLEAN
  /\ edits \in 0 .. MaxEdits
  /\ meant.digits \in Seq(Digit)
  /\ meant.ahead \in Nat

NumberInv ==
  /\ brand = detectWithDigits(Digits(text))
  /\ Divided(text, DividedAs(brand))
  /\ Len(Digits(text)) <= numberLength(brand)
  /\ Digits(text) = Kept(meant.digits)

(* The two layouts of a text that has been restored.                       *)
LEMMA Layouts ==
  ASSUME NEW b, NEW a \in {b, "UNKNOWN"}, NEW n \in getDelimiterPositions(b)
  PROVE  /\ DigitsWithin(n, a) <= DigitsWithin(n, b)
         /\ DigitsWithin(n + 1, a) <= DigitsWithin(n, b)
         /\ n \in getDelimiterPositions(a) <=> DigitsWithin(n, a) = DigitsWithin(n, b)
BY DEF DigitsWithin, getDelimiterPositions

(* What is left of a number when its last symbol is deleted.               *)
LEMMA LastDeleted ==
  ASSUME TypeInv, NumberInv, NEW p \in 0 .. Len(text) - 1, p + 1 = Len(text)
  PROVE  LET s == RemoveAt(text, p + 1)
             b == detectWithDigits(Digits(s))
         IN  /\ \A n \in getDelimiterPositions(b) :
                  p \in {n, n + 1} => Len(Digits(s)) <= DigitsWithin(n, b)
             /\ p \in getDelimiterPositions(b) =>
                  (text[p + 1] = Delimiter <=> Len(Digits(s)) = DigitsWithin(p, b))
<1> DEFINE s == RemoveAt(text, p + 1)
           b == detectWithDigits(Digits(s))
           a == DividedAs(brand)
<1>1. text \in Seq(Symbol) /\ Divided(text, a) /\ Len(text) \in Nat /\ brand = detectWithDigits(Digits(text))
  BY DEF TypeInv, NumberInv
<1>2. s \in Seq(Symbol) /\ Len(s) = p /\ \A i \in 1 .. p : s[i] = text[i]
  BY <1>1, Removed
<1> HIDE DEF s
<1>3. Len(Digits(s)) = DigitsWithin(p, a)
  <2>1. Len(Digits(SubSeq(s, 1, p))) = DigitsWithin(p, a)
    BY <1>1, <1>2, DividedBeginning
  <2>2. SubSeq(s, 1, p) = s
    BY <1>2, SubSeqFull
  <2> QED
    BY <2>1, <2>2
<1>4. p >= 4 => b = brand
  <2> SUFFICES ASSUME p >= 4
               PROVE  detectWithDigits(Digits(s)) = detectWithDigits(Digits(text))
    BY <1>1
  <2>1. Len(s) >= 4 /\ Len(text) >= 4 /\ \A i \in 1 .. 4 : s[i] = text[i]
    BY <1>1, <1>2
  <2> QED
    BY <1>1, <1>2, <2>1, SameBeginning
<1>5. p >= 4 => a \in {b, "UNKNOWN"}
  BY <1>4 DEF DividedAs
<1> HIDE DEF a, b
<1>6. ASSUME NEW n \in getDelimiterPositions(b), p \in {n, n + 1}
      PROVE  Len(Digits(s)) <= DigitsWithin(n, b)
  <2>1. p >= 4
    BY <1>6 DEF getDelimiterPositions
  <2> QED
    BY <1>3, <1>5, <1>6, <2>1, Layouts
<1>7. ASSUME p \in getDelimiterPositions(b)
      PROVE  text[p + 1] = Delimiter <=> Len(Digits(s)) = DigitsWithin(p, b)
  <2>1. p >= 4
    BY <1>7 DEF getDelimiterPositions
  <2>2. p + 1 \in DOMAIN text /\ (p + 1) - 1 = p
    BY <1>1
  <2>3. text[p + 1] = Delimiter <=> p \in getDelimiterPositions(a)
    BY <1>1, <2>2 DEF Divided
  <2> QED
    BY <1>3, <1>5, <1>7, <2>1, <2>3, Layouts
<1> QED
  BY <1>6, <1>7 DEF s, b

-----------------------------------------------------------------------------
(* What the watcher of the expiration makes of a change.                   *)

(* Of an expiration at most four digits are kept.                          *)
FourOf(digits) ==
  SubSeq(digits, 1, IF Len(digits) < TOTAL_MAX_DIGITS THEN Len(digits) ELSE TOTAL_MAX_DIGITS)

(* What the text of an expiration is.                                      *)
Shaped(t) ==
  /\ t \in Seq(Symbol)
  /\ Len(t) <= TOTAL_MAX_SYMBOLS
  /\ \A i \in DOMAIN t : i = 3 <=> t[i] = Delimiter
  /\ t # <<>> => t[1] \in {0, 1}

(* What is kept of the digits of an expiration.                            *)
LEMMA FourOfType ==
  ASSUME NEW d \in Seq(Digit)
  PROVE  /\ FourOf(d) \in Seq(Digit)
         /\ Len(FourOf(d)) <= 4
         /\ Len(d) <= 4 => FourOf(d) = d
         /\ Len(FourOf(d)) = IF Len(d) < 4 THEN Len(d) ELSE 4
         /\ \A i \in 1 .. Len(FourOf(d)) : FourOf(d)[i] = d[i]
<1> DEFINE n == IF Len(d) < 4 THEN Len(d) ELSE 4
<1>0. PICK m \in Nat : m = Len(d)
  OBVIOUS
<1>1. /\ Len(d) \in Nat /\ n \in 0 .. 4 /\ n <= Len(d)
      /\ Len(d) <= 4 => n = Len(d)
      /\ n = IF Len(d) < 4 THEN Len(d) ELSE 4
  BY <1>0
<1>2. FourOf(d) = SubSeq(d, 1, n)
  BY DEF FourOf, TOTAL_MAX_DIGITS
<1> HIDE DEF n
<1>3. \A i \in 1 .. n : d[i] \in Digit
  BY <1>1, ElementOfSeq
<1>4. n = Len(d) => SubSeq(d, 1, n) = d
  BY SubSeqFull
<1>5. /\ SubSeq(d, 1, n) \in Seq(Digit)
      /\ Len(SubSeq(d, 1, n)) = n
      /\ \A i \in 1 .. n : SubSeq(d, 1, n)[i] = d[i]
  BY <1>1, <1>3
<1>6. FourOf(d) \in Seq(Digit) /\ Len(FourOf(d)) = n
  BY <1>2, <1>5
<1>7. \A i \in 1 .. n : FourOf(d)[i] = d[i]
  BY <1>2, <1>5
<1>8. Len(d) <= 4 => FourOf(d) = d
  BY <1>1, <1>2, <1>4
<1>9. Len(FourOf(d)) <= 4
  BY <1>1, <1>6
<1>10. Len(FourOf(d)) = IF Len(d) < 4 THEN Len(d) ELSE 4
  BY <1>1, <1>6
<1> QED
  BY <1>6, <1>7, <1>8, <1>9, <1>10

(* Digits on both sides of a delimiter.                                    *)
LEMMA DelimitedDigits ==
  ASSUME NEW x \in Seq(Digit), NEW y \in Seq(Digit)
  PROVE  /\ x \o <<Delimiter>> \o y \in Seq(Symbol)
         /\ Digits(x \o <<Delimiter>> \o y) = x \o y
         /\ Len(x \o <<Delimiter>> \o y) = Len(x) + 1 + Len(y)
         /\ \A i \in 1 .. Len(x) : (x \o <<Delimiter>> \o y)[i] = x[i]
         /\ (x \o <<Delimiter>> \o y)[Len(x) + 1] = Delimiter
         /\ \A i \in 1 .. Len(y) : (x \o <<Delimiter>> \o y)[Len(x) + 1 + i] = y[i]
<1>1. x \in Seq(Symbol) /\ y \in Seq(Symbol) /\ Delimiter \in Symbol
  BY DEF Symbol
<1>2. Digits(x) = x /\ Digits(y) = y
  BY DigitsOnly
<1> DEFINE z == x \o <<Delimiter>>
<1>3. z = Append(x, Delimiter)
  BY <1>1, AppendIsConcat
<1>4. /\ z \in Seq(Symbol) /\ Len(z) = Len(x) + 1 /\ z[Len(x) + 1] = Delimiter
      /\ \A i \in 1 .. Len(x) : z[i] = x[i]
  BY <1>1, <1>3, AppendProperties
<1>5. Digits(z) = x
  BY <1>1, <1>2, <1>3, DigitsAppend
<1> SUFFICES /\ z \o y \in Seq(Symbol)
             /\ Digits(z \o y) = x \o y
             /\ Len(z \o y) = Len(x) + 1 + Len(y)
             /\ \A i \in 1 .. Len(x) : (z \o y)[i] = x[i]
             /\ (z \o y)[Len(x) + 1] = Delimiter
             /\ \A i \in 1 .. Len(y) : (z \o y)[Len(x) + 1 + i] = y[i]
  OBVIOUS
<1> HIDE DEF z
<1>6. /\ z \o y \in Seq(Symbol)
      /\ Len(z \o y) = Len(z) + Len(y)
      /\ \A i \in 1 .. Len(z) + Len(y) :
           (z \o y)[i] = IF i <= Len(z) THEN z[i] ELSE y[i - Len(z)]
  BY <1>1, <1>4, ConcatProperties
<1>7. Digits(z \o y) = x \o y
  BY <1>1, <1>2, <1>4, <1>5, DigitsConcat
<1>8. Len(x) \in Nat /\ Len(y) \in Nat /\ Len(z) = Len(x) + 1
  BY <1>4
<1>9. \A i \in 1 .. Len(x) : (z \o y)[i] = x[i]
  <2>1. \A i \in 1 .. Len(x) : i \in 1 .. Len(z) + Len(y) /\ i <= Len(z)
    BY <1>8
  <2> QED
    BY <1>4, <1>6, <2>1
<1>10. (z \o y)[Len(x) + 1] = Delimiter
  <2>1. Len(x) + 1 \in 1 .. Len(z) + Len(y) /\ Len(x) + 1 <= Len(z)
    BY <1>8
  <2> QED
    BY <1>4, <1>6, <2>1
<1>11. \A i \in 1 .. Len(y) : (z \o y)[Len(x) + 1 + i] = y[i]
  <2> SUFFICES ASSUME NEW i \in 1 .. Len(y)
               PROVE  (z \o y)[Len(x) + 1 + i] = y[i]
    OBVIOUS
  <2> DEFINE k == Len(x) + 1 + i
  <2>1. k \in 1 .. Len(z) + Len(y) /\ ~(k <= Len(z)) /\ k - Len(z) = i
    BY <1>8
  <2> HIDE DEF k
  <2>2. (z \o y)[k] = y[i]
    BY <1>6, <2>1
  <2> QED
    BY <2>2 DEF k
<1> QED
  BY <1>6, <1>7, <1>8, <1>9, <1>10, <1>11

(* The digits of the text of an expiration.                                *)
LEMMA ShapedDigits ==
  ASSUME NEW t, Shaped(t)
  PROVE  /\ Digits(t) \in Seq(Digit)
         /\ Len(Digits(t)) = IF Len(t) <= 2 THEN Len(t) ELSE Len(t) - 1
         /\ \A i \in 1 .. 2 : i <= Len(t) => Digits(t)[i] = t[i]
<1>0. t \in Seq(Symbol) /\ Len(t) <= 5
  BY DEF Shaped, TOTAL_MAX_SYMBOLS
<1>1. t \in Seq(Symbol) /\ Len(t) \in Nat /\ Len(t) <= 5 /\ DOMAIN t = 1 .. Len(t)
  BY <1>0
<1>2. \A i \in 1 .. Len(t) : i # 3 => t[i] \in Digit
  <2> SUFFICES ASSUME NEW i \in 1 .. Len(t), i # 3
               PROVE  t[i] \in Digit
    OBVIOUS
  <2>1. t[i] \in Symbol /\ t[i] # Delimiter
    BY <1>1, ElementOfSeq DEF Shaped
  <2> QED
    BY <2>1 DEF Symbol
<1>3. CASE Len(t) <= 2
  <2>1. t \in Seq(Digit)
    <3>1. \A i \in 1 .. Len(t) : t[i] \in Digit
      BY <1>1, <1>2, <1>3
    <3>2. SubSeq(t, 1, Len(t)) \in Seq(Digit)
      BY <1>1, <3>1
    <3>3. SubSeq(t, 1, Len(t)) = t
      BY <1>1, SubSeqFull
    <3> QED
      BY <3>2, <3>3
  <2>2. Digits(t) = t
    BY <2>1, DigitsOnly
  <2> QED
    BY <1>1, <1>3, <2>1, <2>2
<1>4. CASE Len(t) > 2
  <2> DEFINE x == SubSeq(t, 1, 2)
             y == SubSeq(t, 4, Len(t))
  <2>1. x \in Seq(Digit) /\ Len(x) = 2 /\ \A i \in 1 .. 2 : x[i] = t[i]
    <3>1. \A i \in 1 .. 2 : t[i] \in Digit
      BY <1>1, <1>2, <1>4
    <3> QED
      BY <3>1
  <2>2. y \in Seq(Digit) /\ Len(y) = Len(t) - 3 /\ \A i \in 1 .. Len(t) - 3 : y[i] = t[3 + i]
    <3>1. \A i \in 4 .. Len(t) : t[i] \in Digit
      BY <1>1, <1>2
    <3> QED
      BY <1>1, <1>4, <3>1
  <2> HIDE DEF x, y
  <2> DEFINE z == x \o <<Delimiter>> \o y
  <2>3. /\ z \in Seq(Symbol) /\ Digits(z) = x \o y /\ Len(z) = Len(t)
        /\ \A i \in 1 .. 2 : z[i] = x[i]
        /\ z[3] = Delimiter
        /\ \A i \in 1 .. Len(t) - 3 : z[3 + i] = y[i]
    <3> HIDE DEF z
    <3>1. /\ z \in Seq(Symbol) /\ Digits(z) = x \o y /\ Len(z) = Len(x) + 1 + Len(y)
          /\ \A i \in 1 .. Len(x) : z[i] = x[i]
          /\ z[Len(x) + 1] = Delimiter
          /\ \A i \in 1 .. Len(y) : z[Len(x) + 1 + i] = y[i]
      BY <2>1, <2>2, DelimitedDigits DEF z
    <3>2. Len(x) + 1 = 3
      BY <2>1
    <3>3. 3 + Len(y) = Len(t)
      BY <1>1, <2>2
    <3> QED
      BY <2>1, <2>2, <3>1, <3>2, <3>3
  <2> HIDE DEF z
  <2>4. z = t
    <3>1. ASSUME NEW i \in 1 .. Len(z)
          PROVE  z[i] = t[i]
      <4>1. i \in 1 .. Len(t)
        BY <2>3
      <4>2. CASE i \in 1 .. 2
        BY <2>1, <2>3, <4>2
      <4>3. CASE i = 3
        BY <1>1, <2>3, <4>1, <4>3 DEF Shaped
      <4>4. CASE i > 3
        <5>1. i - 3 \in 1 .. Len(t) - 3 /\ 3 + (i - 3) = i
          BY <1>1, <4>1, <4>4
        <5> QED
          BY <2>2, <2>3, <5>1
      <4> QED
        BY <1>1, <4>1, <4>2, <4>3, <4>4
    <3> QED
      BY <1>1, <2>3, <3>1, SeqEqual
  <2>5. /\ x \o y \in Seq(Digit) /\ Len(x \o y) = Len(t) - 1
        /\ \A i \in 1 .. 2 : (x \o y)[i] = x[i]
    <3>1. /\ x \o y \in Seq(Digit) /\ Len(x \o y) = Len(x) + Len(y)
          /\ \A i \in 1 .. Len(x) + Len(y) : (x \o y)[i] = IF i <= Len(x) THEN x[i] ELSE y[i - Len(x)]
      BY <2>1, <2>2, ConcatProperties
    <3>2. \A i \in 1 .. 2 : i \in 1 .. Len(x) + Len(y) /\ i <= Len(x)
      BY <1>1, <1>4, <2>1, <2>2
    <3> QED
      BY <1>1, <2>1, <2>2, <3>1, <3>2
  <2>6. Digits(t) = x \o y
    BY <2>3, <2>4
  <2> QED
    BY <1>1, <1>4, <2>1, <2>5, <2>6
<1>5. Len(t) <= 2 \/ Len(t) > 2
  BY <1>1
<1> QED
  BY <1>3, <1>4, <1>5

(* A group with the delimiter after it is deleted from an expiration.      *)
MonthDeleted(s, start, inserted) == inserted = 0 /\ start = 2 /\ Len(s) = 2

(* What the watcher of the expiration makes of the text s.                 *)
LEMMA ExpirationOutcome ==
  ASSUME NEW s \in Seq(Symbol), NEW start \in Nat, NEW inserted \in Nat,
         inserted = 0 /\ start = Len(s) /\ start \in {2, 3}
           => Len(Digits(s)) = 2 /\ Digits(s)[1] \in {0, 1}
  PROVE  LET t == ExpirationChanged(s, start, inserted)
             digits == IF MonthDeleted(s, start, inserted) THEN Front(Digits(s)) ELSE Digits(s)
         IN  /\ Shaped(t)
             /\ digits \in Seq(Digit)
             /\ Digits(t) = FourOf(digits) \/ Digits(t) = FourOf(<<0>> \o digits)
             /\ ~MonthDeleted(s, start, inserted) /\ Digits(s) # <<>> /\ Digits(s)[1] \in {0, 1}
                  => Digits(t) = FourOf(Digits(s))
<1> DEFINE t == ExpirationChanged(s, start, inserted)
           typed == Digits(s)
           zero == IF typed = <<>> \/ Head(typed) > 1 THEN <<0>> ELSE <<>>
           d == FourOf(zero \o typed)
           skipped == inserted = 0 /\ start = Len(s) /\ start \in {2, 3}
           built == IF Len(d) < 2 \/ skipped THEN d
                    ELSE SubSeq(d, 1, 2) \o <<Delimiter>> \o SubSeq(d, 3, Len(d))
<1>1. typed \in Seq(Digit) /\ Len(typed) \in Nat /\ Len(s) \in Nat
  BY DigitsType
<1>2. CASE ExpirationCorrect(s, start, inserted)
  <2>1. t = s
    BY <1>2 DEF ExpirationChanged
  <2>2. Shaped(s)
    BY <1>2 DEF Shaped, ExpirationCorrect, DELIMITER_INDEX, TOTAL_MAX_SYMBOLS
  <2>3. ~MonthDeleted(s, start, inserted)
    BY <1>2 DEF MonthDeleted, ExpirationCorrect
  <2>4. Len(typed) <= 4
    BY <1>1, <2>2, ShapedDigits DEF Shaped, TOTAL_MAX_SYMBOLS
  <2>5. FourOf(typed) = typed
    BY <1>1, <2>4, FourOfType
  <2> HIDE DEF t
  <2> QED
    BY <1>1, <2>1, <2>2, <2>3, <2>5 DEF t
<1>3. CASE ~ExpirationCorrect(s, start, inserted)
  <2>1. t = IF Len(built) = 2 /\ start = 2 /\ inserted = 0 THEN Front(built) ELSE built
    BY <1>3, Zenon DEF ExpirationChanged, ExpirationBuilt, FourOf
  <2> HIDE DEF t, built
  <2>2. zero \in Seq(Digit)
    <3>1. 0 \in Digit
      BY DEF Digit
    <3> QED
      BY <3>1
  <2>3. zero = <<0>> \/ (zero = <<>> /\ typed # <<>> /\ typed[1] \in {0, 1})
    <3> SUFFICES ASSUME typed # <<>>, ~(Head(typed) > 1)
                 PROVE  typed[1] \in {0, 1}
      OBVIOUS
    <3>1. Head(typed) = typed[1] /\ typed[1] \in Digit
      BY <1>1
    <3> QED
      BY <3>1 DEF Digit
  <2>4. typed # <<>> /\ typed[1] \in {0, 1} => zero = <<>>
    <3>1. typed # <<>> => Head(typed) = typed[1]
      BY <1>1
    <3> QED
      BY <3>1
  <2> HIDE DEF zero
  <2>5. zero \o typed \in Seq(Digit) /\ (zero = <<>> => zero \o typed = typed)
    BY <1>1, <2>2, ConcatProperties, ConcatEmptySeq
  <2>6. d \in Seq(Digit) /\ Len(d) \in Nat /\ Len(d) <= 4
    <3>1. FourOf(zero \o typed) \in Seq(Digit) /\ Len(FourOf(zero \o typed)) <= 4
      BY <2>5, FourOfType
    <3>2. FourOf(zero \o typed) \in Seq(Digit) => Len(FourOf(zero \o typed)) \in Nat
      OBVIOUS
    <3> QED
      BY <3>1, <3>2
  <2>7. d # <<>> /\ d[1] \in {0, 1}
    <3>1. Len(zero \o typed) >= 1 /\ (zero \o typed)[1] \in {0, 1}
      <4>1. CASE zero = <<0>>
        <5>1. /\ Len(<<0>> \o typed) = 1 + Len(typed)
              /\ (<<0>> \o typed)[1] = 0
          <6>1. <<0>> \in Seq(Digit) /\ Len(<<0>>) = 1 /\ <<0>>[1] = 0
            BY <2>2, <4>1
          <6>2. /\ Len(<<0>> \o typed) = Len(<<0>>) + Len(typed)
                /\ \A i \in 1 .. Len(<<0>>) + Len(typed) :
                     (<<0>> \o typed)[i] = IF i <= Len(<<0>>) THEN <<0>>[i] ELSE typed[i - Len(<<0>>)]
            BY <1>1, <6>1, ConcatProperties
          <6>3. 1 \in 1 .. Len(<<0>>) + Len(typed) /\ 1 <= Len(<<0>>)
            BY <1>1, <6>1
          <6> QED
            BY <6>1, <6>2, <6>3
        <5> QED
          BY <1>1, <4>1, <5>1
      <4>2. CASE zero # <<0>>
        <5>1. zero \o typed = typed /\ typed # <<>> /\ typed[1] \in {0, 1}
          BY <2>3, <2>5, <4>2
        <5>2. Len(typed) >= 1
          BY <1>1, <5>1
        <5> QED
          BY <5>1, <5>2
      <4> QED
        BY <4>1, <4>2
    <3>2. Len(d) >= 1 /\ d[1] = (zero \o typed)[1]
      <4> DEFINE e == zero \o typed
      <4>1. e \in Seq(Digit) /\ Len(e) \in Nat /\ Len(e) >= 1
        BY <2>5, <3>1
      <4> HIDE DEF e
      <4>2. /\ Len(FourOf(e)) = IF Len(e) < 4 THEN Len(e) ELSE 4
            /\ \A i \in 1 .. Len(FourOf(e)) : FourOf(e)[i] = e[i]
        BY <4>1, FourOfType
      <4>3. Len(FourOf(e)) \in Nat /\ Len(FourOf(e)) >= 1
        BY <4>1, <4>2
      <4>4. FourOf(e)[1] = e[1]
        BY <4>2, <4>3
      <4> QED
        BY <4>3, <4>4 DEF e
    <3> QED
      BY <3>1, <3>2
  <2>8. skipped => zero = <<>> /\ d = typed /\ Len(d) = 2
    <3> SUFFICES ASSUME skipped
                 PROVE  zero = <<>> /\ d = typed /\ Len(d) = 2
      OBVIOUS
    <3>1. Len(typed) = 2 /\ typed[1] \in {0, 1}
      OBVIOUS
    <3>2. typed # <<>>
      BY <3>1
    <3>3. zero = <<>>
      BY <2>4, <3>1, <3>2
    <3>4. d = typed
      BY <1>1, <2>5, <3>1, <3>3, FourOfType
    <3> QED
      BY <3>1, <3>3, <3>4
  <2> HIDE DEF d
  <2>9. CASE MonthDeleted(s, start, inserted)
    <3>1. skipped /\ start = 2 /\ inserted = 0
      BY <2>9 DEF MonthDeleted
    <3>2. built = typed /\ Len(typed) = 2 /\ typed[1] \in {0, 1}
      BY <2>7, <2>8, <3>1 DEF built
    <3>3. t = Front(typed)
      BY <2>1, <3>1, <3>2
    <3>4. /\ Front(typed) \in Seq(Digit) /\ Len(Front(typed)) = 1
          /\ Front(typed)[1] = typed[1]
      <4>1. Front(typed) = SubSeq(typed, 1, 1)
        BY <3>2 DEF Front
      <4>2. typed[1] \in Digit
        <5>1. 1 \in 1 .. Len(typed)
          BY <3>2
        <5> HIDE DEF typed
        <5> QED
          BY <1>1, <5>1, ElementOfSeq
      <4> QED
        BY <1>1, <3>2, <4>1, <4>2
    <3>5. Digits(t) = t
      BY <3>3, <3>4, DigitsOnly
    <3>6. FourOf(Front(typed)) = Front(typed)
      BY <3>4, FourOfType
    <3>7. Shaped(t)
      <4>1. t \in Seq(Symbol) /\ Len(t) = 1 /\ DOMAIN t = 1 .. 1 /\ t[1] = typed[1]
        BY <3>3, <3>4 DEF Symbol
      <4>2. t[1] # Delimiter
        BY <3>2, <4>1 DEF Delimiter
      <4> QED
        BY <3>2, <4>1, <4>2 DEF Shaped, TOTAL_MAX_SYMBOLS
    <3> QED
      BY <2>9, <3>3, <3>4, <3>5, <3>6, <3>7 DEF t
  <2>10. CASE ~MonthDeleted(s, start, inserted)
    <3>1. t = built
      <4>0. SUFFICES ASSUME Len(built) = 2, start = 2, inserted = 0
                   PROVE  FALSE
        BY <2>1
      <4>1. CASE skipped
        BY <2>10, <4>0, <4>1 DEF MonthDeleted
      <4>2. CASE ~skipped
        <5>1. CASE Len(d) < 2
          <6>1. built = d
            BY <5>1 DEF built
          <6>2. Len(d) = 2
            BY <4>0, <6>1, Zenon
          <6> QED
            BY <5>1, <6>2
        <5>2. CASE Len(d) >= 2
          <6>1. built = SubSeq(d, 1, 2) \o <<Delimiter>> \o SubSeq(d, 3, Len(d))
            BY <2>6, <4>2, <5>2 DEF built
          <6> DEFINE x == SubSeq(d, 1, 2)
                     y == SubSeq(d, 3, Len(d))
          <6>2. x \in Seq(Digit) /\ Len(x) = 2
            BY <2>6, <5>2
          <6>3. y \in Seq(Digit)
            BY <2>6, <5>2
          <6> HIDE DEF x, y
          <6>4. Len(built) = Len(x) + 1 + Len(y)
            BY <6>1, <6>2, <6>3, DelimitedDigits DEF x, y
          <6>5. Len(y) \in Nat
            BY <6>3
          <6>6. 2 = 2 + 1 + Len(y)
            BY <4>0, <6>2, <6>4, Zenon
          <6> QED
            BY <6>5, <6>6
        <5>3. Len(d) < 2 \/ Len(d) >= 2
          BY <2>6
        <5> QED
          BY <5>1, <5>2, <5>3
      <4> QED
        BY <4>1, <4>2
    <3>2. Shaped(built) /\ Digits(built) = d
      <4>1. CASE Len(d) < 2 \/ skipped
        <5>1. built = d /\ Len(d) <= 2
          BY <2>6, <2>8, <4>1 DEF built
        <5>2. Digits(d) = d
          BY <2>6, DigitsOnly
        <5>3. \A i \in DOMAIN d : i # 3 /\ d[i] # Delimiter
          BY <2>6, <5>1, ElementOfSeq DEF Digit, Delimiter
        <5>4. d \in Seq(Symbol)
          BY <2>6 DEF Symbol
        <5> QED
          BY <2>6, <2>7, <5>1, <5>2, <5>3, <5>4 DEF Shaped, TOTAL_MAX_SYMBOLS
      <4>2. CASE ~(Len(d) < 2 \/ skipped)
        <5> DEFINE x == SubSeq(d, 1, 2)
                   y == SubSeq(d, 3, Len(d))
        <5>1. built = x \o <<Delimiter>> \o y
          BY <4>2 DEF built
        <5>0. Len(d) >= 2 /\ \A i \in 1 .. Len(d) : d[i] \in Digit
          BY <2>6, <4>2, ElementOfSeq
        <5>2. /\ x \in Seq(Digit) /\ Len(x) = 2 /\ x[1] = d[1]
              /\ y \in Seq(Digit) /\ Len(y) = Len(d) - 2
          <6>1. \A i \in 1 .. 2 : d[i] \in Digit
            BY <2>6, <5>0
          <6>2. \A i \in 3 .. Len(d) : d[i] \in Digit
            BY <2>6, <5>0
          <6>3. x \in Seq(Digit) /\ Len(x) = 2 /\ x[1] = d[1]
            BY <6>1
          <6>4. y \in Seq(Digit) /\ Len(y) = Len(d) - 2
            <7>1. PICK m \in Nat : m = Len(d) /\ m >= 2
              BY <2>6, <5>0
            <7> QED
              BY <6>2, <7>1
          <6> QED
            BY <6>3, <6>4
        <5>3. x \o y = d
          <6>1. 1 \in 1 .. Len(d) + 1 /\ 2 \in 1 - 1 .. Len(d) /\ Len(d) \in 2 .. Len(d)
            BY <2>6, <4>2
          <6>2. SubSeq(d, 1, 2) \o SubSeq(d, 2 + 1, Len(d)) = SubSeq(d, 1, Len(d))
            BY <2>6, <6>1, ConcatAdjacentSubSeq
          <6>3. SubSeq(d, 1, Len(d)) = d
            BY <2>6, SubSeqFull
          <6> QED
            BY <6>2, <6>3
        <5> HIDE DEF x, y
        <5>4. /\ built \in Seq(Symbol)
              /\ Digits(built) = x \o y
              /\ Len(built) = Len(x) + 1 + Len(y)
              /\ \A i \in 1 .. Len(x) : built[i] = x[i]
              /\ built[Len(x) + 1] = Delimiter
              /\ \A i \in 1 .. Len(y) : built[Len(x) + 1 + i] = y[i]
          BY <5>1, <5>2, DelimitedDigits
        <5>5. Len(built) = Len(d) + 1 /\ Len(x) + 1 = 3
          BY <2>6, <5>2, <5>4
        <5>6. ASSUME NEW i \in 1 .. Len(built)
              PROVE  i = 3 <=> built[i] = Delimiter
          <6>1. CASE i <= 2
            <7>1. i \in 1 .. Len(x) /\ i # 3
              BY <5>2, <6>1
            <7>2. x[i] \in Digit
              BY <5>2, <7>1, ElementOfSeq
            <7> QED
              BY <5>4, <7>1, <7>2 DEF Digit, Delimiter
          <6>2. CASE i = 3
            BY <5>4, <5>5, <6>2
          <6>3. CASE i > 3
            <7>1. i - 3 \in 1 .. Len(y) /\ Len(x) + 1 + (i - 3) = i
              BY <2>6, <5>2, <5>5, <6>3
            <7>2. y[i - 3] \in Digit
              BY <5>2, <7>1, ElementOfSeq
            <7>3. built[i] = y[i - 3]
              BY <5>4, <7>1
            <7> QED
              BY <6>3, <7>2, <7>3 DEF Digit, Delimiter
          <6> QED
            BY <6>1, <6>2, <6>3
        <5>7. built[1] \in {0, 1}
          BY <2>7, <5>2, <5>4
        <5>8. DOMAIN built = 1 .. Len(built) /\ Len(built) <= 5
          BY <2>6, <5>4, <5>5
        <5> QED
          BY <5>3, <5>4, <5>6, <5>7, <5>8 DEF Shaped, TOTAL_MAX_SYMBOLS
      <4> QED
        BY <4>1, <4>2
    <3>3. d = FourOf(typed) \/ d = FourOf(<<0>> \o typed)
      BY <2>3, <2>5 DEF d
    <3>4. typed # <<>> /\ typed[1] \in {0, 1} => d = FourOf(typed)
      BY <2>4, <2>5 DEF d
    <3> QED
      BY <1>1, <2>10, <3>1, <3>2, <3>3, <3>4 DEF t
  <2> QED
    BY <2>9, <2>10
<1> QED
  BY <1>2, <1>3

-----------------------------------------------------------------------------
(* The inductive invariant, and the edits that keep it.                    *)

(* The digits before the cursor are some of the digits of the text.        *)
LEMMA AheadType ==
  ASSUME NEW s \in Seq(Symbol), NEW c \in Nat, c <= Len(s)
  PROVE  /\ Ahead(s, c) \in Nat
         /\ Ahead(s, c) <= Len(Digits(s))
         /\ c = Len(s) => Ahead(s, c) = Len(Digits(s))
<1> DEFINE x == SubSeq(s, 1, c)
           y == SubSeq(s, c + 1, Len(s))
<1>1. Len(s) \in Nat /\ \A i \in 1 .. Len(s) : s[i] \in Symbol
  BY ElementOfSeq
<1>2. x \in Seq(Symbol) /\ y \in Seq(Symbol)
  BY <1>1
<1>3. s = x \o y
  <2>1. 1 \in 1 .. Len(s) + 1 /\ c \in 1 - 1 .. Len(s) /\ Len(s) \in c .. Len(s)
    BY <1>1
  <2>2. SubSeq(s, 1, c) \o SubSeq(s, c + 1, Len(s)) = SubSeq(s, 1, Len(s))
    BY <2>1, ConcatAdjacentSubSeq
  <2>3. SubSeq(s, 1, Len(s)) = s
    BY SubSeqFull
  <2> QED
    BY <2>2, <2>3
<1>4. c = Len(s) => x = s
  BY SubSeqFull
<1> HIDE DEF x, y
<1>5. Digits(s) = Digits(x) \o Digits(y)
  BY <1>2, <1>3, DigitsConcat
<1>6. /\ Digits(x) \in Seq(Digit) /\ Len(Digits(x)) \in Nat
      /\ Digits(y) \in Seq(Digit) /\ Len(Digits(y)) \in Nat
  BY <1>2, DigitsType
<1>7. Len(Digits(s)) = Len(Digits(x)) + Len(Digits(y))
  BY <1>5, <1>6, ConcatProperties
<1>8. Ahead(s, c) = Len(Digits(x))
  BY DEF Ahead, x
<1> QED
  BY <1>4, <1>6, <1>7, <1>8

(* The positions of a brand are finitely many, and so are the delimiters   *)
(* before a cursor.                                                        *)
LEMMA FinitePlaces ==
  ASSUME NEW b, NEW s, NEW c \in Nat
  PROVE  /\ Cardinality({i \in 1 .. c : s[i] = Delimiter}) \in Nat
         /\ Cardinality({p \in getDelimiterPositions(b) : p < c}) \in Nat
<1>1. IsFiniteSet(1 .. c) /\ IsFiniteSet(0 .. 14)
  <2>1. 1 \in Int /\ 0 \in Int /\ 14 \in Int /\ c \in Int
    OBVIOUS
  <2> QED
    BY <2>1, FS_Interval, Zenon
<1>2. getDelimiterPositions(b) \subseteq 0 .. 14
  BY DEF getDelimiterPositions
<1>3. IsFiniteSet({i \in 1 .. c : s[i] = Delimiter})
  BY <1>1, FS_Subset
<1>4. {p \in getDelimiterPositions(b) : p < c} \subseteq 0 .. 14
  BY <1>2
<1>5. IsFiniteSet({p \in getDelimiterPositions(b) : p < c})
  BY <1>1, <1>4, FS_Subset
<1> QED
  BY <1>3, <1>5, FS_CardinalityType

(* The watcher selects a natural number.                                   *)
LEMMA CursorType ==
  ASSUME NEW s \in Seq(Symbol), NEW start, NEW inserted, NEW c \in Nat, NEW b,
         NumberChanged(s, start, inserted, c, b).text \in Seq(Symbol)
  PROVE  NumberChanged(s, start, inserted, c, b).cursor \in Nat
<1> DEFINE field == NumberChanged(s, start, inserted, c, b)
           before == Cardinality({i \in 1 .. c : s[i] = Delimiter})
           now2 == Cardinality({p \in getDelimiterPositions(b) : p < c})
           built == buildCorrectString(s, start, inserted, b)
<1>1. CASE isInputCorrect(s, start, inserted, b)
  <2>1. field.cursor = c
    BY <1>1 DEF NumberChanged
  <2> QED
    BY <2>1
<1>2. CASE ~isInputCorrect(s, start, inserted, b)
  <2>1. field = [text |-> built, cursor |-> getAdjustedCursorPosition(s, built, c, b)]
    BY <1>2, Zenon DEF NumberChanged
  <2> HIDE DEF field, built
  <2>2. field.text = built /\ field.cursor = getAdjustedCursorPosition(s, built, c, b)
    BY <2>1
  <2>3. getAdjustedCursorPosition(s, built, c, b)
          = IF c = Len(s) THEN Len(built) ELSE IF now2 > before THEN c + (now2 - before) ELSE c
    BY Zenon DEF getAdjustedCursorPosition
  <2>4. before \in Nat /\ now2 \in Nat
    BY FinitePlaces
  <2> HIDE DEF before, now2
  <2>5. field.text \in Seq(Symbol)
    BY DEF field
  <2>6. Len(built) \in Nat
    BY <2>2, <2>5
  <2>7. field.cursor \in Nat
    BY <2>2, <2>3, <2>4, <2>6
  <2> QED
    BY <2>7 DEF field
<1> QED
  BY <1>1, <1>2

(* The digits of an expiration are those that are meant, up to the limit.  *)
ExpirationInv ==
  /\ Shaped(text)
  /\ \/ Digits(text) = FourOf(meant.digits)
     \/ Digits(text) = FourOf(<<0>> \o meant.digits)

FieldInv ==
  /\ TypeInv
  /\ kind = "number" => NumberInv
  /\ kind = "expiration" => ExpirationInv

(* An edit of a number.                                                    *)
LEMMA NumberEdited ==
  ASSUME TypeInv, kind = "number",
         NEW s \in Seq(Symbol), NEW start \in Nat, start <= Len(s), NEW inserted \in Nat,
         NEW c \in Nat, NEW digits, NEW ahead \in Nat,
         inserted = 0 /\ start = Len(s) =>
           \A n \in getDelimiterPositions(detectWithDigits(Digits(s))) :
             start \in {n, n + 1}
               => Len(Digits(s)) <= DigitsWithin(n, detectWithDigits(Digits(s))),
         digits = IF GroupDeleted(s, start, inserted, detectWithDigits(Digits(s)))
                  THEN Front(Digits(s)) ELSE Digits(s),
         Edit(s, start, inserted, c, digits, ahead)
  PROVE  TypeInv' /\ NumberInv'
<1> DEFINE b == detectWithDigits(Digits(s))
           field == NumberChanged(s, start, inserted, c, b)
<1>1. /\ text' = field.text /\ cursor' = field.cursor
      /\ brand' = detectWithDigits(Digits(field.text))
      /\ restored' = FALSE
      /\ meant' = [digits |-> digits, ahead |-> ahead]
      /\ kind' = kind /\ now' = now
      /\ edits < MaxEdits /\ edits' = edits + 1
  BY DEF Edit, Changed
<1>2. /\ WellFormatted(field.text)
      /\ digits \in Seq(Digit)
      /\ Digits(field.text) = Kept(digits)
  BY NumberOutcome
<1>3. field.text \in Seq(Symbol)
  BY <1>2 DEF WellFormatted
<1>4. field.cursor \in Nat
  BY <1>3, CursorType
<1> HIDE DEF field, b
<1>5. TypeInv'
  <2>1. DateInv'
    BY <1>1 DEF TypeInv, DateInv
  <2>2. edits' \in 0 .. MaxEdits
    BY <1>1, FieldAssumption DEF TypeInv
  <2>3. brand' \in Brand \cup {"UNKNOWN"}
    BY <1>1, DetectType
  <2> QED
    BY <1>1, <1>2, <1>3, <1>4, <2>1, <2>2, <2>3 DEF TypeInv
<1>6. NumberInv'
  <2>1. meant.digits' = digits /\ DividedAs(brand)' = brand'
    BY <1>1 DEF DividedAs
  <2> QED
    BY <1>1, <1>2, <2>1 DEF NumberInv, WellFormatted
<1> QED
  BY <1>5, <1>6

(* An edit of an expiration.                                               *)
LEMMA ExpirationEdited ==
  ASSUME TypeInv, kind = "expiration",
         NEW s \in Seq(Symbol), NEW start \in Nat, NEW inserted \in Nat,
         NEW c \in Nat, NEW digits, NEW ahead \in Nat,
         inserted = 0 /\ start = Len(s) /\ start \in {2, 3}
           => Len(Digits(s)) = 2 /\ Digits(s)[1] \in {0, 1},
         digits = IF MonthDeleted(s, start, inserted) THEN Front(Digits(s)) ELSE Digits(s),
         Edit(s, start, inserted, c, digits, ahead)
  PROVE  TypeInv' /\ ExpirationInv'
<1> DEFINE t == ExpirationChanged(s, start, inserted)
<1>1. /\ text' = t /\ cursor' \in 0 .. Len(text') /\ brand' = brand
      /\ restored' = FALSE
      /\ meant' = [digits |-> digits, ahead |-> ahead]
      /\ kind' = kind /\ now' = now
      /\ edits < MaxEdits /\ edits' = edits + 1
  <2>1. kind # "number"
    OBVIOUS
  <2> QED
    BY <2>1 DEF Edit, Changed
<1>2. /\ Shaped(t)
      /\ digits \in Seq(Digit)
      /\ Digits(t) = FourOf(digits) \/ Digits(t) = FourOf(<<0>> \o digits)
  BY ExpirationOutcome
<1> HIDE DEF t
<1>3. TypeInv'
  <2>1. DateInv'
    BY <1>1 DEF TypeInv, DateInv
  <2>2. edits' \in 0 .. MaxEdits
    BY <1>1, FieldAssumption DEF TypeInv
  <2>3. text' \in Seq(Symbol)
    BY <1>1, <1>2 DEF Shaped
  <2>4. Len(text') \in Nat
    BY <2>3
  <2>5. cursor' \in Nat
    BY <1>1, <2>4
  <2> QED
    BY <1>1, <1>2, <2>1, <2>2, <2>3, <2>5 DEF TypeInv
<1>4. ExpirationInv'
  <2>1. meant.digits' = digits
    BY <1>1
  <2> QED
    BY <1>1, <1>2, <2>1 DEF ExpirationInv
<1> QED
  BY <1>3, <1>4

(* What is left of an expiration when its last symbol is deleted.          *)
LEMMA LastDeletedExpiration ==
  ASSUME NEW t, Shaped(t), NEW p \in 0 .. Len(t) - 1, p + 1 = Len(t)
  PROVE  LET s == RemoveAt(t, p + 1)
         IN  /\ Shaped(s)
             /\ p \in {2, 3} => Len(Digits(s)) = 2 /\ Digits(s)[1] \in {0, 1}
<1> DEFINE s == RemoveAt(t, p + 1)
<1>0. t \in Seq(Symbol) /\ Len(t) <= 5
  BY DEF Shaped, TOTAL_MAX_SYMBOLS
<1>1. Len(t) \in Nat /\ p \in Nat /\ DOMAIN t = 1 .. Len(t)
  BY <1>0
<1>2. s \in Seq(Symbol) /\ Len(s) = p /\ \A i \in 1 .. p : s[i] = t[i]
  <2>1. Len(t) - 1 = p
    BY <1>1
  <2> QED
    BY <1>0, <2>1, Removed
<1> HIDE DEF s
<1>3. DOMAIN s = 1 .. p
  BY <1>2
<1>4. \A i \in 1 .. p : i = 3 <=> s[i] = Delimiter
  <2> SUFFICES ASSUME NEW i \in 1 .. p
               PROVE  i = 3 <=> s[i] = Delimiter
    OBVIOUS
  <2>1. i \in DOMAIN t
    BY <1>1
  <2>2. i = 3 <=> t[i] = Delimiter
    BY <2>1 DEF Shaped
  <2> QED
    BY <1>2, <2>2
<1>5. ASSUME s # <<>>
      PROVE  s[1] \in {0, 1}
  <2>1. p >= 1
    BY <1>1, <1>2, <1>5
  <2>2. s[1] = t[1] /\ t # <<>>
    BY <1>1, <1>2, <2>1
  <2> QED
    BY <2>2 DEF Shaped
<1>6. Shaped(s)
  <2>1. Len(s) <= 5
    BY <1>0, <1>1, <1>2
  <2> QED
    BY <1>2, <1>3, <1>4, <1>5, <2>1 DEF Shaped, TOTAL_MAX_SYMBOLS
<1>7. ASSUME p \in {2, 3}
      PROVE  Len(Digits(s)) = 2 /\ Digits(s)[1] \in {0, 1}
  <2>1. /\ Len(Digits(s)) = IF Len(s) <= 2 THEN Len(s) ELSE Len(s) - 1
        /\ \A i \in 1 .. 2 : i <= Len(s) => Digits(s)[i] = s[i]
    BY <1>6, ShapedDigits
  <2>2. Len(Digits(s)) = 2
    BY <1>2, <1>7, <2>1
  <2>3. Digits(s)[1] = s[1]
    BY <1>2, <1>7, <2>1
  <2>4. s # <<>>
    BY <1>2, <1>7
  <2> QED
    BY <1>5, <2>2, <2>3, <2>4
<1> QED
  BY <1>6, <1>7 DEF s

(* Typing keeps the invariant.                                             *)
LEMMA TypedStep ==
  ASSUME FieldInv, NEW p \in 0 .. Len(text), NEW d \in Keys[kind], Typed(p, d)
  PROVE  FieldInv'
<1> DEFINE s == InsertAt(text, p + 1, d)
           ahead == Ahead(s, p + 1)
<1>1. TypeInv /\ kind \in Kinds /\ text \in Seq(Symbol)
  BY DEF FieldInv, TypeInv, DateInv
<1>2. d \in Digit
  BY <1>1, FieldAssumption
<1>3. s \in Seq(Symbol) /\ Len(s) = Len(text) + 1
  BY <1>1, <1>2, Inserted
<1>4. Len(text) \in Nat /\ p \in Nat /\ p + 1 \in Nat /\ p <= Len(s) /\ p + 1 <= Len(s)
  BY <1>1, <1>3
<1>5. Edit(s, p, 1, p + 1, Digits(s), Ahead(s, p + 1))
  BY Zenon DEF Typed
<1> HIDE DEF s
<1>6. ahead \in Nat
  BY <1>3, <1>4, AheadType
<1> HIDE DEF ahead
<1>7. Edit(s, p, 1, p + 1, Digits(s), ahead)
  BY <1>5 DEF ahead
<1>8. ASSUME kind = "number"
      PROVE  TypeInv' /\ NumberInv'
  <2>1. ~GroupDeleted(s, p, 1, detectWithDigits(Digits(s)))
    BY DEF GroupDeleted
  <2> QED
    BY <1>1, <1>3, <1>4, <1>6, <1>7, <1>8, <2>1, NumberEdited
<1>9. ASSUME kind = "expiration"
      PROVE  TypeInv' /\ ExpirationInv'
  <2>1. ~MonthDeleted(s, p, 1)
    BY DEF MonthDeleted
  <2> QED
    BY <1>1, <1>3, <1>4, <1>6, <1>7, <1>9, <2>1, ExpirationEdited
<1>10. kind \in {"number", "expiration"} /\ kind' = kind
  BY <1>1, <1>7, FieldAssumption DEF Edit
<1> QED
  BY <1>8, <1>9, <1>10 DEF FieldInv

(* The digits of a number that a deletion means are those that the watcher *)
(* is about to leave.                                                      *)
LEMMA DeletedNumber ==
  ASSUME TypeInv, NumberInv, kind = "number", NEW p \in 0 .. Len(text) - 1
  PROVE  LET s == RemoveAt(text, p + 1)
             b == detectWithDigits(Digits(s))
         IN  /\ p = Len(s) =>
                  \A n \in getDelimiterPositions(b) :
                    p \in {n, n + 1} => Len(Digits(s)) <= DigitsWithin(n, b)
             /\ (p = Len(s) /\ text[p + 1] = Delimiter /\ EndsGroup(s))
                  <=> GroupDeleted(s, p, 0, b)
<1> DEFINE s == RemoveAt(text, p + 1)
           b == detectWithDigits(Digits(s))
<1>1. text \in Seq(Symbol)
  BY DEF TypeInv
<1>2. s \in Seq(Symbol) /\ Len(s) = Len(text) - 1
  BY <1>1, Removed
<1>3. p = Len(s) <=> p + 1 = Len(text)
  BY <1>1, <1>2
<1>4. p = Len(s) => /\ \A n \in getDelimiterPositions(b) :
                         p \in {n, n + 1} => Len(Digits(s)) <= DigitsWithin(n, b)
                    /\ p \in getDelimiterPositions(b) =>
                         (text[p + 1] = Delimiter <=> Len(Digits(s)) = DigitsWithin(p, b))
  BY <1>3, LastDeleted
<1>5. EndsGroup(s) <=> Len(s) \in getDelimiterPositions(b)
  BY DEF EndsGroup
<1> QED
  BY <1>4, <1>5 DEF GroupDeleted

(* Deleting keeps the invariant.                                           *)
LEMMA DeletedStep ==
  ASSUME FieldInv, NEW p \in 0 .. Len(text) - 1, Deleted(p)
  PROVE  FieldInv'
<1> DEFINE s == RemoveAt(text, p + 1)
           digits == IF p = Len(s) /\ text[p + 1] = Delimiter /\ EndsGroup(s)
                     THEN Front(Digits(s)) ELSE Digits(s)
           ahead == IF Ahead(s, p) > Len(digits) THEN Len(digits) ELSE Ahead(s, p)
<1>1. TypeInv /\ kind \in Kinds /\ text \in Seq(Symbol)
  BY DEF FieldInv, TypeInv, DateInv
<1>2. s \in Seq(Symbol) /\ Len(s) = Len(text) - 1
  BY <1>1, Removed
<1>3. Len(text) \in Nat /\ p \in Nat /\ p <= Len(s) /\ (p = Len(s) <=> p + 1 = Len(text))
  BY <1>1, <1>2
<1>4. Edit(s, p, 0, p, digits, ahead)
  BY Zenon DEF Deleted
<1>5. kind \in {"number", "expiration"} /\ kind' = kind
  <2>1. kind' = kind
    BY <1>4 DEF Edit
  <2> QED
    BY <1>1, <2>1, FieldAssumption
<1>6. ASSUME kind = "number"
      PROVE  TypeInv' /\ NumberInv'
  <2> DEFINE b == detectWithDigits(Digits(s))
  <2>1. NumberInv
    BY <1>6 DEF FieldInv
  <2>2. p = Len(s) => \A n \in getDelimiterPositions(b) :
                        p \in {n, n + 1} => Len(Digits(s)) <= DigitsWithin(n, b)
    BY <1>1, <1>6, <2>1, DeletedNumber
  <2>4. (p = Len(s) /\ text[p + 1] = Delimiter /\ EndsGroup(s)) <=> GroupDeleted(s, p, 0, b)
    BY <1>1, <1>6, <2>1, DeletedNumber
  <2>5. digits = IF GroupDeleted(s, p, 0, b) THEN Front(Digits(s)) ELSE Digits(s)
    BY <2>4
  <2> HIDE DEF s
  <2>6. /\ Digits(s) \in Seq(Digit) /\ Len(Digits(s)) \in Nat
        /\ Ahead(s, p) \in Nat
    BY <1>2, <1>3, DigitsType, AheadType
  <2>7. ahead \in Nat
    <3>1. CASE GroupDeleted(s, p, 0, b)
      <4>1. Len(Digits(s)) = DigitsWithin(p, b) /\ p \in getDelimiterPositions(b)
        BY <3>1 DEF GroupDeleted
      <4>2. Len(Digits(s)) >= 4
        <5>1. DigitsWithin(p, b) \in 4 .. 12
          BY <1>3, <4>1, Layout
        <5> QED
          BY <4>1, <5>1
      <4>3. Front(Digits(s)) \in Seq(Digit)
        BY <2>6, <4>2, FrontDigits
      <4>4. Len(digits) \in Nat
        BY <2>5, <3>1, <4>3
      <4> QED
        BY <2>6, <4>4
    <3>2. CASE ~GroupDeleted(s, p, 0, b)
      <4>1. Len(digits) \in Nat
        BY <2>5, <2>6, <3>2
      <4> QED
        BY <2>6, <4>1
    <3> QED
      BY <3>1, <3>2
  <2> HIDE DEF digits, ahead
  <2> QED
    BY <1>1, <1>2, <1>3, <1>4, <1>6, <2>2, <2>5, <2>7, NumberEdited
<1>7. ASSUME kind = "expiration"
      PROVE  TypeInv' /\ ExpirationInv'
  <2>1. Shaped(text)
    BY <1>7 DEF FieldInv, ExpirationInv
  <2>2. p = Len(s) /\ p \in {2, 3} => Len(Digits(s)) = 2 /\ Digits(s)[1] \in {0, 1}
    BY <1>3, <2>1, LastDeletedExpiration
  <2>3. EndsGroup(s) <=> Len(s) = 2
    BY <1>7 DEF EndsGroup, DELIMITER_INDEX
  <2>4. p = 2 /\ Len(s) = 2 => text[p + 1] = Delimiter
    <3> SUFFICES ASSUME p = 2, Len(s) = 2
                 PROVE  text[3] = Delimiter
      OBVIOUS
    <3>1. 3 \in DOMAIN text
      BY <1>1, <1>3
    <3> QED
      BY <2>1, <3>1 DEF Shaped
  <2>5. (p = Len(s) /\ text[p + 1] = Delimiter /\ EndsGroup(s)) <=> MonthDeleted(s, p, 0)
    BY <2>3, <2>4 DEF MonthDeleted
  <2>6. digits = IF MonthDeleted(s, p, 0) THEN Front(Digits(s)) ELSE Digits(s)
    BY <2>5
  <2> HIDE DEF s
  <2>7. /\ Digits(s) \in Seq(Digit) /\ Len(Digits(s)) \in Nat
        /\ Ahead(s, p) \in Nat
    BY <1>2, <1>3, DigitsType, AheadType
  <2>8. ahead \in Nat
    <3>1. CASE MonthDeleted(s, p, 0)
      <4>1. Len(Digits(s)) = 2
        BY <2>2, <3>1 DEF MonthDeleted
      <4>2. Front(Digits(s)) \in Seq(Digit)
        <5> DEFINE e == Digits(s)
        <5>1. e \in Seq(Digit) /\ Len(e) = 2
          BY <2>7, <4>1
        <5> HIDE DEF e
        <5>2. Front(e) \in Seq(Digit)
          BY <5>1 DEF Front
        <5> QED
          BY <5>2 DEF e
      <4>3. Len(digits) \in Nat
        BY <2>6, <3>1, <4>2
      <4> QED
        BY <2>7, <4>3
    <3>2. CASE ~MonthDeleted(s, p, 0)
      <4>1. Len(digits) \in Nat
        BY <2>6, <2>7, <3>2
      <4> QED
        BY <2>7, <4>1
    <3> QED
      BY <3>1, <3>2
  <2> HIDE DEF digits, ahead
  <2> QED
    BY <1>1, <1>2, <1>3, <1>4, <1>7, <2>2, <2>6, <2>8, ExpirationEdited
<1> QED
  BY <1>5, <1>6, <1>7 DEF FieldInv

(* Digits that are put in at once.                                         *)
LEMMA PutStep ==
  ASSUME FieldInv, NEW s \in Seq(Digit), NEW c \in Nat, c <= Len(s),
         Edit(s, 0, Len(s), c, s, c)
  PROVE  FieldInv'
<1>1. TypeInv /\ kind \in Kinds
  BY DEF FieldInv, TypeInv, DateInv
<1>2. s \in Seq(Symbol) /\ Len(s) \in Nat /\ Digits(s) = s
  BY DigitsOnly DEF Symbol
<1>3. ASSUME kind = "number"
      PROVE  TypeInv' /\ NumberInv'
  <2>1. ~GroupDeleted(s, 0, Len(s), detectWithDigits(Digits(s)))
    BY DEF GroupDeleted, getDelimiterPositions
  <2>2. \A n \in getDelimiterPositions(detectWithDigits(Digits(s))) : 0 \notin {n, n + 1}
    BY DEF getDelimiterPositions
  <2> QED
    BY <1>1, <1>2, <1>3, <2>1, <2>2, NumberEdited
<1>4. ASSUME kind = "expiration"
      PROVE  TypeInv' /\ ExpirationInv'
  <2>1. ~MonthDeleted(s, 0, Len(s))
    BY DEF MonthDeleted
  <2> QED
    BY <1>1, <1>2, <1>4, <2>1, ExpirationEdited
<1>5. kind \in {"number", "expiration"} /\ kind' = kind
  BY <1>1, FieldAssumption DEF Edit
<1> QED
  BY <1>3, <1>4, <1>5 DEF FieldInv

(* Creating the screen again keeps the invariant: a text that is divided   *)
(* another way has the same digits.                                        *)
LEMMA RestoredStep ==
  ASSUME FieldInv, Restored
  PROVE  FieldInv'
<1>1. TypeInv /\ kind \in Kinds /\ text \in Seq(Symbol)
  BY DEF FieldInv, TypeInv, DateInv
<1>2. Len(text) \in Nat /\ Len(text) # 0 /\ Len(text) >= 0
  <2>1. text # <<>>
    BY DEF Restored
  <2> QED
    BY <1>1, <2>1
<1>3. /\ restored' = TRUE
      /\ cursor' = IF cursor <= Len(text') THEN cursor ELSE 0
      /\ kind' = kind /\ now' = now /\ edits' = edits /\ meant' = meant
  BY DEF Restored
<1>4. kind \in {"number", "expiration"}
  BY <1>1, FieldAssumption
<1>5. cursor' \in Nat
  BY <1>1, <1>3 DEF TypeInv
<1>6. ASSUME text' \in Seq(Symbol), brand' \in Brand \cup {"UNKNOWN"}
      PROVE  TypeInv'
  <2>1. DateInv'
    BY <1>1, <1>3 DEF TypeInv, DateInv
  <2> QED
    BY <1>1, <1>3, <1>5, <1>6, <2>1 DEF TypeInv
<1>7. ASSUME kind = "number"
      PROVE  TypeInv' /\ NumberInv'
  <2> DEFINE t == NumberChanged(text, 0, Len(text), 0, "UNKNOWN").text
  <2>1. text' = t /\ brand' = detectWithDigits(Digits(text'))
    BY <1>7 DEF Restored
  <2>2. ~GroupDeleted(text, 0, Len(text), "UNKNOWN")
    BY DEF GroupDeleted, getDelimiterPositions
  <2>3. /\ t \in Seq(Symbol)
        /\ Divided(t, "UNKNOWN")
        /\ Digits(t) = Limited(Digits(text), "UNKNOWN")
    BY <1>1, <1>2, <2>2, NumberFormatted
  <2> HIDE DEF t
  <2>4. NumberInv
    BY <1>7 DEF FieldInv
  <2>5. Digits(text) \in Seq(Digit) /\ Len(Digits(text)) \in Nat
    BY <1>1, DigitsType
  <2>6. Len(Digits(text)) <= numberLength("UNKNOWN")
    <3>1. numberLength("UNKNOWN") = 16 /\ numberLength(brand) \in 14 .. 16
      BY DEF numberLength
    <3>2. Len(Digits(text)) <= numberLength(brand)
      BY <2>4 DEF NumberInv
    <3> QED
      BY <2>5, <3>1, <3>2
  <2>7. Digits(t) = Digits(text)
    BY <2>3, <2>5, <2>6, LimitedType
  <2>8. Digits(text') = Digits(text) /\ brand' = brand
    BY <2>1, <2>4, <2>7 DEF NumberInv
  <2>9. DividedAs(brand)' = "UNKNOWN"
    BY <1>3 DEF DividedAs
  <2>10. NumberInv'
    BY <1>3, <2>1, <2>3, <2>4, <2>8, <2>9 DEF NumberInv
  <2>11. TypeInv'
    BY <1>1, <1>6, <2>1, <2>3, <2>8 DEF TypeInv
  <2> QED
    BY <2>10, <2>11
<1>8. ASSUME kind = "expiration"
      PROVE  TypeInv' /\ ExpirationInv'
  <2> DEFINE t == ExpirationChanged(text, 0, Len(text))
  <2>1. text' = t /\ brand' = brand
    <3>1. kind # "number"
      BY <1>8
    <3> QED
      BY <3>1 DEF Restored
  <2>2. Shaped(text) /\ (Digits(text) = FourOf(meant.digits) \/ Digits(text) = FourOf(<<0>> \o meant.digits))
    BY <1>8 DEF FieldInv, ExpirationInv
  <2>3. ~MonthDeleted(text, 0, Len(text))
    BY DEF MonthDeleted
  <2>4. /\ Digits(text) \in Seq(Digit)
        /\ Len(Digits(text)) = IF Len(text) <= 2 THEN Len(text) ELSE Len(text) - 1
        /\ \A i \in 1 .. 2 : i <= Len(text) => Digits(text)[i] = text[i]
    BY <2>2, ShapedDigits
  <2>5. Len(text) <= 5 /\ text[1] \in {0, 1}
    BY <1>2, <2>2 DEF Shaped, TOTAL_MAX_SYMBOLS
  <2>6. Digits(text) # <<>> /\ Digits(text)[1] \in {0, 1} /\ Len(Digits(text)) <= 4
    <3>1. Len(Digits(text)) \in Nat /\ Len(Digits(text)) >= 1 /\ Len(Digits(text)) <= 4
      BY <1>2, <2>4, <2>5
    <3>2. Digits(text)[1] = text[1]
      BY <1>2, <2>4
    <3> QED
      BY <2>4, <2>5, <3>1, <3>2
  <2>7. Shaped(t) /\ Digits(t) = FourOf(Digits(text))
    BY <1>1, <1>2, <2>3, <2>6, ExpirationOutcome
  <2> HIDE DEF t
  <2>8. FourOf(Digits(text)) = Digits(text)
    BY <2>4, <2>6, FourOfType
  <2>9. ExpirationInv'
    BY <1>3, <2>1, <2>2, <2>7, <2>8 DEF ExpirationInv
  <2>10. TypeInv'
    BY <1>1, <1>6, <2>1, <2>7 DEF TypeInv, Shaped
  <2> QED
    BY <2>9, <2>10
<1> QED
  BY <1>3, <1>4, <1>7, <1>8 DEF FieldInv

-----------------------------------------------------------------------------
(* What the text of a field is.                                            *)

(* An empty field satisfies the invariant.                                 *)
LEMMA FieldInit == Init => FieldInv
<1> SUFFICES ASSUME Init
             PROVE  FieldInv
  OBVIOUS
<1>1. /\ DateInv /\ text = <<>> /\ cursor = 0 /\ brand = "UNKNOWN" /\ restored = FALSE /\ edits = 0
      /\ meant.digits = <<>> /\ meant.ahead = 0
  BY DEF Init, DateInv
<1>2. <<>> \in Seq(Symbol) /\ <<>> \in Seq(Digit) /\ Len(<<>>) = 0
  OBVIOUS
<1>3. Digits(<<>>) = <<>>
  BY <1>2, DigitsOnly
<1>4. TypeInv
  <2>1. edits \in 0 .. MaxEdits
    BY <1>1, FieldAssumption
  <2>2. text \in Seq(Symbol) /\ meant.digits \in Seq(Digit)
    BY <1>1, <1>2
  <2>3. cursor \in Nat /\ meant.ahead \in Nat
    BY <1>1
  <2>4. restored \in BOOLEAN
    BY <1>1, Zenon
  <2> QED
    BY <1>1, <2>1, <2>2, <2>3, <2>4 DEF TypeInv
<1>5. detectWithDigits(<<>>) = "UNKNOWN"
  <2>1. ASSUME NEW x \in Brand, NEW lead \in Leading[x]
        PROVE  ~IsPrefix(lead, <<>>)
    <3>1. Len(lead) \in 1 .. 4
      BY LeadsAreShort
    <3> QED
      BY <1>2, <3>1 DEF IsPrefix
  <2>2. {x \in Brand : LedBy(<<>>, x)} = {}
    BY <2>1 DEF LedBy
  <2> QED
    BY <2>2, Zenon DEF detectWithDigits
<1>6. NumberInv
  <2>1. Divided(text, DividedAs(brand))
    BY <1>1 DEF Divided
  <2>2. numberLength("UNKNOWN") = 16
    BY DEF numberLength
  <2>3. Kept(<<>>) = <<>>
    <3>1. Len(<<>>) <= numberLength(detectWithDigits(<<>>))
      BY <1>2, <1>5, <2>2
    <3> QED
      BY <1>2, <3>1, LimitedType DEF Kept
  <2> QED
    BY <1>1, <1>2, <1>3, <1>5, <2>1, <2>2, <2>3 DEF NumberInv
<1>7. ExpirationInv
  <2>1. FourOf(<<>>) = <<>>
    <3>1. Len(<<>>) <= 4
      BY <1>2
    <3> QED
      BY <1>2, <3>1, FourOfType
  <2>2. Shaped(<<>>)
    BY <1>2 DEF Shaped, TOTAL_MAX_SYMBOLS
  <2> QED
    BY <1>1, <1>3, <2>1, <2>2 DEF ExpirationInv
<1> QED
  BY <1>4, <1>6, <1>7 DEF FieldInv

(* Every step keeps the invariant.                                         *)
LEMMA FieldStep == FieldInv /\ [Next]_vars => FieldInv'
<1> SUFFICES ASSUME FieldInv, [Next]_vars
             PROVE  FieldInv'
  OBVIOUS
<1>1. kind \in Kinds
  BY DEF FieldInv, TypeInv, DateInv
<1>2. ASSUME NEW p \in 0 .. Len(text), NEW d \in Keys[kind], Typed(p, d)
      PROVE  FieldInv'
  BY <1>2, TypedStep
<1>3. ASSUME NEW p \in 0 .. Len(text) - 1, Deleted(p)
      PROVE  FieldInv'
  BY <1>3, DeletedStep
<1>4. ASSUME NEW s \in Pieces[kind], Pasted(s)
      PROVE  FieldInv'
  <2>1. s \in Seq(Digit)
    BY <1>1, FieldAssumption
  <2>2. Len(s) \in Nat /\ Len(s) <= Len(s)
    BY <2>1
  <2>3. Edit(s, 0, Len(s), Len(s), s, Len(s))
    BY <1>4 DEF Pasted
  <2> QED
    BY <2>1, <2>2, <2>3, PutStep
<1>5. ASSUME NEW s \in Pieces[kind], Scanned(s)
      PROVE  FieldInv'
  <2>1. s \in Seq(Digit)
    BY <1>1, FieldAssumption
  <2>2. 0 \in Nat /\ 0 <= Len(s)
    BY <2>1
  <2>3. Edit(s, 0, Len(s), 0, s, 0)
    BY <1>5 DEF Scanned
  <2> QED
    BY <2>1, <2>2, <2>3, PutStep
<1>6. CASE Restored
  BY <1>6, RestoredStep
<1>7. CASE UNCHANGED vars
  <2>1. /\ kind' = kind /\ now' = now /\ text' = text /\ cursor' = cursor /\ brand' = brand
        /\ restored' = restored /\ edits' = edits /\ meant' = meant
    BY <1>7 DEF vars
  <2>2. TypeInv' <=> TypeInv
    BY <2>1 DEF TypeInv, DateInv
  <2>3. NumberInv' <=> NumberInv
    <3>1. DividedAs(brand)' = DividedAs(brand)
      BY <2>1 DEF DividedAs
    <3> QED
      BY <2>1, <3>1 DEF NumberInv
  <2>4. ExpirationInv' <=> ExpirationInv
    BY <2>1 DEF ExpirationInv
  <2> QED
    BY <2>1, <2>2, <2>3, <2>4 DEF FieldInv
<1> QED
  BY <1>2, <1>3, <1>4, <1>5, <1>6, <1>7 DEF Next

(* The inductive invariant: the digits of the text are those that are      *)
(* meant, up to the limit, and it is divided as they have it, or, once     *)
(* restored, as if they told no brand.                                     *)
THEOREM FieldInvariant == Spec => []FieldInv
BY FieldInit, FieldStep, PTL DEF Spec

(* The state of a field keeps its type, and the text is never longer than  *)
(* a number with its delimiters.                                           *)
THEOREM TypeOKHolds == Spec => []TypeOK
<1>1. FieldInv => TypeOK
  <2> SUFFICES ASSUME FieldInv
               PROVE  TypeOK
    OBVIOUS
  <2>1. TypeInv /\ kind \in {"number", "expiration"}
    BY FieldAssumption DEF FieldInv, TypeInv, DateInv
  <2>2. text \in Seq(Symbol) /\ Len(text) \in Nat
    BY <2>1 DEF TypeInv
  <2>3. Len(text) <= 19
    <3>1. CASE kind = "number"
      <4> DEFINE a == DividedAs(brand)
      <4>1. Divided(text, a) /\ Len(Digits(text)) <= numberLength(brand)
        BY <3>1 DEF FieldInv, NumberInv
      <4> HIDE DEF a
      <4>2. Len(Digits(text)) = DigitsWithin(Len(text), a)
        BY <2>2, <4>1, DividedDigits
      <4>3. numberLength(brand) \in 14 .. 16
        BY DEF numberLength
      <4>4. DigitsWithin(Len(text), a) <= 16
        <5>1. Len(Digits(text)) \in Nat
          BY <2>2, DigitsType
        <5> QED
          BY <4>1, <4>2, <4>3, <5>1
      <4> QED
        BY <2>2, <4>4 DEF DigitsWithin
    <3>2. CASE kind = "expiration"
      <4>1. Len(text) <= 5
        BY <3>2 DEF FieldInv, ExpirationInv, Shaped, TOTAL_MAX_SYMBOLS
      <4> QED
        BY <2>2, <4>1
    <3> QED
      BY <2>1, <3>1, <3>2
  <2> QED
    BY <2>1, <2>3 DEF TypeOK, TypeInv, DateInv, Symbol
<1> QED
  BY <1>1, FieldInvariant, PTL

(* The text always fits its own digits, also when the last change has made *)
(* another brand of them; restored, it is divided as one of no brand       *)
(* (isInputCorrect, buildCorrectString).                                   *)
THEOREM FormattedHolds == Spec => []Formatted
<1>1. FieldInv => Formatted
  <2> SUFFICES ASSUME FieldInv
               PROVE  Formatted
    OBVIOUS
  <2>1. TypeInv /\ kind \in {"number", "expiration"}
    BY FieldAssumption DEF FieldInv, TypeInv, DateInv
  <2>2. text \in Seq(Symbol) /\ Len(text) \in Nat
    BY <2>1 DEF TypeInv
  <2> DEFINE layout == DividedAs(brand)
  <2>3. ASSUME kind = "number"
        PROVE  /\ brand = detectWithDigits(Digits(text))
               /\ Divided(text, layout)
               /\ Len(text) <= LengthMax(layout)
               /\ Len(Digits(text)) <= numberLength(brand)
    <3>1. /\ brand = detectWithDigits(Digits(text))
          /\ Divided(text, layout)
          /\ Len(Digits(text)) <= numberLength(brand)
      BY <2>3 DEF FieldInv, NumberInv
    <3>2. numberLength(brand) <= numberLength(layout)
      BY DEF DividedAs, numberLength
    <3>3. /\ Len(Digits(text)) \in Nat
          /\ numberLength(brand) \in Nat /\ numberLength(layout) \in Nat
      BY <2>2, DigitsType DEF numberLength
    <3> HIDE DEF layout
    <3>4. Len(Digits(text)) = DigitsWithin(Len(text), layout)
      BY <2>2, <3>1, DividedDigits
    <3>5. DigitsWithin(Len(text), layout) <= numberLength(layout)
      BY <3>1, <3>2, <3>3, <3>4
    <3>6. Len(text) <= LengthMax(layout)
      BY <2>2, <3>5, Layout
    <3> QED
      BY <3>1, <3>6
  <2>4. ASSUME kind = "expiration"
        PROVE  Shaped(text)
    BY <2>4 DEF FieldInv, ExpirationInv
  <2> QED
    BY <2>1, <2>3, <2>4 DEF Formatted, Shaped, DividedAs
<1> QED
  BY <1>1, FieldInvariant, PTL

(* Formatting never loses, repeats or moves a digit, whatever is typed,    *)
(* deleted, pasted, scanned or restored (createDigitArray).                *)
THEOREM DigitsKeptHolds == Spec => []DigitsKept
<1>1. FieldInv => DigitsKept
  <2> SUFFICES ASSUME FieldInv
               PROVE  DigitsKept
    OBVIOUS
  <2>1. kind \in {"number", "expiration"}
    BY FieldAssumption DEF FieldInv, TypeInv, DateInv
  <2>2. ASSUME kind = "number"
        PROVE  DigitsKept
    <3>1. Digits(text) = Kept(meant.digits)
      BY <2>2 DEF FieldInv, NumberInv
    <3> QED
      BY <2>2, <3>1, Zenon DEF DigitsKept, Kept, Limited
  <2>3. ASSUME kind = "expiration"
        PROVE  DigitsKept
    <3>1. \/ Digits(text) = FourOf(meant.digits)
          \/ Digits(text) = FourOf(<<0>> \o meant.digits)
      BY <2>3 DEF FieldInv, ExpirationInv
    <3>2. kind # "number"
      BY <2>3
    <3> QED
      BY <2>3, <3>1, <3>2, Zenon DEF DigitsKept, FourOf
  <2> QED
    BY <2>1, <2>2, <2>3
<1> QED
  BY <1>1, FieldInvariant, PTL

(* A number that is accepted is accepted no more with a digit mistyped or  *)
(* two neighbours swapped, other than 0 and 9 (isLuhnValid).               *)
THEOREM MistypedIsRejectedHolds == Spec => []MistypedIsRejected
<1>1. FieldInv => MistypedIsRejected
  <2> SUFFICES ASSUME FieldInv
               PROVE  MistypedIsRejected
    OBVIOUS
  <2>1. text \in Seq(Symbol)
    BY DEF FieldInv, TypeInv
  <2> DEFINE digits == Digits(text)
  <2>2. digits \in Seq(Digit)
    BY <2>1, DigitsType
  <2> HIDE DEF digits
  <2>3. ASSUME NumberAccepted(digits), NEW i \in DOMAIN digits, NEW d \in Digit, d # digits[i]
        PROVE  ~NumberAccepted([digits EXCEPT ![i] = d])
    <3>1. i \in 1 .. Len(digits) /\ isLuhnValid(digits)
      BY <2>2, <2>3 DEF NumberAccepted
    <3>2. ~isLuhnValid([digits EXCEPT ![i] = d])
      BY <2>2, <2>3, <3>1, MistypedDigit
    <3> QED
      BY <3>2, Zenon DEF NumberAccepted
  <2>4. ASSUME NumberAccepted(digits), NEW i \in 1 .. Len(digits) - 1,
               digits[i] # digits[i + 1], {digits[i], digits[i + 1]} # {0, 9}
        PROVE  ~NumberAccepted([digits EXCEPT ![i] = digits[i + 1], ![i + 1] = digits[i]])
    <3>1. isLuhnValid(digits)
      BY <2>4 DEF NumberAccepted
    <3>2. ~isLuhnValid([digits EXCEPT ![i] = digits[i + 1], ![i + 1] = digits[i]])
      BY <2>2, <2>4, <3>1, SwappedDigits
    <3> QED
      BY <3>2, Zenon DEF NumberAccepted
  <2> QED
    BY <2>3, <2>4, Zenon DEF MistypedIsRejected, digits
<1> QED
  BY <1>1, FieldInvariant, PTL

-----------------------------------------------------------------------------
(* Where the cursor of a number is.                                        *)

(* More symbols have no fewer digits.                                      *)
LEMMA WithinGrows ==
  ASSUME NEW b, NEW m \in Nat, NEW n \in Nat, m <= n
  PROVE  DigitsWithin(m, b) <= DigitsWithin(n, b)
BY DEF DigitsWithin

(* The positions of a brand before a cursor.                               *)
Below(n, b) == {p \in getDelimiterPositions(b) : p < n}

(* How many positions, and how many delimiters, there are before a cursor. *)
LEMMA BelowCounted ==
  ASSUME NEW b, NEW n \in Nat
  PROVE  /\ Cardinality(Below(n, b)) \in Nat
         /\ Cardinality({i \in 1 .. n : i - 1 \in getDelimiterPositions(b)}) = Cardinality(Below(n, b))
         /\ Cardinality(Below(n + 1, b))
              = IF n \in getDelimiterPositions(b) THEN Cardinality(Below(n, b)) + 1
                ELSE Cardinality(Below(n, b))
         /\ n <= 4 => Cardinality(Below(n, b)) = 0
<1> DEFINE P == getDelimiterPositions(b)
           S == Below(n, b)
           T == {i \in 1 .. n : i - 1 \in P}
<1>1. P \subseteq 0 .. 14 /\ \A p \in P : p >= 4
  BY DEF getDelimiterPositions
<1> HIDE DEF P
<1>2. IsFiniteSet(0 .. 14)
  <2>1. 0 \in Int /\ 14 \in Int
    OBVIOUS
  <2> QED
    BY <2>1, FS_Interval, Zenon
<1>3. S = {p \in P : p < n}
  BY DEF Below, P
<1>4. S \subseteq 0 .. 14
  BY <1>1, <1>3
<1>5. IsFiniteSet(S) /\ Cardinality(S) \in Nat
  BY <1>2, <1>4, FS_Subset, FS_CardinalityType
<1> HIDE DEF S
<1>6. Cardinality(T) = Cardinality(S)
  <2> DEFINE f == [p \in S |-> p + 1]
  <2>1. f \in [S -> T]
    <3> SUFFICES ASSUME NEW p \in S
                 PROVE  p + 1 \in T
      OBVIOUS
    <3>1. p \in P /\ p \in 0 .. 14 /\ p < n
      BY <1>1, <1>3
    <3>2. (p + 1) - 1 = p /\ p + 1 \in 1 .. n
      BY <3>1
    <3> QED
      BY <3>1, <3>2
  <2>2. \A x, y \in S : f[x] = f[y] => x = y
    BY <1>1, <1>3
  <2>3. \A y \in T : \E x \in S : f[x] = y
    <3> SUFFICES ASSUME NEW y \in T
                 PROVE  \E x \in S : f[x] = y
      OBVIOUS
    <3>1. y - 1 \in S /\ (y - 1) + 1 = y
      BY <1>3
    <3> QED
      BY <3>1
  <2> HIDE DEF f, T
  <2>4. f \in Bijection(S, T)
    BY <2>1, <2>2, <2>3 DEF Bijection, Injection, Surjection, IsInjective
  <2>5. ExistsBijection(S, T)
    BY <2>4 DEF ExistsBijection
  <2> QED
    BY <1>5, <2>5, FS_Bijection
<1>7. Cardinality(Below(n + 1, b)) = IF n \in P THEN Cardinality(S) + 1 ELSE Cardinality(S)
  <2>1. n \notin S
    BY <1>3
  <2>2. ASSUME n \in P
        PROVE  Below(n + 1, b) = S \cup {n}
    BY <1>1, <1>3, <2>2 DEF Below, P
  <2>3. ASSUME n \notin P
        PROVE  Below(n + 1, b) = S
    BY <1>1, <1>3, <2>3 DEF Below, P
  <2>4. Cardinality(S \cup {n}) = Cardinality(S) + 1
    BY <1>5, <2>1, FS_AddElement
  <2> QED
    BY <2>2, <2>3, <2>4
<1>8. ASSUME n <= 4
      PROVE  Cardinality(S) = 0
  <2>1. ASSUME NEW p \in S
        PROVE  FALSE
    <3>1. p \in 0 .. 14 /\ p >= 4 /\ p < n
      BY <1>1, <1>3
    <3> QED
      BY <1>8, <3>1
  <2>2. S = {}
    BY <2>1
  <2> QED
    BY <2>2, FS_EmptySet
<1> QED
  BY <1>5, <1>6, <1>7, <1>8 DEF S, P

(* A place in a formatted text.                                            *)
LEMMA Placed ==
  ASSUME NEW b, NEW t \in Seq(Symbol), Divided(t, b), Len(t) \notin getDelimiterPositions(b),
         NEW n \in Nat, DigitsWithin(n, b) <= Len(Digits(t))
  PROVE  n <= Len(t) /\ Ahead(t, n) = DigitsWithin(n, b)
<1>1. Len(t) \in Nat /\ Len(Digits(t)) = DigitsWithin(Len(t), b)
  BY DividedDigits
<1>2. n <= Len(t)
  <2> SUFFICES ASSUME Len(t) < n
               PROVE  FALSE
    BY <1>1
  <2>1. DigitsWithin(Len(t) + 1, b) = DigitsWithin(Len(t), b) + 1 /\ DigitsWithin(Len(t), b) \in Nat
    BY <1>1, Layout
  <2>2. Len(t) + 1 \in Nat /\ Len(t) + 1 <= n
    BY <1>1
  <2>3. DigitsWithin(Len(t) + 1, b) <= DigitsWithin(n, b) /\ DigitsWithin(n, b) \in Nat
    BY <2>2, WithinGrows, Layout
  <2> QED
    BY <1>1, <2>1, <2>3
<1>3. Len(Digits(SubSeq(t, 1, n))) = DigitsWithin(n, b)
  BY <1>2, DividedBeginning
<1> QED
  BY <1>2, <1>3 DEF Ahead

(* Where the cursor is put, if not at the end.                             *)
Delimiters(s, c) == Cardinality({i \in 1 .. c : s[i] = Delimiter})

CursorTo(s, c, b) ==
  IF Cardinality(Below(c, b)) > Delimiters(s, c)
  THEN c + (Cardinality(Below(c, b)) - Delimiters(s, c)) ELSE c

(* The digits of a number that an edit means, and those before the cursor. *)
Intended(s, start, inserted, b) ==
  IF GroupDeleted(s, start, inserted, b) THEN Front(Digits(s)) ELSE Digits(s)

IntendedAhead(s, start, inserted, c, b) ==
  IF Ahead(s, c) > Len(Intended(s, start, inserted, b)) THEN Len(Intended(s, start, inserted, b))
  ELSE Ahead(s, c)

(* The cursor of the field is behind the digits that are meant to be       *)
(* before it, or at the end.                                               *)
Behind(field, ahead) ==
  /\ field.cursor <= Len(field.text)
  /\ \/ Ahead(field.text, field.cursor) = ahead
     \/ ahead > Len(Digits(field.text)) /\ field.cursor = Len(field.text)

(* The cursor is where it has to be after an edit, if there is a place     *)
(* for it there.                                                           *)
LEMMA CursorMoved ==
  ASSUME NEW s \in Seq(Symbol), NEW start \in Nat, start <= Len(s), NEW inserted \in Nat,
         NEW c \in Nat, c <= Len(s), NEW b,
         inserted = 0 /\ start = Len(s) =>
           \A n \in getDelimiterPositions(b) :
             start \in {n, n + 1} => Len(Digits(s)) <= DigitsWithin(n, b),
         c < Len(s) => inserted # 0 \/ start # Len(s),
         c < Len(s) => CursorTo(s, c, b) \in Nat,
         c < Len(s) => DigitsWithin(CursorTo(s, c, b), b) = Ahead(s, c),
         c < Len(s) => Ahead(s, c) <= numberLength(b)
  PROVE  Behind(NumberChanged(s, start, inserted, c, b), IntendedAhead(s, start, inserted, c, b))
<1> DEFINE field == NumberChanged(s, start, inserted, c, b)
           t == field.text
           deleted == GroupDeleted(s, start, inserted, b)
           digits == Intended(s, start, inserted, b)
           meantAhead == IntendedAhead(s, start, inserted, c, b)
           to == CursorTo(s, c, b)
<1>0. /\ digits = IF deleted THEN Front(Digits(s)) ELSE Digits(s)
      /\ meantAhead = IF Ahead(s, c) > Len(digits) THEN Len(digits) ELSE Ahead(s, c)
  BY Zenon DEF Intended, IntendedAhead
<1> HIDE DEF digits, meantAhead, to
<1> SUFFICES Behind(field, meantAhead)
  BY DEF meantAhead
<1>1. /\ t \in Seq(Symbol)
      /\ Divided(t, b)
      /\ Digits(t) = IF deleted THEN Front(Digits(s)) ELSE Limited(Digits(s), b)
      /\ \/ isInputCorrect(s, start, inserted, b) /\ t = s
         \/ /\ ~isInputCorrect(s, start, inserted, b)
            /\ inserted # 0 \/ start # Len(s) => Len(t) \notin getDelimiterPositions(b)
  BY NumberFormatted
<1>2. /\ Digits(s) \in Seq(Digit) /\ Len(Digits(s)) \in Nat
      /\ Len(s) \in Nat
      /\ Ahead(s, c) \in Nat /\ Ahead(s, c) <= Len(Digits(s))
      /\ c = Len(s) => Ahead(s, c) = Len(Digits(s))
  BY DigitsType, AheadType
<1>3. digits \in Seq(Digit) /\ Len(digits) \in Nat /\ Len(digits) <= Len(Digits(s))
  <2>1. CASE deleted
    <3>1. Len(Digits(s)) = DigitsWithin(start, b) /\ start \in getDelimiterPositions(b)
      BY <2>1 DEF GroupDeleted
    <3>2. DigitsWithin(start, b) \in 4 .. 12
      BY <3>1, Layout
    <3>3. Len(Digits(s)) >= 4
      BY <3>1, <3>2
    <3>4. Front(Digits(s)) \in Seq(Digit) /\ Len(Front(Digits(s))) = Len(Digits(s)) - 1
      BY <1>2, <3>3, FrontDigits
    <3> QED
      BY <1>0, <1>2, <2>1, <3>3, <3>4
  <2>2. CASE ~deleted
    BY <1>0, <1>2, <2>2
  <2> QED
    BY <2>1, <2>2
<1>4. CASE isInputCorrect(s, start, inserted, b)
  <2>1. field = [text |-> s, cursor |-> c]
    BY <1>4 DEF NumberChanged
  <2>2. field.text = s /\ field.cursor = c
    BY <2>1
  <2>3. ~deleted
    BY <1>4 DEF isInputCorrect, GroupDeleted
  <2>4. meantAhead = Ahead(s, c)
    BY <1>0, <1>2, <2>3
  <2>5. c <= Len(s)
    OBVIOUS
  <2> HIDE DEF field
  <2>6. field.cursor <= Len(field.text) /\ Ahead(field.text, field.cursor) = meantAhead
    BY <2>2, <2>4, <2>5
  <2> QED
    BY <2>6 DEF Behind
<1>5. CASE ~isInputCorrect(s, start, inserted, b)
  <2>1. /\ field.cursor = getAdjustedCursorPosition(s, t, c, b)
    <3> DEFINE built == buildCorrectString(s, start, inserted, b)
    <3>1. field = [text |-> built, cursor |-> getAdjustedCursorPosition(s, built, c, b)]
      BY <1>5, Zenon DEF NumberChanged
    <3> HIDE DEF field, built
    <3> QED
      BY <3>1
  <2> HIDE DEF field
  <2>2. field.cursor
          = IF c = Len(s) THEN Len(t) ELSE to
    BY <2>1, Zenon DEF getAdjustedCursorPosition, Below, CursorTo, Delimiters, to
  <2>3. CASE c = Len(s)
    <3>1. field.cursor = Len(t)
      BY <2>2, <2>3
    <3>2. Len(t) \in Nat /\ Ahead(t, Len(t)) = Len(Digits(t))
      BY <1>1, AheadType
    <3>3. meantAhead = Len(digits)
      BY <1>0, <1>2, <1>3, <2>3
    <3>4. Len(Digits(t)) \in Nat /\ Len(Digits(t)) <= Len(digits)
      <4>1. CASE deleted
        BY <1>0, <1>1, <1>3, <4>1
      <4>2. CASE ~deleted
        <5>1. Digits(t) = Limited(Digits(s), b) /\ digits = Digits(s)
          BY <1>0, <1>1, <4>2
        <5>2. Limited(Digits(s), b) \in Seq(Digit) /\ Len(Limited(Digits(s), b)) <= Len(Digits(s))
          BY <1>2, LimitedType
        <5>3. Digits(t) \in Seq(Digit)
          BY <5>1, <5>2
        <5>4. Len(Digits(t)) \in Nat
          BY <5>3
        <5> QED
          BY <5>1, <5>2, <5>4
      <4> QED
        BY <4>1, <4>2
    <3>5. Len(t) <= Len(t)
      BY <3>2
    <3>6. Ahead(t, Len(t)) = meantAhead \/ meantAhead > Len(Digits(t))
      BY <1>3, <3>2, <3>3, <3>4
    <3> QED
      BY <3>1, <3>2, <3>3, <3>4, <3>5, <3>6, <1>3 DEF Behind
  <2>4. CASE c < Len(s)
    <3>1. field.cursor = to
      BY <1>2, <2>2, <2>4
    <3>2. ~deleted /\ Len(t) \notin getDelimiterPositions(b)
      BY <1>1, <1>5, <2>4 DEF GroupDeleted
    <3>3. Digits(t) = Limited(Digits(s), b) /\ digits = Digits(s) /\ meantAhead = Ahead(s, c)
      BY <1>0, <1>1, <1>2, <3>2, <1>3
    <3>4. DigitsWithin(to, b) <= Len(Digits(t))
      <4>1. /\ Limited(Digits(s), b) \in Seq(Digit)
            /\ Len(Limited(Digits(s), b)) < numberLength(b) => Limited(Digits(s), b) = Digits(s)
        BY <1>2, LimitedType
      <4>2. numberLength(b) \in Nat
        BY DEF numberLength
      <4>3. Digits(t) \in Seq(Digit) /\ (Len(Digits(t)) < numberLength(b) => Digits(t) = Digits(s))
        BY <3>3, <4>1
      <4>4. Len(Digits(t)) \in Nat
        BY <4>3
      <4>5. DigitsWithin(to, b) = Ahead(s, c) /\ Ahead(s, c) <= numberLength(b)
        BY <2>4 DEF to
      <4> QED
        BY <1>2, <4>2, <4>3, <4>4, <4>5
    <3>5. to <= Len(t) /\ Ahead(t, to) = DigitsWithin(to, b)
      BY <1>1, <2>4, <3>2, <3>4, Placed DEF to
    <3>6. DigitsWithin(to, b) = Ahead(s, c)
      BY <2>4 DEF to
    <3> QED
      BY <3>1, <3>3, <3>5, <3>6 DEF Behind
  <2> QED
    BY <1>2, <2>3, <2>4
<1> QED
  BY <1>4, <1>5

(* What there is before a place that an edit leaves as it was, divided as  *)
(* the brand before the edit or after it.                                  *)
LEMMA BeginningKept ==
  ASSUME NEW q, NEW t \in Seq(Symbol), Divided(t, q), Len(Digits(t)) <= numberLength(q),
         q = detectWithDigits(Digits(t)),
         NEW s \in Seq(Symbol), NEW p \in Nat, p <= Len(t), p <= Len(s),
         \A i \in 1 .. p : s[i] = t[i]
  PROVE  LET b == detectWithDigits(Digits(s))
         IN  /\ SubSeq(s, 1, p) \in Seq(Symbol)
             /\ Ahead(s, p) = DigitsWithin(p, b)
             /\ DigitsWithin(p, b) <= numberLength(b)
             /\ p < Len(t) => DigitsWithin(p, b) < numberLength(b)
             /\ Cardinality({i \in 1 .. p : s[i] = Delimiter}) = Cardinality(Below(p, b))
<1> DEFINE b == detectWithDigits(Digits(s))
           x == SubSeq(s, 1, p)
<1>1. /\ Len(t) \in Nat /\ Len(s) \in Nat
      /\ Len(Digits(t)) = DigitsWithin(Len(t), q)
      /\ DOMAIN t = 1 .. Len(t)
  BY DividedDigits
<1>2. x \in Seq(Symbol) /\ Len(Digits(x)) = DigitsWithin(p, q)
  BY DividedBeginning
<1>3. Ahead(s, p) = DigitsWithin(p, q)
  BY <1>2 DEF Ahead
<1>4. p >= 4 => b = q
  <2> SUFFICES ASSUME p >= 4
               PROVE  detectWithDigits(Digits(s)) = detectWithDigits(Digits(t))
    OBVIOUS
  <2>1. Len(s) >= 4 /\ Len(t) >= 4 /\ \A i \in 1 .. 4 : s[i] = t[i]
    BY <1>1
  <2> QED
    BY <2>1, SameBeginning
<1> HIDE DEF b
<1>5. DigitsWithin(p, q) = DigitsWithin(p, b)
  <2>1. CASE p >= 4
    BY <1>4, <2>1
  <2>2. CASE p < 4
    BY <2>2 DEF DigitsWithin
  <2> QED
    BY <2>1, <2>2
<1>6. DigitsWithin(p, b) <= numberLength(b) /\ (p < Len(t) => DigitsWithin(p, b) < numberLength(b))
  <2>1. numberLength(b) \in 14 .. 16
    BY DEF numberLength
  <2>2. CASE p < 4
    <3>1. DigitsWithin(p, b) = p
      BY <2>2 DEF DigitsWithin
    <3> QED
      BY <2>1, <2>2, <3>1
  <2>3. CASE p >= 4
    <3>1. b = q
      BY <1>4, <2>3
    <3>2. /\ DigitsWithin(p, q) \in Nat /\ DigitsWithin(Len(t), q) \in Nat
          /\ DigitsWithin(p + 1, q)
               = IF p \in getDelimiterPositions(q) THEN DigitsWithin(p, q) ELSE DigitsWithin(p, q) + 1
          /\ p \in getDelimiterPositions(q) => DigitsWithin(p, q) < numberLength(q)
      BY <1>1, Layout
    <3>3. DigitsWithin(p, q) <= DigitsWithin(Len(t), q)
      BY <1>1, WithinGrows
    <3>4. p < Len(t) => DigitsWithin(p + 1, q) <= DigitsWithin(Len(t), q)
      <4> SUFFICES ASSUME p < Len(t)
                   PROVE  DigitsWithin(p + 1, q) <= DigitsWithin(Len(t), q)
        OBVIOUS
      <4>1. p + 1 \in Nat /\ p + 1 <= Len(t)
        BY <1>1
      <4> QED
        BY <1>1, <4>1, WithinGrows
    <3>5. DigitsWithin(Len(t), q) <= numberLength(q) /\ numberLength(q) \in Nat
      BY <1>1, <2>1, <3>1
    <3> QED
      BY <3>1, <3>2, <3>3, <3>4, <3>5
  <2> QED
    BY <2>2, <2>3
<1>7. Cardinality({i \in 1 .. p : s[i] = Delimiter}) = Cardinality(Below(p, b))
  <2>1. {i \in 1 .. p : s[i] = Delimiter} = {i \in 1 .. p : i - 1 \in getDelimiterPositions(q)}
    <3>1. ASSUME NEW i \in 1 .. p
          PROVE  s[i] = Delimiter <=> i - 1 \in getDelimiterPositions(q)
      <4>1. i \in DOMAIN t /\ s[i] = t[i]
        BY <1>1
      <4> QED
        BY <4>1 DEF Divided
    <3> QED
      BY <3>1
  <2>2. Cardinality({i \in 1 .. p : s[i] = Delimiter}) = Cardinality(Below(p, q))
    BY <2>1, BelowCounted
  <2>3. CASE p >= 4
    BY <1>4, <2>2, <2>3
  <2>4. CASE p < 4
    <3>1. p <= 4
      BY <2>4
    <3>2. Cardinality(Below(p, q)) = 0 /\ Cardinality(Below(p, b)) = 0
      BY <3>1, BelowCounted
    <3> QED
      BY <2>2, <3>2
  <2> QED
    BY <2>3, <2>4
<1> QED
  BY <1>2, <1>3, <1>5, <1>6, <1>7 DEF b, x

(* What CursorKept says of a step of a number that is divided right.       *)
CursorStays ==
  /\ ~Crashed'
  /\ \/ Ahead(text', cursor') = meant'.ahead
     \/ meant'.ahead > Len(Digits(text')) /\ cursor' = Len(text')

(* A cursor that is behind the digits that are meant is kept.              *)
LEMMA CursorEdited ==
  ASSUME kind = "number",
         NEW s \in Seq(Symbol), NEW start \in Nat, start <= Len(s), NEW inserted \in Nat,
         NEW c \in Nat, NEW digits,
         LET b == detectWithDigits(Digits(s))
         IN  /\ inserted = 0 /\ start = Len(s) =>
                  \A n \in getDelimiterPositions(b) :
                    start \in {n, n + 1} => Len(Digits(s)) <= DigitsWithin(n, b)
             /\ Edit(s, start, inserted, c, digits, IntendedAhead(s, start, inserted, c, b))
             /\ Behind(NumberChanged(s, start, inserted, c, b),
                       IntendedAhead(s, start, inserted, c, b))
  PROVE  CursorStays
<1> DEFINE b == detectWithDigits(Digits(s))
           field == NumberChanged(s, start, inserted, c, b)
           ahead == IntendedAhead(s, start, inserted, c, b)
<1>1. Edit(s, start, inserted, c, digits, ahead) /\ Behind(field, ahead)
  OBVIOUS
<1>2. field.text \in Seq(Symbol)
  BY NumberFormatted
<1>3. field.cursor \in Nat
  BY <1>2, CursorType
<1> HIDE DEF ahead
<1>4. text' = field.text /\ cursor' = field.cursor /\ meant'.ahead = ahead
  BY <1>1 DEF Edit, Changed
<1> HIDE DEF field, b
<1>5. ~Crashed'
  <2>1. Len(field.text) \in Nat
    BY <1>2
  <2> QED
    BY <1>1, <1>3, <1>4, <2>1 DEF Crashed, Behind
<1> QED
  BY <1>1, <1>4, <1>5 DEF CursorStays, Behind

(* Typing keeps the cursor behind the digit that was typed.                *)
LEMMA TypedCursor ==
  ASSUME FieldInv, kind = "number", Divided(text, brand),
         NEW p \in 0 .. Len(text), NEW d \in Keys[kind], Typed(p, d)
  PROVE  CursorStays
<1> DEFINE s == InsertAt(text, p + 1, d)
           b == detectWithDigits(Digits(s))
           P == getDelimiterPositions(b)
           before == Delimiters(s, p + 1)
           to == IF p \in P THEN p + 2 ELSE p + 1
<1>1. TypeInv /\ kind \in Kinds /\ text \in Seq(Symbol) /\ NumberInv
  BY DEF FieldInv, TypeInv, DateInv
<1>2. d \in Digit
  BY <1>1, FieldAssumption
<1>3. s \in Seq(Symbol) /\ Len(s) = Len(text) + 1 /\ s[p + 1] = d /\ \A i \in 1 .. p : s[i] = text[i]
  BY <1>1, <1>2, Inserted
<1>4. Len(text) \in Nat /\ p \in Nat /\ p + 1 \in Nat /\ p <= Len(s) /\ p + 1 <= Len(s) /\ p <= Len(text)
  BY <1>1, <1>3
<1>5. Edit(s, p, 1, p + 1, Digits(s), Ahead(s, p + 1))
  BY Zenon DEF Typed
<1>6. /\ Divided(text, brand) /\ Len(Digits(text)) <= numberLength(brand)
      /\ brand = detectWithDigits(Digits(text))
  BY <1>1 DEF NumberInv
<1> HIDE DEF s
<1>7. /\ SubSeq(s, 1, p) \in Seq(Symbol)
      /\ Ahead(s, p) = DigitsWithin(p, b)
      /\ p < Len(text) => DigitsWithin(p, b) < numberLength(b)
      /\ Cardinality({i \in 1 .. p : s[i] = Delimiter}) = Cardinality(Below(p, b))
  BY <1>1, <1>3, <1>4, <1>6, BeginningKept
<1>8. Ahead(s, p + 1) = DigitsWithin(p, b) + 1
  <2> DEFINE x == SubSeq(s, 1, p)
             z == SubSeq(s, 1, p + 1)
  <2>1. \A i \in 1 .. Len(s) : s[i] \in Symbol
    BY <1>3, ElementOfSeq
  <2>2. z = Append(x, d)
    <3>1. x \in Seq(Symbol) /\ Len(x) = p /\ \A i \in 1 .. p : x[i] = s[i]
      BY <1>3, <1>4, <2>1
    <3>2. z \in Seq(Symbol) /\ Len(z) = p + 1 /\ \A i \in 1 .. p + 1 : z[i] = s[i]
      BY <1>3, <1>4, <2>1
    <3> HIDE DEF x, z
    <3>3. d \in Symbol
      BY <1>2 DEF Symbol
    <3>4. /\ Append(x, d) \in Seq(Symbol) /\ Len(Append(x, d)) = p + 1
          /\ \A i \in 1 .. p : Append(x, d)[i] = x[i]
          /\ Append(x, d)[p + 1] = d
      BY <3>1, <3>3, AppendProperties
    <3>5. ASSUME NEW i \in 1 .. p + 1
          PROVE  z[i] = Append(x, d)[i]
      <4>1. CASE i = p + 1
        BY <1>3, <3>2, <3>4, <4>1
      <4>2. CASE i # p + 1
        <5>1. i \in 1 .. p
          BY <1>4, <4>2
        <5> QED
          BY <3>1, <3>2, <3>4, <5>1
      <4> QED
        BY <4>1, <4>2
    <3> QED
      BY <3>2, <3>4, <3>5, SeqEqual
  <2> HIDE DEF x, z
  <2>3. x \in Seq(Symbol) /\ d \in Symbol /\ d # Delimiter
    BY <1>2, <1>7 DEF x, Symbol, Digit, Delimiter
  <2>4. Digits(z) = Append(Digits(x), d)
    BY <2>2, <2>3, DigitsAppend
  <2>5. Len(Digits(z)) = Len(Digits(x)) + 1
    <3>1. Digits(x) \in Seq(Digit)
      BY <2>3, DigitsType
    <3> QED
      BY <1>2, <2>4, <3>1
  <2>6. Ahead(s, p + 1) = Len(Digits(z)) /\ Ahead(s, p) = Len(Digits(x))
    BY DEF Ahead, x, z
  <2> QED
    BY <1>7, <2>5, <2>6
<1>9. before = Cardinality(Below(p, b))
  <2>1. {i \in 1 .. p + 1 : s[i] = Delimiter} = {i \in 1 .. p : s[i] = Delimiter}
    <3>1. d # Delimiter
      BY <1>2 DEF Digit, Delimiter
    <3>2. ASSUME NEW i \in 1 .. p + 1, s[i] = Delimiter
          PROVE  i \in 1 .. p
      <4>1. i # p + 1
        BY <1>3, <3>1, <3>2
      <4> QED
        BY <1>4, <4>1
    <3>3. 1 .. p \subseteq 1 .. p + 1
      BY <1>4
    <3> QED
      BY <3>2, <3>3
  <2> QED
    BY <1>7, <2>1 DEF Delimiters
<1> HIDE DEF b
<1>10. /\ DigitsWithin(p, b) \in Nat
       /\ DigitsWithin(p + 1, b) = IF p \in P THEN DigitsWithin(p, b) ELSE DigitsWithin(p, b) + 1
       /\ p \in P => p + 1 \notin P
  BY <1>4, Layout
<1>11. DigitsWithin((p + 1) + 1, b) = IF p + 1 \in P THEN DigitsWithin(p + 1, b)
                                      ELSE DigitsWithin(p + 1, b) + 1
  BY <1>4, Layout
<1>12. (p + 1) + 1 = p + 2
  BY <1>4
<1>13. DigitsWithin(to, b) = Ahead(s, p + 1)
  BY <1>8, <1>10, <1>11, <1>12
<1>14. /\ Cardinality(Below(p, b)) \in Nat
       /\ Cardinality(Below(p + 1, b))
            = IF p \in P THEN Cardinality(Below(p, b)) + 1 ELSE Cardinality(Below(p, b))
  BY <1>4, BelowCounted
<1> HIDE DEF P, before
<1>15. to = CursorTo(s, p + 1, b)
  BY <1>4, <1>9, <1>14 DEF CursorTo, before
<1>16. to \in Nat
  BY <1>4
<1>17. p + 1 < Len(s) => Ahead(s, p + 1) <= numberLength(b)
  <2>1. numberLength(b) \in Nat
    BY DEF numberLength
  <2> QED
    BY <1>3, <1>4, <1>7, <1>8, <1>10, <2>1
<1> HIDE DEF to
<1>18. Ahead(s, p + 1) \in Nat /\ Ahead(s, p + 1) <= Len(Digits(s))
  BY <1>3, <1>4, AheadType
<1>19. Len(Digits(s)) \in Nat
  BY <1>3, DigitsType
<1> DEFINE c == p + 1
           k == 1
<1>20. k \in Nat /\ k # 0 /\ c \in Nat /\ c <= Len(s)
  BY <1>4
<1>21. Intended(s, p, k, b) = Digits(s)
  BY <1>20 DEF Intended, GroupDeleted
<1>22. IntendedAhead(s, p, k, c, b) = Ahead(s, c)
  BY <1>18, <1>19, <1>21 DEF IntendedAhead
<1>23. Edit(s, p, k, c, Digits(s), IntendedAhead(s, p, k, c, b))
  BY <1>5, <1>22, Zenon
<1>24. DigitsWithin(CursorTo(s, c, b), b) = Ahead(s, c) /\ CursorTo(s, c, b) \in Nat
  BY <1>13, <1>15, <1>16
<1>25. c < Len(s) => Ahead(s, c) <= numberLength(b)
  BY <1>17
<1> HIDE DEF c, k
<1>26. Behind(NumberChanged(s, p, k, c, b), IntendedAhead(s, p, k, c, b))
  BY <1>3, <1>4, <1>20, <1>24, <1>25, CursorMoved
<1> QED
  BY <1>3, <1>4, <1>20, <1>23, <1>26, CursorEdited DEF b

(* Deleting keeps the cursor where the symbol was.                         *)
LEMMA DeletedCursor ==
  ASSUME FieldInv, kind = "number", Divided(text, brand),
         NEW p \in 0 .. Len(text) - 1, Deleted(p)
  PROVE  CursorStays
<1> DEFINE s == RemoveAt(text, p + 1)
           b == detectWithDigits(Digits(s))
           digits == IF p = Len(s) /\ text[p + 1] = Delimiter /\ EndsGroup(s)
                     THEN Front(Digits(s)) ELSE Digits(s)
           ahead == IF Ahead(s, p) > Len(digits) THEN Len(digits) ELSE Ahead(s, p)
<1>1. TypeInv /\ text \in Seq(Symbol) /\ NumberInv
  BY DEF FieldInv, TypeInv
<1>2. s \in Seq(Symbol) /\ Len(s) = Len(text) - 1 /\ \A i \in 1 .. p : s[i] = text[i]
  BY <1>1, Removed
<1>3. Len(text) \in Nat /\ p \in Nat /\ p <= Len(s) /\ p <= Len(text)
  BY <1>1, <1>2
<1>4. Edit(s, p, 0, p, digits, ahead)
  BY Zenon DEF Deleted
<1>5. p = Len(s) => \A n \in getDelimiterPositions(b) :
                      p \in {n, n + 1} => Len(Digits(s)) <= DigitsWithin(n, b)
  BY <1>1, DeletedNumber
<1>6. (p = Len(s) /\ text[p + 1] = Delimiter /\ EndsGroup(s)) <=> GroupDeleted(s, p, 0, b)
  BY <1>1, DeletedNumber
<1>7. /\ Divided(text, brand) /\ Len(Digits(text)) <= numberLength(brand)
      /\ brand = detectWithDigits(Digits(text))
  BY <1>1 DEF NumberInv
<1> HIDE DEF s
<1>8. digits = Intended(s, p, 0, b)
  BY <1>6 DEF Intended
<1> HIDE DEF digits
<1>9. ahead = IntendedAhead(s, p, 0, p, b)
  BY <1>8 DEF IntendedAhead
<1> HIDE DEF ahead
<1>10. /\ Ahead(s, p) = DigitsWithin(p, b)
       /\ DigitsWithin(p, b) <= numberLength(b)
       /\ Cardinality({i \in 1 .. p : s[i] = Delimiter}) = Cardinality(Below(p, b))
  BY <1>1, <1>2, <1>3, <1>7, BeginningKept
<1> HIDE DEF b
<1>11. CursorTo(s, p, b) = p
  <2>1. Cardinality(Below(p, b)) \in Nat
    BY <1>3, BelowCounted
  <2> QED
    BY <1>10, <2>1 DEF CursorTo, Delimiters
<1> DEFINE k == 0
<1>12. k \in Nat
  OBVIOUS
<1>13. Edit(s, p, k, p, digits, IntendedAhead(s, p, k, p, b))
  BY <1>4, <1>9
<1> HIDE DEF k
<1>14. Behind(NumberChanged(s, p, k, p, b), IntendedAhead(s, p, k, p, b))
  BY <1>2, <1>3, <1>5, <1>10, <1>11, <1>12, CursorMoved
<1> QED
  BY <1>2, <1>3, <1>5, <1>12, <1>13, <1>14, CursorEdited DEF b

(* Pasting leaves the cursor at the end, scanning at the beginning.        *)
LEMMA PutCursor ==
  ASSUME kind = "number", NEW s \in Seq(Digit), NEW c \in {0, Len(s)},
         Edit(s, 0, Len(s), c, s, c)
  PROVE  CursorStays
<1> DEFINE b == detectWithDigits(Digits(s))
           k == Len(s)
           start == 0
<1>1. s \in Seq(Symbol) /\ k \in Nat /\ Digits(s) = s
  BY DigitsOnly DEF Symbol
<1>2. c \in Nat /\ c <= Len(s) /\ start \in Nat /\ start <= Len(s)
  BY <1>1
<1>3. Ahead(s, c) = c
  <2>1. CASE c = Len(s)
    BY <1>1, <1>2, <2>1, AheadType
  <2>2. CASE c = 0
    <3>1. SubSeq(s, 1, 0) = <<>>
      BY <1>1
    <3>2. <<>> \in Seq(Digit) /\ Len(<<>>) = 0
      OBVIOUS
    <3>3. Digits(<<>>) = <<>>
      BY <3>2, DigitsOnly
    <3> QED
      BY <2>2, <3>1, <3>2, <3>3 DEF Ahead
  <2> QED
    BY <2>1, <2>2
<1> HIDE DEF b
<1>4. \A n \in getDelimiterPositions(b) : start \notin {n, n + 1}
  BY DEF getDelimiterPositions
<1>5. Intended(s, start, k, b) = s
  BY <1>1, <1>4 DEF Intended, GroupDeleted
<1>6. IntendedAhead(s, start, k, c, b) = c
  BY <1>1, <1>2, <1>3, <1>5 DEF IntendedAhead
<1>7. ASSUME c < Len(s)
      PROVE  /\ c = 0
             /\ start # Len(s)
             /\ CursorTo(s, c, b) \in Nat
             /\ DigitsWithin(CursorTo(s, c, b), b) = Ahead(s, c)
             /\ Ahead(s, c) <= numberLength(b)
  <2>1. c = 0 /\ Len(s) # 0
    BY <1>1, <1>7
  <2>2. Cardinality(Below(c, b)) = 0
    <3>1. c <= 4
      BY <2>1
    <3> QED
      BY <1>2, <3>1, BelowCounted
  <2>3. Delimiters(s, c) = 0
    <3>1. {i \in 1 .. c : s[i] = Delimiter} = {}
      BY <2>1
    <3> QED
      BY <3>1, FS_EmptySet DEF Delimiters
  <2>4. CursorTo(s, c, b) = 0
    BY <2>1, <2>2, <2>3 DEF CursorTo
  <2>5. DigitsWithin(0, b) = 0
    BY DEF DigitsWithin
  <2>6. numberLength(b) \in Nat
    BY DEF numberLength
  <2> QED
    BY <1>3, <2>1, <2>4, <2>5, <2>6
<1>8. Edit(s, start, k, c, s, IntendedAhead(s, start, k, c, b))
  BY <1>6
<1> HIDE DEF k, start
<1>9. Behind(NumberChanged(s, start, k, c, b), IntendedAhead(s, start, k, c, b))
  BY <1>1, <1>2, <1>4, <1>7, CursorMoved
<1> QED
  BY <1>1, <1>2, <1>4, <1>8, <1>9, CursorEdited DEF b

(* A change by hand leaves the cursor in the text, behind the same digit   *)
(* as before it was formatted or at the end (getAdjustedCursorPosition).   *)
THEOREM CursorKeptHolds == Spec => CursorKept
<1>1. ASSUME FieldInv, [Next]_vars, kind = "number", Divided(text, brand), ~restored'
      PROVE  CursorStays \/ UNCHANGED vars
  <2>1. kind \in Kinds
    BY <1>1 DEF FieldInv, TypeInv, DateInv
  <2>2. ASSUME NEW p \in 0 .. Len(text), NEW d \in Keys[kind], Typed(p, d)
        PROVE  CursorStays
    BY <1>1, <2>2, TypedCursor
  <2>3. ASSUME NEW p \in 0 .. Len(text) - 1, Deleted(p)
        PROVE  CursorStays
    BY <1>1, <2>3, DeletedCursor
  <2>4. ASSUME NEW s \in Pieces[kind], Pasted(s) \/ Scanned(s)
        PROVE  CursorStays
    <3>1. s \in Seq(Digit)
      BY <2>1, FieldAssumption
    <3>2. Edit(s, 0, Len(s), Len(s), s, Len(s)) \/ Edit(s, 0, Len(s), 0, s, 0)
      BY <2>4 DEF Pasted, Scanned
    <3> QED
      BY <1>1, <3>1, <3>2, PutCursor
  <2>5. ~Restored
    BY <1>1 DEF Restored
  <2> QED
    BY <1>1, <2>2, <2>3, <2>4, <2>5 DEF Next
<1>2. FieldInv /\ [Next]_vars
        => [kind = "number" /\ Divided(text, brand) /\ ~restored'
             => /\ ~Crashed'
                /\ \/ Ahead(text', cursor') = meant'.ahead
                   \/ meant'.ahead > Len(Digits(text')) /\ cursor' = Len(text')]_vars
  BY <1>1 DEF CursorStays
<1> QED
  BY <1>2, FieldInvariant, PTL DEF Spec, CursorKept
=============================================================================
