----------------------------- MODULE ScreenProofs -----------------------------
(***************************************************************************)
(* Proofs about Printk and Screen: the conversions of numbers, for every   *)
(* number; printk, for every format; and what is on the screen and in the  *)
(* VGA's registers, for a screen of any size, any messages and any number  *)
(* of keys that are echoed (EchoSpec).                                     *)
(***************************************************************************)
EXTENDS Screen, Induction, SequenceTheorems, FiniteSetTheorems, TLAPS

-----------------------------------------------------------------------------
\* The characters of numbers.
Hex == {Digit[d + 1] : d \in 0..15}
Decimal == {Digit[d + 1] : d \in 0..9}

\* No two digits look the same.
LEMMA DigitsDiffer ==
  ASSUME NEW d \in 0..15, NEW e \in 0..15, Digit[d + 1] = Digit[e + 1]
  PROVE  d = e
  BY SMT DEF Digit

\* Only the digit 0 is written "0".
LEMMA NoZero ==
  ASSUME NEW d \in 1..9
  PROVE  Digit[d + 1] # "0"
  BY SMT DEF Digit

\* The decimal digits are hexadecimal digits as well.
LEMMA DecimalIsHex == Decimal \subseteq Hex
  <1>1. 0..9 \subseteq 0..15
    BY SMT
  <1> QED BY <1>1 DEF Decimal, Hex

\* What a digit stands for, as in Value.
digit(c) == CHOOSE d \in 0..15 : Digit[d + 1] = c

\* It is the number that the digit was written for.
LEMMA DigitOf ==
  ASSUME NEW d \in 0..15
  PROVE  digit(Digit[d + 1]) = d
  <1>1. \A e \in 0..15 : Digit[e + 1] = Digit[d + 1] => e = d
    BY DigitsDiffer
  <1> QED BY <1>1 DEF digit

\* Every character of Hex stands for a number below 16.
LEMMA DigitType ==
  ASSUME NEW c \in Hex
  PROVE  digit(c) \in 0..15
  BY DigitOf DEF Hex

\* One character is its own reverse.
LEMMA ReverseOne ==
  ASSUME NEW S, NEW c \in S
  PROVE  Reverse(<<c>>) = <<c>>
  <1>1. Len(<<c>>) = 1
    OBVIOUS
  <1>2. Reverse(<<c>>) = [i \in 1..1 |-> <<c>>[(1 - i) + 1]]
    BY <1>1 DEF Reverse
  <1>3. \A i \in 1..1 : i = 1 /\ (1 - i) + 1 = 1
    BY SMT
  <1>4. Reverse(<<c>>) = [i \in 1..1 |-> c]
    BY <1>2, <1>3
  <1>5. <<c>> = [i \in 1..1 |-> c]
    OBVIOUS
  <1> QED BY <1>4, <1>5

\* A text that is reversed is a text over the same characters.
LEMMA ReverseSeq ==
  ASSUME NEW S, NEW s \in Seq(S)
  PROVE  /\ Reverse(s) \in Seq(S) /\ Len(Reverse(s)) = Len(s)
         /\ \A i \in 1..Len(s) : Reverse(s)[i] = s[(Len(s) - i) + 1]
  <1> DEFINE n == Len(s)
  <1>1. n \in Nat /\ \A i \in 1..n : s[i] \in S
    OBVIOUS
  <1>2. \A i \in 1..n : (n - i) + 1 \in 1..n
    BY <1>1, SMT
  <1>3. Reverse(s) = [i \in 1..n |-> s[(n - i) + 1]]
    BY DEF Reverse
  <1> HIDE DEF n
  <1>4. Reverse(s) \in [1..n -> S]
    BY <1>1, <1>2, <1>3
  <1>5. Reverse(s) \in Seq(S) /\ Len(Reverse(s)) = n
    BY <1>1, <1>4, SMT
  <1> QED BY <1>3, <1>5 DEF n

\* What a longer text begins with is what it ends with when reversed.
LEMMA ReverseCons ==
  ASSUME NEW S, NEW c \in S, NEW s \in Seq(S)
  PROVE  Reverse(<<c>> \o s) = Append(Reverse(s), c)
  <1> DEFINE n == Len(s)
             t == <<c>> \o s
             r == Reverse(t)
             a == Append(Reverse(s), c)
  <1>1. n \in Nat /\ t \in Seq(S) /\ Len(t) = n + 1 /\ t[1] = c
        /\ \A i \in 1..n : t[i + 1] = s[i]
    BY SMT
  <1>2. r \in Seq(S) /\ Len(r) = n + 1
        /\ \A i \in 1..(n + 1) : r[i] = t[((n + 1) - i) + 1]
    <2> HIDE DEF t
    <2> QED BY <1>1, ReverseSeq
  <1>3. Reverse(s) \in Seq(S) /\ Len(Reverse(s)) = n
        /\ \A i \in 1..n : Reverse(s)[i] = s[(n - i) + 1]
    BY ReverseSeq
  <1>4. a \in Seq(S) /\ Len(a) = n + 1 /\ a[n + 1] = c
        /\ \A i \in 1..n : a[i] = Reverse(s)[i]
    <2> DEFINE q == Reverse(s)
    <2> HIDE DEF q
    <2>1. q \in Seq(S) /\ Len(q) = n
      BY <1>3 DEF q
    <2>2. Append(q, c) \in Seq(S) /\ Len(Append(q, c)) = n + 1 /\ Append(q, c)[n + 1] = c
          /\ \A i \in 1..n : Append(q, c)[i] = q[i]
      BY <1>1, <2>1, SMT
    <2> QED BY <2>2 DEF q
  <1> HIDE DEF n, t, r, a
  <1>5. ASSUME NEW i \in 1..(n + 1) PROVE r[i] = a[i]
    <2>1. CASE i = n + 1
      <3>1. ((n + 1) - i) + 1 = 1
        BY <1>1, <2>1, SMT
      <3> QED BY <1>1, <1>2, <1>4, <2>1, <3>1
    <2>2. CASE i # n + 1
      <3>1. i \in 1..n /\ (n - i) + 1 \in 1..n /\ ((n + 1) - i) + 1 = ((n - i) + 1) + 1
        BY <1>1, <2>2, SMT
      <3> QED BY <1>1, <1>2, <1>3, <1>4, <3>1
    <2> QED BY <2>1, <2>2
  <1>6. r = a
    BY <1>2, <1>4, <1>5, SeqEqual
  <1> QED BY <1>6 DEF r, t, a

-----------------------------------------------------------------------------
\* The division by ten.
LEMMA Tens ==
  ASSUME NEW n \in Nat, n >= 10
  PROVE  n \div 10 \in Nat /\ n \div 10 < n /\ n \div 10 >= 1
         /\ n % 10 \in 0..9 /\ n = (n \div 10) * 10 + (n % 10)
  <1>1. n \div 10 \in Nat /\ n % 10 \in 0..9
    BY SMT
  <1>2. n % 10 = n - (n \div 10) * 10
    BY SMT
  <1> QED BY <1>1, <1>2, SMT

\* The loop of uintTostring, whose digits are still reversed.
LEMMA DigitsLoop ==
  \E f : /\ f = [n \in Nat |-> IF n < 10 THEN <<Digit[n + 1]>>
                               ELSE <<Digit[(n % 10) + 1]>> \o f[n \div 10]]
         /\ f \in [Nat -> Seq(Decimal)]
  <1> DEFINE S == Seq(Decimal)
             B == 0..9
             base == [n \in 0..9 |-> <<Digit[n + 1]>>]
             parent == [n \in Nat |-> n \div 10]
             step == [x \in Nat \X S |-> <<Digit[(x[1] % 10) + 1]>> \o x[2]]
  <1>1. ASSUME NEW n \in B PROVE base[n] \in S
    <2>1. Digit[n + 1] \in Decimal
      BY DEF Decimal
    <2> QED BY <2>1
  <1>2. ASSUME NEW n \in Nat \ B PROVE parent[n] \in Nat /\ parent[n] < n
    <2>1. n \in Nat /\ n >= 10
      BY SMT
    <2> QED BY <2>1, Tens
  <1>3. ASSUME NEW n \in Nat \ B, NEW s \in S
        PROVE  step[<<n, s>>] \in S
    <2>1. n % 10 \in 0..9
      BY SMT
    <2>2. Digit[(n % 10) + 1] \in Decimal
      BY <2>1 DEF Decimal
    <2>3. step[<<n, s>>] = <<Digit[(n % 10) + 1]>> \o s
      OBVIOUS
    <2> QED BY <2>2, <2>3
  <1> HIDE DEF S
  <1>4. PICK f \in [Nat -> S] : Solution(f, B, base, parent, step)
    <2>1. Recursive(S, B, base, parent, step)
      <3> HIDE DEF base, parent, step, B
      <3> QED BY <1>1, <1>2, <1>3 DEF Recursive
    <2> HIDE DEF base, parent, step, B
    <2> QED BY <2>1, Recursion
  <1>5. ASSUME NEW n \in Nat
        PROVE  f[n] = IF n < 10 THEN <<Digit[n + 1]>>
                      ELSE <<Digit[(n % 10) + 1]>> \o f[n \div 10]
    <2>1. n \in B <=> n < 10
      BY SMT
    <2>2. n \in B => base[n] = <<Digit[n + 1]>>
      OBVIOUS
    <2>3. n \notin B => step[<<n, f[parent[n]]>>] = <<Digit[(n % 10) + 1]>> \o f[n \div 10]
      <3>1. n \div 10 \in Nat
        BY SMT
      <3>2. f[n \div 10] \in S
        BY <3>1
      <3> QED BY <3>2
    <2> HIDE DEF base, parent, step, B
    <2> QED BY <1>4, <2>1, <2>2, <2>3 DEF Solution, Equation
  <1> QED BY <1>4, <1>5 DEF S

\* uintTostring: the digits of n are those of n \div 10 and one more.
LEMMA UintDigits ==
  /\ \A n \in Nat : uintTostring(n) \in Seq(Decimal)
  /\ \A n \in 0..9 : uintTostring(n) = <<Digit[n + 1]>>
  /\ \A n \in Nat : n >= 10 =>
       uintTostring(n) = Append(uintTostring(n \div 10), Digit[(n % 10) + 1])
  <1> DEFINE loop(f) == [n \in Nat |-> IF n < 10 THEN <<Digit[n + 1]>>
                                       ELSE <<Digit[(n % 10) + 1]>> \o f[n \div 10]]
             digits == CHOOSE f : f = loop(f)
  <1>1. ASSUME NEW n \in Nat PROVE uintTostring(n) = Reverse(digits[n])
    BY DEF uintTostring
  <1>2. \E f : f = loop(f) /\ f \in [Nat -> Seq(Decimal)]
    BY DigitsLoop
  <1>3. digits = loop(digits)
    BY <1>2, Zenon
  <1>4. ASSUME NEW n \in Nat
        PROVE  digits[n] = IF n < 10 THEN <<Digit[n + 1]>>
                           ELSE <<Digit[(n % 10) + 1]>> \o digits[n \div 10]
    <2> HIDE DEF digits
    <2> QED BY <1>3, Zenon
  <1> HIDE DEF digits
  <1>5. \A d \in 0..9 : Digit[d + 1] \in Decimal
    BY DEF Decimal
  <1> DEFINE T == {n \in Nat : digits[n] \in Seq(Decimal)}
  <1>6. ASSUME NEW n \in Nat, \A m \in 0..(n - 1) : m \in T PROVE n \in T
    <2>1. CASE n < 10
      <3>1. n \in 0..9
        BY <2>1, SMT
      <3>2. <<Digit[n + 1]>> \in Seq(Decimal)
        BY <1>5, <3>1
      <3> QED BY <1>4, <2>1, <3>2
    <2>2. CASE n >= 10
      <3>1. n \div 10 \in 0..(n - 1) /\ n % 10 \in 0..9 /\ ~(n < 10)
        BY <2>2, Tens, SMT
      <3>2. Digit[(n % 10) + 1] \in Decimal /\ digits[n \div 10] \in Seq(Decimal)
        BY <1>5, <1>6, <3>1
      <3>3. <<Digit[(n % 10) + 1]>> \o digits[n \div 10] \in Seq(Decimal)
        BY <3>2
      <3> QED BY <1>4, <3>1, <3>3
    <2> QED BY <2>1, <2>2, SMT
  <1>7. \A n \in Nat : digits[n] \in Seq(Decimal)
    <2>1. \A n \in Nat : n \in T
      <3> HIDE DEF T
      <3> QED BY <1>6, FromBelow
    <2> QED BY <2>1
  <1>8. ASSUME NEW n \in Nat PROVE uintTostring(n) \in Seq(Decimal)
    BY <1>1, <1>7, ReverseSeq
  <1>9. ASSUME NEW n \in 0..9 PROVE uintTostring(n) = <<Digit[n + 1]>>
    <2>1. n \in Nat /\ n < 10
      BY SMT
    <2>2. uintTostring(n) = Reverse(<<Digit[n + 1]>>)
      BY <1>1, <1>4, <2>1
    <2> QED BY <1>5, <2>2, ReverseOne
  <1>10. ASSUME NEW n \in Nat, n >= 10
         PROVE  uintTostring(n) = Append(uintTostring(n \div 10), Digit[(n % 10) + 1])
    <2>1. n \div 10 \in Nat /\ n % 10 \in 0..9 /\ ~(n < 10)
      BY <1>10, Tens, SMT
    <2>2. uintTostring(n) = Reverse(<<Digit[(n % 10) + 1]>> \o digits[n \div 10])
      BY <1>1, <1>4, <2>1
    <2>3. Digit[(n % 10) + 1] \in Decimal /\ digits[n \div 10] \in Seq(Decimal)
      BY <1>5, <1>7, <2>1
    <2>4. uintTostring(n) = Append(Reverse(digits[n \div 10]), Digit[(n % 10) + 1])
      BY <2>2, <2>3, ReverseCons
    <2> QED BY <1>1, <2>1, <2>4
  <1> QED BY <1>8, <1>9, <1>10

-----------------------------------------------------------------------------
\* Value is what the loop over the digits computes, however it is found.
Computes(g, text, radix) ==
  /\ g[0] = 0
  /\ \A i \in 1..Len(text) : g[i] = g[i - 1] * radix + digit(text[i])

\* Any function that satisfies the recursion of Value yields it.
LEMMA ValueOf ==
  ASSUME NEW text \in Seq(Hex), NEW radix \in Nat, NEW g, Computes(g, text, radix)
  PROVE  Value(text, radix) = g[Len(text)]
  <1> DEFINE n == Len(text)
             loop(f) == [i \in 0..n |-> IF i = 0 THEN 0
                                        ELSE f[i - 1] * radix + digit(text[i])]
             value == CHOOSE f : f = loop(f)
             w == [i \in 0..n |-> g[i]]
  <1>1. Value(text, radix) = value[n]
    BY DEF Value, digit
  <1>2. n \in Nat /\ \A i \in 0..n : i # 0 => i \in 1..n /\ i - 1 \in 0..n
    BY SMT
  <1>3. w = loop(w)
    <2> SUFFICES ASSUME NEW i \in 0..n
                 PROVE  g[i] = IF i = 0 THEN 0 ELSE w[i - 1] * radix + digit(text[i])
      BY Zenon
    <2>1. CASE i = 0
      BY <2>1 DEF Computes
    <2>2. CASE i # 0
      <3>1. w[i - 1] = g[i - 1] /\ i \in 1..Len(text)
        BY <1>2, <2>2
      <3> QED BY <2>2, <3>1 DEF Computes
    <2> QED BY <2>1, <2>2
  <1>4. value = loop(value)
    BY <1>3, Zenon
  <1>5. \A i \in 0..n : value[i] = IF i = 0 THEN 0 ELSE value[i - 1] * radix + digit(text[i])
    <2> HIDE DEF value
    <2> QED BY <1>4, Zenon
  <1> HIDE DEF value, n, w, loop
  <1> DEFINE T == {i \in 0..n : value[i] = g[i]}
  <1>6. 0 \in T
    <2>1. 0 \in 0..n
      BY <1>2, SMT
    <2> QED BY <1>5, <2>1 DEF Computes
  <1>7. ASSUME NEW i \in 0..(n - 1), i \in T PROVE i + 1 \in T
    <2>1. i + 1 \in 0..n /\ i + 1 # 0 /\ (i + 1) - 1 = i /\ i + 1 \in 1..n
      BY <1>2, SMT
    <2>2. value[i + 1] = value[i] * radix + digit(text[i + 1])
      BY <1>5, <2>1
    <2>3. g[i + 1] = g[i] * radix + digit(text[i + 1])
      BY <2>1 DEF Computes, n
    <2> QED BY <1>7, <2>1, <2>2, <2>3
  <1>8. n \in T
    <2> HIDE DEF T
    <2> QED BY <1>2, <1>6, <1>7, UpTo
  <1> QED BY <1>1, <1>8 DEF n

\* There is one.
LEMMA ValueExists ==
  ASSUME NEW text \in Seq(Hex), NEW radix \in Nat
  PROVE  \E g \in [Nat -> Nat] : Computes(g, text, radix)
  <1> DEFINE n == Len(text)
             B == {0}
             base == [i \in {0} |-> 0]
             parent == [i \in Nat |-> i - 1]
             step == [x \in Nat \X Nat |->
                        IF x[1] \in 1..n THEN x[2] * radix + digit(text[x[1]]) ELSE 0]
  <1>1. Recursive(Nat, B, base, parent, step)
    <2>1. ASSUME NEW i \in B PROVE base[i] \in Nat
      OBVIOUS
    <2>2. ASSUME NEW i \in Nat \ B PROVE parent[i] \in Nat /\ parent[i] < i
      BY SMT
    <2>3. ASSUME NEW i \in Nat \ B, NEW s \in Nat PROVE step[<<i, s>>] \in Nat
      <3>1. step[<<i, s>>] = IF i \in 1..n THEN s * radix + digit(text[i]) ELSE 0
        OBVIOUS
      <3>2. i \in 1..n => digit(text[i]) \in Nat
        <4>1. i \in 1..n => text[i] \in Hex
          OBVIOUS
        <4> QED BY <4>1, DigitType, SMT
      <3>3. \A d \in Nat : s * radix + d \in Nat
        BY SMT
      <3>4. i \in 1..n => s * radix + digit(text[i]) \in Nat
        BY <3>2, <3>3
      <3> HIDE DEF step
      <3> QED BY <3>1, <3>4
    <2> HIDE DEF B, base, parent, step
    <2> QED BY <2>1, <2>2, <2>3 DEF Recursive
  <1>2. PICK g \in [Nat -> Nat] : Solution(g, B, base, parent, step)
    <2> HIDE DEF B, base, parent, step
    <2> QED BY <1>1, Recursion
  <1>3. g[0] = 0
    BY <1>2 DEF Solution, Equation
  <1>4. ASSUME NEW i \in 1..n PROVE g[i] = g[i - 1] * radix + digit(text[i])
    <2>1. i \in Nat /\ i \notin B /\ parent[i] = i - 1 /\ i - 1 \in Nat
      BY SMT
    <2>2. g[i] = step[<<i, g[i - 1]>>]
      <3> HIDE DEF B, base, parent, step
      <3> QED BY <1>2, <2>1 DEF Solution, Equation
    <2>3. g[i - 1] \in Nat
      BY <2>1
    <2> QED BY <2>1, <2>2, <2>3
  <1> QED BY <1>3, <1>4 DEF Computes

\* Digits stand for a natural number.
LEMMA ValueType ==
  ASSUME NEW text \in Seq(Hex), NEW radix \in Nat
  PROVE  Value(text, radix) \in Nat
  <1>1. PICK g \in [Nat -> Nat] : Computes(g, text, radix)
    BY ValueExists
  <1>2. Value(text, radix) = g[Len(text)]
    BY <1>1, ValueOf
  <1>3. Len(text) \in Nat
    BY LenProperties
  <1> QED BY <1>1, <1>2, <1>3

\* One more digit.
LEMMA ValueAppend ==
  ASSUME NEW text \in Seq(Hex), NEW radix \in Nat, NEW d \in 0..15
  PROVE  Value(Append(text, Digit[d + 1]), radix) = Value(text, radix) * radix + d
  <1> DEFINE n == Len(text)
             c == Digit[d + 1]
             longer == Append(text, c)
  <1>1. c \in Hex /\ digit(c) = d
    BY DigitOf DEF Hex
  <1> HIDE DEF c
  <1>2. /\ n \in Nat /\ longer \in Seq(Hex) /\ Len(longer) = n + 1 /\ longer[n + 1] = c
        /\ \A i \in 1..n : longer[i] = text[i]
    BY <1>1, SMT
  <1>3. PICK g \in [Nat -> Nat] : Computes(g, text, radix)
    BY ValueExists
  <1> DEFINE h == [i \in Nat |-> IF i = n + 1 THEN g[n] * radix + d ELSE g[i]]
  <1> HIDE DEF longer, n
  <1>4. Computes(h, longer, radix)
    <2>1. h[0] = 0
      <3>1. 0 \in Nat /\ 0 # n + 1
        BY <1>2, SMT
      <3> QED BY <1>3, <3>1 DEF Computes
    <2>2. ASSUME NEW i \in 1..(n + 1) PROVE h[i] = h[i - 1] * radix + digit(longer[i])
      <3>1. i \in Nat /\ i - 1 \in Nat /\ i - 1 # n + 1
        BY <1>2, SMT
      <3>2. h[i - 1] = g[i - 1]
        BY <3>1
      <3>3. CASE i = n + 1
        <4>1. i - 1 = n /\ h[i] = g[n] * radix + d
          BY <1>2, <3>1, <3>3, SMT
        <4> QED BY <1>1, <1>2, <3>2, <3>3, <4>1
      <3>4. CASE i # n + 1
        <4>1. i \in 1..n /\ h[i] = g[i]
          BY <1>2, <3>1, <3>4, SMT
        <4>2. g[i] = g[i - 1] * radix + digit(text[i])
          BY <1>3, <4>1 DEF Computes, n
        <4> QED BY <1>2, <3>2, <4>1, <4>2
      <3> QED BY <3>3, <3>4
    <2> HIDE DEF h
    <2> QED BY <1>2, <2>1, <2>2 DEF Computes
  <1>5. Value(longer, radix) = h[n + 1]
    <2> HIDE DEF h
    <2> QED BY <1>2, <1>4, ValueOf
  <1>6. Value(text, radix) = g[n]
    BY <1>3, ValueOf DEF n
  <1> QED BY <1>2, <1>5, <1>6 DEF longer, c

\* No digits stand for 0.
LEMMA ValueEmpty ==
  ASSUME NEW radix \in Nat
  PROVE  Value(<< >>, radix) = 0
  <1>1. << >> \in Seq(Hex) /\ Len(<< >>) = 0
    BY EmptySeq
  <1>2. PICK g \in [Nat -> Nat] : Computes(g, << >>, radix)
    BY <1>1, ValueExists
  <1>3. Value(<< >>, radix) = g[0]
    BY <1>1, <1>2, ValueOf
  <1> QED BY <1>2, <1>3 DEF Computes

\* Zeros in front do not count.
LEMMA ValueZeros ==
  ASSUME NEW text \in Seq(Hex), NEW radix \in Nat, NEW zeros \in Seq(Hex),
         \A i \in 1..Len(zeros) : zeros[i] = "0"
  PROVE  Value(zeros \o text, radix) = Value(text, radix)
  <1> DEFINE n == Len(text)
             k == Len(zeros)
             longer == zeros \o text
  <1>1. /\ n \in Nat /\ k \in Nat /\ longer \in Seq(Hex) /\ Len(longer) = k + n
        /\ \A i \in 1..k : longer[i] = zeros[i]
        /\ \A i \in (k + 1)..(k + n) : longer[i] = text[i - k]
    BY SMT
  <1>2. PICK g \in [Nat -> Nat] : Computes(g, text, radix)
    BY ValueExists
  <1> DEFINE h == [i \in Nat |-> IF i <= k THEN 0 ELSE g[i - k]]
  <1>3. digit("0") = 0
    <2>1. Digit[0 + 1] = "0" /\ 0 \in 0..15
      BY SMT DEF Digit
    <2> QED BY <2>1, DigitOf
  <1> HIDE DEF longer, n, k
  <1>4. Computes(h, longer, radix)
    <2>1. h[0] = 0
      BY <1>1, SMT
    <2>2. ASSUME NEW i \in 1..(k + n) PROVE h[i] = h[i - 1] * radix + digit(longer[i])
      <3>1. i \in Nat /\ i - 1 \in Nat
        BY <1>1, SMT
      <3>2. CASE i <= k
        <4>1. i \in 1..k /\ i - 1 <= k
          BY <1>1, <3>2, SMT
        <4>2. h[i] = 0 /\ h[i - 1] = 0 /\ longer[i] = "0"
          BY <1>1, <3>1, <3>2, <4>1 DEF k
        <4>3. 0 = 0 * radix + 0
          BY SMT
        <4> HIDE DEF h
        <4> QED BY <1>3, <4>2, <4>3
      <3>3. CASE i > k
        <4>1. /\ i \in (k + 1)..(k + n) /\ i - k \in 1..n /\ ~(i <= k)
              /\ i - 1 <= k => i - 1 = k /\ (i - k) - 1 = 0
              /\ (i - 1) - k = (i - k) - 1
          BY <1>1, <3>3, SMT
        <4>2. g[i - k] = g[(i - k) - 1] * radix + digit(text[i - k]) /\ g[0] = 0
          BY <1>2, <4>1 DEF Computes, n
        <4>3. h[i] = g[i - k]
          BY <3>1, <4>1
        <4>4. h[i - 1] = g[(i - k) - 1]
          <5>1. CASE i - 1 <= k
            <6>1. h[i - 1] = 0
              BY <3>1, <5>1
            <6> QED BY <4>1, <4>2, <5>1, <6>1
          <5>2. CASE ~(i - 1 <= k)
            BY <3>1, <4>1, <5>2
          <5> QED BY <5>1, <5>2
        <4>5. longer[i] = text[i - k]
          BY <1>1, <4>1
        <4> HIDE DEF h
        <4> QED BY <4>2, <4>3, <4>4, <4>5
      <3> QED BY <1>1, <3>1, <3>2, <3>3, SMT
    <2> HIDE DEF h
    <2> QED BY <1>1, <2>1, <2>2 DEF Computes
  <1>5. Value(longer, radix) = h[k + n]
    <2> HIDE DEF h
    <2>1. longer \in Seq(Hex)
      BY <1>1
    <2>2. Value(longer, radix) = h[Len(longer)]
      BY <1>4, <2>1, ValueOf
    <2> QED BY <1>1, <2>2
  <1>6. Value(text, radix) = g[n]
    BY <1>2, ValueOf DEF n
  <1>7. h[k + n] = g[n]
    <2>1. CASE n = 0
      <3>1. k + n \in Nat /\ k + n <= k
        BY <1>1, <2>1, SMT
      <3> QED BY <1>2, <2>1, <3>1 DEF Computes
    <2>2. CASE n # 0
      <3>1. k + n \in Nat /\ ~(k + n <= k) /\ (k + n) - k = n
        BY <1>1, <2>2, SMT
      <3> QED BY <3>1
    <2> QED BY <2>1, <2>2
  <1> QED BY <1>5, <1>6, <1>7 DEF longer

\* uintTostring: decimal digits, of that value, and no leading zero.
LEMMA UintExact ==
  ASSUME NEW n \in Nat
  PROVE  /\ uintTostring(n) \in Seq(Decimal)
         /\ Value(uintTostring(n), 10) = n
         /\ n >= 1 => Len(uintTostring(n)) >= 1 /\ Head(uintTostring(n)) # "0"
  <1> DEFINE text(m) == uintTostring(m)
             T == {m \in Nat : /\ Value(text(m), 10) = m
                               /\ m >= 1 => Len(text(m)) >= 1 /\ Head(text(m)) # "0"}
  <1>0. ASSUME NEW m \in Nat PROVE text(m) \in Seq(Decimal) /\ text(m) \in Seq(Hex)
    <2>1. text(m) \in Seq(Decimal)
      BY UintDigits
    <2> HIDE DEF text
    <2> QED BY <2>1, DecimalIsHex, SeqMonotonic
  <1>1. ASSUME NEW m \in Nat, \A i \in 0..(m - 1) : i \in T PROVE m \in T
    <2>1. CASE m < 10
      <3>1. m \in 0..9 /\ m \in 0..15 /\ (m >= 1 => m \in 1..9)
        BY <2>1, SMT
      <3> DEFINE c == Digit[m + 1]
      <3>2. text(m) = <<c>> /\ text(m) = Append(<< >>, c)
        <4>1. text(m) = <<c>>
          BY <3>1, UintDigits
        <4>2. <<c>> = Append(<< >>, c)
          OBVIOUS
        <4> QED BY <4>1, <4>2
      <3>3. << >> \in Seq(Hex)
        BY EmptySeq
      <3>4. Value(text(m), 10) = Value(<< >>, 10) * 10 + m
        BY <3>1, <3>2, <3>3, ValueAppend
      <3>5. Value(text(m), 10) = m
        BY <3>4, ValueEmpty, SMT
      <3>6. m >= 1 => c # "0"
        BY <3>1, NoZero
      <3> HIDE DEF c
      <3>7. Len(text(m)) >= 1 /\ Head(text(m)) = c
        BY <3>2, SMT
      <3> QED BY <3>5, <3>6, <3>7
    <2>2. CASE m >= 10
      <3> DEFINE q == m \div 10
                 d == m % 10
                 c == Digit[d + 1]
      <3>1. q \in 0..(m - 1) /\ q \in Nat /\ q >= 1 /\ d \in 0..9 /\ d \in 0..15
            /\ m = q * 10 + d
        BY <2>2, Tens, SMT
      <3>2. text(m) = Append(text(q), c)
        BY <2>2, UintDigits
      <3>3. c \in Hex
        BY <3>1 DEF Hex
      <3> HIDE DEF q, d
      <3>4. /\ text(q) \in Seq(Hex) /\ Value(text(q), 10) = q
            /\ Len(text(q)) >= 1 /\ Head(text(q)) # "0"
        BY <1>0, <1>1, <3>1
      <3>5. Value(text(m), 10) = q * 10 + d
        BY <3>1, <3>2, <3>4, ValueAppend
      <3> HIDE DEF c, text
      <3>6. Len(text(m)) >= 1 /\ Head(text(m)) = Head(text(q))
        BY <3>2, <3>3, <3>4, SMT
      <3> QED BY <3>1, <3>4, <3>5, <3>6
    <2> QED BY <2>1, <2>2, SMT
  <1>2. \A m \in Nat : m \in T
    <2> HIDE DEF T
    <2> QED BY <1>1, FromBelow
  <1> QED BY <1>0, <1>2

-----------------------------------------------------------------------------
\* Dividing by 16 leads to a smaller number.
LEMMA Sixteens ==
  ASSUME NEW n \in Nat, n # 0
  PROVE  n \div 16 \in Nat /\ n \div 16 < n /\ n % 16 \in 0..15
         /\ n = (n \div 16) * 16 + (n % 16)
  <1>1. n \div 16 \in Nat /\ n % 16 \in 0..15
    BY SMT
  <1>2. n = (n \div 16) * 16 + (n % 16)
    BY SMT
  <1> QED BY <1>1, <1>2, SMT

\* func of num2hexstr, which yields no digit for 0.
hexloop(f) == [n \in Nat |-> IF n = 0 THEN << >>
                             ELSE Append(f[n \div 16], Digit[(n % 16) + 1])]

\* The digits that func of num2hexstr yields.
hexdigits == CHOOSE f : f = hexloop(f)

\* The recursion of func has a solution.
LEMMA HexLoop ==
  hexdigits = hexloop(hexdigits)
  <1> DEFINE S == Seq(Hex)
             B == {0}
             base == [n \in {0} |-> << >>]
             parent == [n \in Nat |-> n \div 16]
             step == [x \in Nat \X S |-> Append(x[2], Digit[(x[1] % 16) + 1])]
  <1>1. ASSUME NEW n \in B PROVE base[n] \in S
    BY EmptySeq
  <1>2. ASSUME NEW n \in Nat \ B PROVE parent[n] \in Nat /\ parent[n] < n
    BY Sixteens
  <1>3. ASSUME NEW n \in Nat \ B, NEW s \in S
        PROVE  step[<<n, s>>] \in S
    <2>1. Digit[(n % 16) + 1] \in Hex
      BY Sixteens DEF Hex
    <2>2. step[<<n, s>>] = Append(s, Digit[(n % 16) + 1])
      OBVIOUS
    <2> QED BY <2>1, <2>2
  <1> HIDE DEF S
  <1>4. PICK f \in [Nat -> S] : Solution(f, B, base, parent, step)
    <2>1. Recursive(S, B, base, parent, step)
      <3> HIDE DEF base, parent, step, B
      <3> QED BY <1>1, <1>2, <1>3 DEF Recursive
    <2> HIDE DEF base, parent, step, B
    <2> QED BY <2>1, Recursion
  <1>5. ASSUME NEW n \in Nat
        PROVE  f[n] = IF n = 0 THEN << >> ELSE Append(f[n \div 16], Digit[(n % 16) + 1])
    <2>1. n \in B <=> n = 0
      OBVIOUS
    <2>2. n \in B => base[n] = << >>
      OBVIOUS
    <2>3. n \notin B => step[<<n, f[parent[n]]>>] = Append(f[n \div 16], Digit[(n % 16) + 1])
      <3>1. n \notin B => n \div 16 \in Nat
        BY Sixteens
      <3>2. n \notin B => f[n \div 16] \in S
        BY <3>1
      <3> QED BY <3>2
    <2> HIDE DEF base, parent, step, B
    <2> QED BY <1>4, <2>1, <2>2, <2>3 DEF Solution, Equation
  <1>6. f = hexloop(f)
    BY <1>4, <1>5, Zenon DEF hexloop
  <1> QED BY <1>6, Zenon DEF hexdigits

\* The digits of n are those of n \div 16 and one more.
LEMMA HexDigits ==
  ASSUME NEW n \in Nat
  PROVE  hexdigits[n] = IF n = 0 THEN << >>
                        ELSE Append(hexdigits[n \div 16], Digit[(n % 16) + 1])
  <1>1. hexdigits = [m \in Nat |-> IF m = 0 THEN << >>
                        ELSE Append(hexdigits[m \div 16], Digit[(m % 16) + 1])]
    BY HexLoop DEF hexloop
  <1> QED BY <1>1, Zenon

\* They stand for the number.
LEMMA HexValue ==
  ASSUME NEW n \in Nat
  PROVE  hexdigits[n] \in Seq(Hex) /\ Value(hexdigits[n], 16) = n
  <1> DEFINE T == {m \in Nat : hexdigits[m] \in Seq(Hex) /\ Value(hexdigits[m], 16) = m}
  <1>1. ASSUME NEW m \in Nat, \A i \in 0..(m - 1) : i \in T PROVE m \in T
    <2>1. CASE m = 0
      <3>1. hexdigits[m] = << >> /\ << >> \in Seq(Hex)
        BY <2>1, HexDigits, EmptySeq
      <3>2. Value(<< >>, 16) = 0
        BY ValueEmpty, 16 \in Nat
      <3> QED BY <2>1, <3>1, <3>2
    <2>2. CASE m # 0
      <3> DEFINE q == m \div 16
                 d == m % 16
                 c == Digit[d + 1]
      <3>1. q \in 0..(m - 1) /\ d \in 0..15 /\ m = q * 16 + d
        BY <2>2, Sixteens, SMT
      <3>2. hexdigits[m] = Append(hexdigits[q], c)
        BY <2>2, HexDigits
      <3>3. c \in Hex
        BY <3>1 DEF Hex
      <3> HIDE DEF q, d
      <3>4. hexdigits[q] \in Seq(Hex) /\ Value(hexdigits[q], 16) = q
        BY <1>1, <3>1
      <3>5. Value(hexdigits[m], 16) = q * 16 + d
        BY <3>1, <3>2, <3>4, ValueAppend
      <3> HIDE DEF c
      <3>6. hexdigits[m] \in Seq(Hex)
        BY <3>2, <3>3, <3>4
      <3> QED BY <3>1, <3>5, <3>6
    <2> QED BY <2>1, <2>2
  <1>2. \A m \in Nat : m \in T
    <2> HIDE DEF T
    <2> QED BY <1>1, FromBelow
  <1> QED BY <1>2

\* Below b there are at most k digits.
AtMost(b, k) == \A n \in Nat : n < b => Len(hexdigits[n]) <= k

\* A number up to 16 times as large has at most one digit more.
LEMMA OneMoreDigit ==
  ASSUME NEW b \in Nat, NEW k \in Nat, AtMost(b, k)
  PROVE  AtMost(16 * b, k + 1)
  <1> SUFFICES ASSUME NEW n \in Nat, n < 16 * b PROVE Len(hexdigits[n]) <= k + 1
    BY DEF AtMost
  <1>1. CASE n = 0
    <2>1. hexdigits[n] = << >> /\ Len(<< >>) = 0
      BY <1>1, HexDigits, EmptySeq
    <2> QED BY <2>1, SMT
  <1>2. CASE n # 0
    <2> DEFINE q == n \div 16
               c == Digit[(n % 16) + 1]
    <2>1. q \in Nat /\ q < b /\ n % 16 \in 0..15
      BY <1>2, Sixteens, SMT
    <2>2. hexdigits[n] = Append(hexdigits[q], c) /\ c \in Hex
      BY <1>2, <2>1, HexDigits DEF Hex
    <2> HIDE DEF q, c
    <2>3. hexdigits[q] \in Seq(Hex) /\ Len(hexdigits[q]) <= k
      BY <2>1, HexValue DEF AtMost
    <2> QED BY <2>2, <2>3, SMT
  <1> QED BY <1>1, <1>2

\* A number that an int can hold has at most eight.
LEMMA EightDigits ==
  ASSUME NEW n \in Int31
  PROVE  Len(hexdigits[n]) <= 8
  <1>0. AtMost(1, 0)
    <2> SUFFICES ASSUME NEW m \in Nat, m < 1 PROVE Len(hexdigits[m]) <= 0
      BY DEF AtMost
    <2>1. m = 0
      BY SMT
    <2>2. hexdigits[m] = << >> /\ Len(<< >>) = 0
      BY <2>1, HexDigits, EmptySeq
    <2> QED BY <2>2, SMT
  <1>1. AtMost(16, 1)
    BY <1>0, OneMoreDigit, 16 * 1 = 16, 0 + 1 = 1
  <1>2. AtMost(256, 2)
    BY <1>1, OneMoreDigit, 16 * 16 = 256, 1 + 1 = 2, SMT
  <1>3. AtMost(4096, 3)
    BY <1>2, OneMoreDigit, 16 * 256 = 4096, 2 + 1 = 3, SMT
  <1>4. AtMost(65536, 4)
    BY <1>3, OneMoreDigit, 16 * 4096 = 65536, 3 + 1 = 4, SMT
  <1>5. AtMost(1048576, 5)
    BY <1>4, OneMoreDigit, 16 * 65536 = 1048576, 4 + 1 = 5, SMT
  <1>6. AtMost(16777216, 6)
    BY <1>5, OneMoreDigit, 16 * 1048576 = 16777216, 5 + 1 = 6, SMT
  <1>7. AtMost(268435456, 7)
    BY <1>6, OneMoreDigit, 16 * 16777216 = 268435456, 6 + 1 = 7, SMT
  <1>8. AtMost(4294967296, 8)
    BY <1>7, OneMoreDigit, 16 * 268435456 = 4294967296, 7 + 1 = 8, SMT
  <1>9. n \in Nat /\ n < 4294967296
    <2>1. n \in Nat /\ n <= 2147483647
      BY SMT DEF Int31
    <2>2. 2147483647 < 4294967296
      BY SMT
    <2> QED BY <2>1, <2>2, SMT
  <1> QED BY <1>8, <1>9, SMT DEF AtMost

\* num2hexstr: what func yields, with zeros in front.
padding(n) == [i \in 1..(8 - Len(hexdigits[n])) |-> "0"]

\* The padding consists of zeros, and fills the text up to eight characters.
LEMMA Padding ==
  ASSUME NEW n \in Nat
  PROVE  /\ padding(n) \in Seq(Hex)
         /\ \A i \in 1..Len(padding(n)) : padding(n)[i] = "0"
         /\ n \in Int31 => Len(padding(n)) + Len(hexdigits[n]) = 8
  <1> DEFINE k == 8 - Len(hexdigits[n])
             z == padding(n)
  <1>1. Len(hexdigits[n]) \in Nat /\ k \in Int
    <2>1. Len(hexdigits[n]) \in Nat
      BY HexValue
    <2> QED BY <2>1, SMT
  <1>2. "0" \in Hex
    <2>1. Digit[0 + 1] = "0" /\ 0 \in 0..15
      BY SMT DEF Digit
    <2> QED BY <2>1 DEF Hex
  <1>3. z = [i \in 1..k |-> "0"]
    BY Zenon DEF padding
  <1>4. n \in Int31 => k \in Nat
    BY <1>1, EightDigits, SMT
  <1>5. k + Len(hexdigits[n]) = 8
    BY <1>1, SMT
  <1> HIDE DEF k, z
  <1>6. CASE k >= 0
    <2>1. k \in Nat
      BY <1>1, <1>6, SMT
    <2>2. z \in [1..k -> Hex]
      BY <1>2, <1>3, Zenon
    <2>3. z \in Seq(Hex) /\ Len(z) = k
      BY <2>1, <2>2, SMT
    <2>4. \A i \in 1..Len(z) : z[i] = "0"
      BY <1>3, <2>3, Zenon
    <2> QED BY <1>5, <2>3, <2>4, Zenon DEF z
  <1>7. CASE k < 0
    <2>1. 1..k = 1..0 /\ 1..0 = {} /\ k \notin Nat
      BY <1>1, <1>7, SMT
    <2>2. z \in [1..0 -> Hex]
      BY <1>2, <1>3, <2>1, Zenon
    <2>3. z \in Seq(Hex) /\ Len(z) = 0
      BY <2>2, SMT
    <2> QED BY <1>4, <2>1, <2>3, Zenon DEF z
  <1> QED BY <1>1, <1>6, <1>7, SMT

\* num2hexstr is the padding and the digits, with or without 0x.
LEMMA HexForm ==
  ASSUME NEW n \in Nat
  PROVE  /\ num2hexstr(n, FALSE) = padding(n) \o hexdigits[n]
         /\ num2hexstr(n, TRUE) = <<"0", "x">> \o (padding(n) \o hexdigits[n])
  <1> DEFINE z == padding(n)
             t == hexdigits[n]
             S == Hex \cup {"0", "x"}
  <1>1. num2hexstr(n, FALSE) = (<< >> \o z) \o t /\ num2hexstr(n, TRUE) = (<<"0", "x">> \o z) \o t
    BY DEF num2hexstr, padding, hexdigits, hexloop
  <1>2. z \in Seq(S) /\ t \in Seq(S) /\ <<"0", "x">> \in Seq(S)
    <2>1. z \in Seq(Hex) /\ t \in Seq(Hex)
      BY Padding, HexValue
    <2>2. <<"0", "x">> \in Seq(S)
      OBVIOUS
    <2> HIDE DEF z, t
    <2> QED BY <2>1, <2>2
  <1> HIDE DEF z, t, S
  <1>3. << >> \o z = z
    BY <1>2, ConcatEmptySeq
  <1>4. (<<"0", "x">> \o z) \o t = <<"0", "x">> \o (z \o t)
    BY <1>2, ConcatAssociative
  <1> QED BY <1>1, <1>3, <1>4 DEF z, t

\* num2hexstr yields eight digits that stand for the number.
LEMMA HexExact ==
  ASSUME NEW n \in Int31
  PROVE  /\ num2hexstr(n, FALSE) \in Seq(Hex)
         /\ Len(num2hexstr(n, FALSE)) = 8
         /\ Value(num2hexstr(n, FALSE), 16) = n
         /\ num2hexstr(n, TRUE) = <<"0", "x">> \o num2hexstr(n, FALSE)
  <1> DEFINE z == padding(n)
             t == hexdigits[n]
  <1>1. n \in Nat
    BY SMT DEF Int31
  <1>2. num2hexstr(n, FALSE) = z \o t
    BY <1>1, HexForm
  <1>3. t \in Seq(Hex) /\ Value(t, 16) = n
    BY <1>1, HexValue
  <1>4. z \in Seq(Hex) /\ (\A i \in 1..Len(z) : z[i] = "0") /\ Len(z) + Len(t) = 8
    BY <1>1, Padding
  <1>5. 16 \in Nat
    OBVIOUS
  <1> HIDE DEF z, t
  <1>6. Value(z \o t, 16) = n
    BY <1>3, <1>4, <1>5, ValueZeros
  <1>7. z \o t \in Seq(Hex) /\ Len(z \o t) = 8
    BY <1>3, <1>4, ConcatProperties
  <1>8. num2hexstr(n, TRUE) = <<"0", "x">> \o num2hexstr(n, FALSE)
    BY <1>1, HexForm
  <1> QED BY <1>2, <1>6, <1>7, <1>8

\* uintTostring and num2hexstr yield the digits of every number that an int and
\* an unsigned int can hold.
THEOREM ConversionsAreExact == \A n \in Int31 : Converted(n)
  <1> SUFFICES ASSUME NEW n \in Int31 PROVE Converted(n)
    OBVIOUS
  <1>1. n \in Nat
    BY SMT DEF Int31
  <1> DEFINE u == uintTostring(n)
  <1>2. /\ u \in Seq(Decimal) /\ Value(u, 10) = n
        /\ n >= 1 => Len(u) >= 1 /\ Head(u) # "0"
    BY <1>1, UintExact
  <1>3. Range(u) \subseteq {Digit[d + 1] : d \in 0..9}
    <2> HIDE DEF u
    <2>1. \A i \in DOMAIN u : u[i] \in Decimal
      BY <1>2
    <2> QED BY <2>1 DEF Range, Decimal
  <1>4. n >= 10 => n >= 1
    BY <1>1, SMT
  <1> QED BY <1>2, <1>3, <1>4, HexExact DEF Converted

-----------------------------------------------------------------------------
\* What is left of a sequence behind its first k elements.
Rest(s, k) == SubSeq(s, k + 1, Len(s))

\* It is what its name says.
LEMMA RestIs ==
  ASSUME NEW S, NEW s \in Seq(S), NEW k \in 0..Len(s)
  PROVE  /\ Rest(s, k) \in Seq(S) /\ Len(Rest(s, k)) = Len(s) - k
         /\ \A j \in 1..(Len(s) - k) : Rest(s, k)[j] = s[k + j]
  <1> DEFINE n == Len(s)
             r == SubSeq(s, k + 1, n)
  <1>1. n \in Nat /\ k \in Nat /\ k <= n /\ k + 1 \in Int /\ n \in Int
    BY SMT
  <1>2. \A i \in (k + 1)..n : s[i] \in S
    BY <1>1, SMT
  <1>3. /\ r \in Seq(S) /\ Len(r) = IF k + 1 <= n THEN n - (k + 1) + 1 ELSE 0
        /\ \A i \in 1..(n - (k + 1) + 1) : r[i] = s[(k + 1) + i - 1]
    <2> HIDE DEF n
    <2> QED BY <1>1, <1>2, SubSeqProperties
  <1> HIDE DEF r
  <1>4. Len(r) = n - k
    <2> HIDE DEF n
    <2> QED BY <1>1, <1>3, SMT
  <1>5. ASSUME NEW j \in 1..(n - k) PROVE r[j] = s[k + j]
    <2> HIDE DEF n
    <2>1. j \in 1..(n - (k + 1) + 1) /\ (k + 1) + j - 1 = k + j
      BY <1>1, SMT
    <2> QED BY <1>3, <2>1
  <1> QED BY <1>3, <1>4, <1>5 DEF r, Rest

\* Behind nothing there is everything, and behind everything nothing.
LEMMA RestEnds ==
  ASSUME NEW S, NEW s \in Seq(S)
  PROVE  Rest(s, 0) = s /\ Rest(s, Len(s)) = << >>
  <1>1. 0 + 1 = 1 /\ Len(s) + 1 \in Int /\ Len(s) \in Int /\ Len(s) < Len(s) + 1
    BY SMT
  <1> QED BY <1>1, SubSeqFull, SubSeqEmpty DEF Rest

\* Its first element, and what is left behind that.
LEMMA RestFirst ==
  ASSUME NEW S, NEW s \in Seq(S), NEW k \in 0..(Len(s) - 1)
  PROVE  /\ Rest(s, k) = <<s[k + 1]>> \o Rest(s, k + 1)
         /\ Head(Rest(s, k)) = s[k + 1] /\ Tail(Rest(s, k)) = Rest(s, k + 1)
  <1>1. k + 1 \in 1..Len(s) /\ Len(s) \in (k + 1)..Len(s)
    BY SMT
  <1> QED BY <1>1, SubSeqRecursiveFirst, HeadTailOfSubSeq DEF Rest

\* What is left of what is left.
LEMMA RestOfRest ==
  ASSUME NEW S, NEW s \in Seq(S), NEW k \in 0..Len(s), NEW j \in 0..(Len(s) - k)
  PROVE  Rest(Rest(s, k), j) = Rest(s, k + j)
  <1> DEFINE n == Len(s)
             r == Rest(s, k)
             a == Rest(r, j)
             b == Rest(s, k + j)
  <1>1. n \in Nat /\ k \in Nat /\ j \in Nat /\ k + j \in 0..n
    BY SMT
  <1>2. r \in Seq(S) /\ Len(r) = n - k /\ \A i \in 1..(n - k) : r[i] = s[k + i]
    BY RestIs
  <1>3. b \in Seq(S) /\ Len(b) = n - (k + j) /\ \A i \in 1..(n - (k + j)) : b[i] = s[(k + j) + i]
    BY <1>1, RestIs
  <1> HIDE DEF r, b
  <1>4. /\ a \in Seq(S) /\ Len(a) = (n - k) - j
        /\ \A i \in 1..((n - k) - j) : a[i] = r[j + i]
    <2>1. r \in Seq(S) /\ j \in 0..Len(r)
      BY <1>2
    <2>2. /\ a \in Seq(S) /\ Len(a) = Len(r) - j
          /\ \A i \in 1..(Len(r) - j) : a[i] = r[j + i]
      BY <2>1, RestIs
    <2> HIDE DEF a, n
    <2> QED BY <1>2, <2>2
  <1> HIDE DEF a, n
  <1>5. ASSUME NEW i \in 1..(n - (k + j)) PROVE a[i] = b[i]
    <2>1. i \in 1..((n - k) - j) /\ j + i \in 1..(n - k) /\ k + (j + i) = (k + j) + i
      BY <1>1, SMT
    <2> QED BY <1>2, <1>3, <1>4, <2>1
  <1>6. Len(a) = Len(b) /\ Len(b) = n - (k + j)
    BY <1>1, <1>3, <1>4, SMT
  <1>7. a = b
    BY <1>3, <1>4, <1>5, <1>6, SeqEqual
  <1> QED BY <1>7 DEF a, b, r

\* insert_str replaces the two characters at the seam.
LEMMA Splice ==
  ASSUME NEW S, NEW a \in Seq(S), NEW b \in Seq(S), NEW text \in Seq(S), Len(b) >= 2
  PROVE  insert_str(a \o b, text, Len(a)) = (a \o text) \o Rest(b, 2)
  <1> DEFINE s == a \o b
             m == Len(a)
             n == Len(b)
  <1>1. /\ m \in Nat /\ n \in Nat /\ s \in Seq(S) /\ Len(s) = m + n
        /\ \A i \in 1..m : s[i] = a[i]
        /\ \A i \in 1..n : s[m + i] = b[i]
    BY SMT
  <1> HIDE DEF s
  <1>2. SubSeq(s, 1, m) = a
    <2> DEFINE q == SubSeq(s, 1, m)
    <2> HIDE DEF m, n
    <2>1. 1 \in Int /\ m \in Int /\ \A i \in 1..m : s[i] \in S
      BY <1>1 DEF m
    <2>2. /\ q \in Seq(S) /\ Len(q) = IF 1 <= m THEN m - 1 + 1 ELSE 0
          /\ \A i \in 1..(m - 1 + 1) : q[i] = s[1 + i - 1]
      BY <2>1, SubSeqProperties
    <2> HIDE DEF q
    <2>3. Len(q) = m
      BY <1>1, <2>2, SMT
    <2>4. ASSUME NEW i \in 1..m PROVE q[i] = a[i]
      <3>1. i \in 1..(m - 1 + 1) /\ 1 + i - 1 = i
        BY <1>1, SMT
      <3> QED BY <1>1, <2>2, <3>1
    <2>5. q = a
      BY <2>2, <2>3, <2>4, SeqEqual DEF m
    <2> QED BY <2>5 DEF q
  <1>3. SubSeq(s, m + 3, Len(s)) = Rest(b, 2)
    <2> DEFINE k == m + 2
               q == Rest(s, k)
               r == Rest(b, 2)
    <2> HIDE DEF m, n
    <2>1. k \in 0..Len(s) /\ 2 \in 0..n /\ k + 1 = m + 3 /\ k = m + 2
      BY <1>1, SMT DEF n
    <2> HIDE DEF k
    <2>2. q \in Seq(S) /\ Len(q) = Len(s) - k
          /\ \A i \in 1..(Len(s) - k) : q[i] = s[k + i]
      <3>1. s \in Seq(S) /\ k \in 0..Len(s)
        BY <1>1, <2>1
      <3> QED BY <3>1, RestIs
    <2>3. r \in Seq(S) /\ Len(r) = n - 2 /\ \A i \in 1..(n - 2) : r[i] = b[2 + i]
      BY <2>1, RestIs DEF n
    <2> HIDE DEF q, r
    <2>4. Len(q) = n - 2 /\ Len(s) - k = n - 2
      BY <1>1, <2>1, <2>2, SMT
    <2>5. ASSUME NEW i \in 1..(n - 2) PROVE q[i] = r[i]
      <3>1. 2 + i \in 1..n /\ k + i = m + (2 + i)
        BY <1>1, <2>1, SMT
      <3> QED BY <1>1, <2>2, <2>3, <2>4, <3>1
    <2>6. q = r
      BY <2>2, <2>3, <2>4, <2>5, SeqEqual
    <2> QED BY <2>1, <2>6 DEF q, r, Rest
  <1>4. insert_str(s, text, m) = (a \o text) \o Rest(b, 2)
    BY <1>2, <1>3 DEF insert_str
  <1> QED BY <1>4 DEF s

-----------------------------------------------------------------------------
\* A format f and its arguments, all texts over the characters C, with an
\* argument for each directive.
Suits(C, f, args) ==
  /\ f \in Seq(C)
  /\ args \in Seq(Range(args))
  /\ \A arg \in Range(args) : arg.str \in Seq(C) /\ arg.num \in Int31
  /\ Hex \cup {"x"} \subseteq C
  /\ directives(f, Len(f)) <= Len(args)

\* Every conversion yields a text.
LEMMA ConvertedText ==
  ASSUME NEW C, Hex \cup {"x"} \subseteq C, NEW kind \in Directive,
         NEW arg, arg.str \in Seq(C), arg.num \in Int31
  PROVE  converted(kind, arg) \in Seq(C)
  <1> DEFINE n == arg.num
  <1>1. n \in Nat /\ "0" \in Hex
    <2>1. n \in Nat
      BY SMT DEF Int31
    <2>2. Digit[0 + 1] = "0" /\ 0 \in 0..15
      BY SMT DEF Digit
    <2> QED BY <2>1, <2>2 DEF Hex
  <1> HIDE DEF n
  <1>2. /\ uintTostring(n) \in Seq(Hex) /\ num2hexstr(n, FALSE) \in Seq(Hex)
        /\ num2hexstr(n, TRUE) = <<"0", "x">> \o num2hexstr(n, FALSE)
    <2>1. uintTostring(n) \in Seq(Decimal)
      BY <1>1, UintDigits
    <2>2. n \in Int31
      BY DEF n
    <2> QED BY <2>1, <2>2, HexExact, DecimalIsHex, SeqMonotonic
  <1>3. uintTostring(n) \in Seq(C) /\ num2hexstr(n, FALSE) \in Seq(C) /\ <<"0", "x">> \in Seq(C)
    <2>1. "0" \in C /\ "x" \in C /\ Hex \subseteq C
      BY <1>1
    <2>2. <<"0", "x">> \in Seq(C)
      BY <2>1
    <2> QED BY <1>2, <2>1, <2>2, SeqMonotonic
  <1>4. num2hexstr(n, TRUE) \in Seq(C)
    BY <1>2, <1>3, ConcatProperties
  <1>5. /\ kind = "s" => converted(kind, arg) = arg.str
        /\ kind = "d" => converted(kind, arg) = uintTostring(n)
        /\ kind = "H" => converted(kind, arg) = num2hexstr(n, TRUE)
        /\ kind = "h" => converted(kind, arg) = num2hexstr(n, FALSE)
    BY Zenon DEF converted, n
  <1>6. kind \in {"s", "d", "H", "h"}
    BY DEF Directive
  <1> QED BY <1>3, <1>4, <1>5, <1>6

\* directives counts the directives up to a character.
LEMMA Counted ==
  ASSUME NEW f, NEW i \in Nat
  PROVE  /\ directives(f, i) \in Nat
         /\ directives(f, i + 1) = directives(f, i) + (IF directive(f, i + 1) THEN 1 ELSE 0)
  <1> DEFINE D(k) == {j \in 1..k : directive(f, j)}
  <1>1. IsFiniteSet(1..i) /\ D(i) \in SUBSET (1..i)
    <2>1. 1 \in Int /\ i \in Int
      OBVIOUS
    <2> QED BY <2>1, FS_Interval
  <1>2. IsFiniteSet(D(i)) /\ i + 1 \notin D(i)
    <2>1. i + 1 \notin 1..i
      BY SMT
    <2> HIDE DEF D
    <2> QED BY <1>1, <2>1, FS_Subset
  <1>3. 1..(i + 1) = (1..i) \cup {i + 1}
    BY SMT
  <1>4. CASE directive(f, i + 1)
    <2>1. D(i + 1) = D(i) \cup {i + 1}
      BY <1>3, <1>4, Zenon
    <2> HIDE DEF D
    <2>2. Cardinality(D(i + 1)) = Cardinality(D(i)) + 1 /\ Cardinality(D(i)) \in Nat
      BY <1>2, <2>1, FS_AddElement, FS_CardinalityType
    <2> QED BY <1>4, <2>2 DEF directives, D
  <1>5. CASE ~directive(f, i + 1)
    <2>1. D(i + 1) = D(i)
      BY <1>3, <1>5, Zenon
    <2> HIDE DEF D
    <2>2. Cardinality(D(i + 1)) = Cardinality(D(i)) /\ Cardinality(D(i)) \in Nat
      BY <1>2, <2>1, FS_CardinalityType
    <2>3. \A k \in Nat : k + 0 = k
      BY SMT
    <2> QED BY <1>5, <2>2, <2>3 DEF directives, D
  <1> QED BY <1>4, <1>5

\* There is no directive in front of the text.
LEMMA NoneCounted ==
  ASSUME NEW f
  PROVE  directives(f, 0) = 0
  <1>1. 1..0 = {}
    BY SMT
  <1>2. {j \in 1..0 : directive(f, j)} = {}
    BY <1>1
  <1> QED BY <1>2, FS_EmptySet DEF directives

\* No more of them than in the whole text.
LEMMA CountedSoFar ==
  ASSUME NEW f, NEW n \in Nat, NEW i \in 0..n
  PROVE  directives(f, i) <= directives(f, n)
  <1> DEFINE D(k) == {j \in 1..k : directive(f, j)}
  <1>1. IsFiniteSet(1..n) /\ D(n) \in SUBSET (1..n)
    <2>1. 1 \in Int /\ n \in Int
      OBVIOUS
    <2> QED BY <2>1, FS_Interval
  <1>2. D(i) \in SUBSET D(n)
    <2>1. \A j \in 1..i : j \in 1..n
      BY SMT
    <2> QED BY <2>1
  <1> HIDE DEF D
  <1>3. IsFiniteSet(D(n))
    BY <1>1, FS_Subset
  <1>4. Cardinality(D(i)) <= Cardinality(D(n))
    BY <1>2, <1>3, FS_Subset
  <1> QED BY <1>4 DEF directives, D

\* Directives do not overlap.
LEMMA OneAtATime ==
  ASSUME NEW C, NEW f \in Seq(C), NEW i \in Nat, directive(f, i)
  PROVE  ~directive(f, i + 1) /\ i + 1 <= Len(f) /\ i >= 1 /\ f[i + 1] \in Directive
  <1>1. i \in 1..(Len(f) - 1) /\ f[i + 1] \in Directive
    BY DEF directive
  <1>2. "%" \notin Directive
    BY DEF Directive
  <1>3. i >= 1 /\ i + 1 <= Len(f)
    BY <1>1, SMT
  <1> QED BY <1>1, <1>2, <1>3 DEF directive

\* What Expansion has for the character i of f.
piece(f, args, i) ==
  IF directive(f, i) THEN converted(f[i + 1], args[directives(f, i)])
  ELSE IF directive(f, i - 1) THEN << >>
  ELSE <<f[i]>>

\* Each piece is a text, and each directive has its argument.
LEMMA PieceIsText ==
  ASSUME NEW C, NEW f, NEW args, Suits(C, f, args), NEW i \in 1..Len(f)
  PROVE  /\ piece(f, args, i) \in Seq(C)
         /\ directive(f, i) => directives(f, i) \in 1..Len(args)
  <1>1. f \in Seq(C) /\ Len(f) \in Nat /\ Len(args) \in Nat /\ f[i] \in C
    BY DEF Suits
  <1>2. CASE directive(f, i)
    <2> DEFINE k == i - 1
    <2>1. k \in Nat /\ i = k + 1 /\ i \in Nat /\ i \in 0..Len(f) /\ Len(f) \in Nat
      BY <1>1, SMT
    <2> HIDE DEF k
    <2>2. directives(f, i) = directives(f, k) + 1 /\ directives(f, k) \in Nat
      BY <1>2, <2>1, Counted
    <2>3. directives(f, i) <= directives(f, Len(f))
      BY <2>1, CountedSoFar
    <2>4. directives(f, Len(f)) <= Len(args) /\ directives(f, Len(f)) \in Nat
      BY <1>1, Counted DEF Suits
    <2>5. directives(f, i) \in 1..Len(args)
      BY <1>1, <2>2, <2>3, <2>4, SMT
    <2>6. args[directives(f, i)] \in Range(args)
      BY <2>5 DEF Suits, Range
    <2>7. f[i + 1] \in Directive
      BY <1>2 DEF directive
    <2>8. converted(f[i + 1], args[directives(f, i)]) \in Seq(C)
      BY <2>6, <2>7, ConvertedText DEF Suits
    <2> QED BY <1>2, <2>5, <2>8 DEF piece
  <1>3. CASE ~directive(f, i)
    <2>1. << >> \in Seq(C) /\ <<f[i]>> \in Seq(C)
      BY <1>1
    <2> QED BY <1>3, <2>1 DEF piece
  <1> QED BY <1>2, <1>3

\* P[i] is the expansion of the first i characters.
Expands(P, C, f, args) ==
  /\ P[0] = << >>
  /\ \A i \in 0..Len(f) : P[i] \in Seq(C)
  /\ \A i \in 1..Len(f) : P[i] = P[i - 1] \o piece(f, args, i)

\* There are such P, defined by recursion.
LEMMA ExpandsExists ==
  ASSUME NEW C, NEW f, NEW args, Suits(C, f, args)
  PROVE  \E P : Expands(P, C, f, args)
  <1> DEFINE S == Seq(C)
             n == Len(f)
             B == {0}
             base == [i \in {0} |-> << >>]
             parent == [i \in Nat |-> i - 1]
             step == [x \in Nat \X S |->
                        IF x[1] \in 1..n THEN x[2] \o piece(f, args, x[1]) ELSE x[2]]
  <1>0. n \in Nat
    BY DEF Suits
  <1>1. Recursive(S, B, base, parent, step)
    <2>1. ASSUME NEW i \in B PROVE base[i] \in S
      OBVIOUS
    <2>2. ASSUME NEW i \in Nat \ B PROVE parent[i] \in Nat /\ parent[i] < i
      BY SMT
    <2>3. ASSUME NEW i \in Nat \ B, NEW s \in S PROVE step[<<i, s>>] \in S
      <3>1. step[<<i, s>>] = IF i \in 1..n THEN s \o piece(f, args, i) ELSE s
        OBVIOUS
      <3>2. i \in 1..n => piece(f, args, i) \in S
        BY PieceIsText
      <3>3. i \in 1..n => s \o piece(f, args, i) \in S
        <4> HIDE DEF step
        <4> QED BY <3>2, ConcatProperties
      <3> HIDE DEF step, S
      <3> QED BY <3>1, <3>3
    <2> HIDE DEF B, base, parent, step, S
    <2> QED BY <2>1, <2>2, <2>3 DEF Recursive
  <1>2. PICK g \in [Nat -> S] : Solution(g, B, base, parent, step)
    <2> HIDE DEF B, base, parent, step, S
    <2> QED BY <1>1, Recursion
  <1>3. g[0] = << >>
    BY <1>2 DEF Solution, Equation
  <1>4. ASSUME NEW i \in 1..n PROVE g[i] = g[i - 1] \o piece(f, args, i)
    <2>1. i \in Nat /\ i \notin B /\ parent[i] = i - 1 /\ i - 1 \in Nat
      BY SMT
    <2>2. g[i] = step[<<i, g[i - 1]>>]
      <3> HIDE DEF B, base, parent, step, S
      <3> QED BY <1>2, <2>1 DEF Solution, Equation
    <2>3. g[i - 1] \in S
      <3> HIDE DEF S
      <3> QED BY <1>2, <2>1
    <2> HIDE DEF S
    <2> QED BY <2>1, <2>2, <2>3
  <1>5. \A i \in 0..n : g[i] \in S
    <2>1. \A i \in 0..n : i \in Nat
      BY SMT
    <2> HIDE DEF S
    <2> QED BY <1>2, <2>1
  <1> QED BY <1>3, <1>4, <1>5 DEF Expands

\* Expansion is what they come to.
LEMMA ExpansionIs ==
  ASSUME NEW C, NEW f, NEW args, NEW P, Suits(C, f, args), Expands(P, C, f, args)
  PROVE  Expansion(f, args) = P[Len(f)]
  <1> DEFINE n == Len(f)
             seqs == [i \in 1..n |-> piece(f, args, i)]
             loop(g) == [i \in 1..n |-> IF i = 1 THEN seqs[i] ELSE g[i - 1] \o seqs[i]]
             flatten == CHOOSE g : g = loop(g)
             w == [i \in 1..n |-> P[i]]
  <1>0. n \in Nat
    BY DEF Suits
  <1>1. Expansion(f, args) = FlattenSeq(seqs)
    BY DEF Expansion, piece
  <1>2. Len(seqs) = n
    BY <1>0, SMT
  <1>3. CASE n = 0
    <2>1. 1..0 = {} /\ n = 0
      BY <1>3, SMT
    <2>2. seqs = << >> /\ Len(seqs) = 0
      BY <1>2, <2>1
    <2> HIDE DEF seqs
    <2>3. FlattenSeq(seqs) = << >>
      BY <2>2 DEF FlattenSeq
    <2> QED BY <1>1, <2>1, <2>3 DEF Expands
  <1>4. CASE n # 0
    <2>1. FlattenSeq(seqs) = flatten[n]
      <3> HIDE DEF seqs, n
      <3> QED BY <1>2, <1>4 DEF FlattenSeq
    <2>2. \A i \in 1..n : /\ i # 1 => i - 1 \in 1..n
                          /\ i \in 1..Len(f) /\ 1 - 1 = 0 /\ n \in 1..n
      BY <1>0, <1>4, SMT
    <2>3. w = loop(w)
      <3> SUFFICES ASSUME NEW i \in 1..n
                   PROVE  P[i] = IF i = 1 THEN piece(f, args, i)
                                 ELSE w[i - 1] \o piece(f, args, i)
        BY Zenon
      <3>1. P[i] = P[i - 1] \o piece(f, args, i)
        BY DEF Expands
      <3>2. CASE i = 1
        <4>1. P[i - 1] = << >>
          BY <2>2, <3>2 DEF Expands
        <4>2. piece(f, args, i) \in Seq(C)
          BY PieceIsText
        <4>3. << >> \o piece(f, args, i) = piece(f, args, i)
          BY <4>2, ConcatEmptySeq
        <4> QED BY <3>1, <3>2, <4>1, <4>3
      <3>3. CASE i # 1
        <4>1. w[i - 1] = P[i - 1]
          BY <2>2, <3>3
        <4> QED BY <3>1, <3>3, <4>1
      <3> QED BY <3>2, <3>3
    <2>4. flatten = loop(flatten)
      BY <2>3, Zenon
    <2>5. \A i \in 1..n : flatten[i] = IF i = 1 THEN seqs[i] ELSE flatten[i - 1] \o seqs[i]
      <3> HIDE DEF flatten, seqs
      <3> QED BY <2>4, Zenon
    <2>6. \A i \in 1..n : w[i] = IF i = 1 THEN seqs[i] ELSE w[i - 1] \o seqs[i]
      <3> HIDE DEF w, seqs
      <3> QED BY <2>3, Zenon
    <2> HIDE DEF flatten, w, seqs, loop, n
    <2> DEFINE T == {i \in 0..n : i # 0 => flatten[i] = w[i]}
    <2>7. 0 \in T
      BY <1>0, SMT
    <2>8. ASSUME NEW i \in 0..(n - 1), i \in T PROVE i + 1 \in T
      <3>1. /\ i + 1 \in 0..n /\ i + 1 # 0 /\ (i + 1) - 1 = i /\ i + 1 \in 1..n
            /\ i + 1 # 1 => i # 0
        BY <1>0, SMT
      <3>2. flatten[i + 1] = IF i + 1 = 1 THEN seqs[i + 1] ELSE flatten[i] \o seqs[i + 1]
        BY <2>5, <3>1
      <3>3. w[i + 1] = IF i + 1 = 1 THEN seqs[i + 1] ELSE w[i] \o seqs[i + 1]
        BY <2>6, <3>1
      <3> QED BY <2>8, <3>1, <3>2, <3>3
    <2>9. n \in T
      <3> HIDE DEF T
      <3> QED BY <1>0, <2>7, <2>8, UpTo
    <2>10. w[n] = P[n]
      <3>1. n \in 1..n
        BY <1>0, <1>4, SMT
      <3> QED BY <3>1 DEF w
    <2> QED BY <1>1, <1>4, <2>1, <2>9, <2>10 DEF n
  <1> QED BY <1>3, <1>4

\* The loop of printk when it has passed k characters of f.
Passed(P, f, args, k) ==
  Scan(P[k] \o Rest(f, k), Len(P[k]), Rest(args, directives(f, k)))

\* What the loop looks at there.
LEMMA LooksAt ==
  ASSUME NEW C, NEW f, NEW args, NEW P, Suits(C, f, args), Expands(P, C, f, args),
         NEW k \in 0..Len(f)
  PROVE  LET s == Passed(P, f, args, k) IN
         /\ s.offset >= Len(s.str) <=> k = Len(f)
         /\ s.offset = Len(P[k]) /\ s.str = P[k] \o Rest(f, k)
         /\ s.rest = Rest(args, directives(f, k))
         /\ at_directive(s) <=> directive(f, k + 1)
         /\ directive(f, k + 1) => s.str[s.offset + 2] = f[k + 2]
  <1> DEFINE s == Passed(P, f, args, k)
             p == P[k]
             r == Rest(f, k)
             m == Len(P[k])
             n == Len(f)
             t == p \o r
  <1>1. s.offset = m /\ s.str = t /\ s.rest = Rest(args, directives(f, k))
    BY DEF Passed, Scan
  <1>2. f \in Seq(C) /\ p \in Seq(C)
    BY DEF Suits, Expands
  <1>3. r \in Seq(C) /\ Len(r) = n - k /\ \A j \in 1..(n - k) : r[j] = f[k + j]
    BY <1>2, RestIs
  <1>4. n \in Nat /\ m \in Nat /\ k \in 0..n
    BY <1>2
  <1> HIDE DEF r, p, n, m
  <1>5. /\ Len(t) = m + (n - k)
        /\ \A j \in 1..(n - k) : t[m + j] = f[k + j]
    <2>1. /\ Len(t) = m + Len(r)
          /\ \A i \in 1..(m + Len(r)) : t[i] = IF i <= m THEN p[i] ELSE r[i - m]
      BY <1>2, <1>3, ConcatProperties DEF m, p
    <2>2. ASSUME NEW j \in 1..(n - k) PROVE t[m + j] = f[k + j]
      <3>1. m + j \in 1..(m + Len(r)) /\ ~(m + j <= m) /\ (m + j) - m = j
        BY <1>3, <1>4, SMT
      <3> HIDE DEF t
      <3> QED BY <1>3, <2>1, <3>1
    <2> HIDE DEF t
    <2> QED BY <1>3, <2>1, <2>2
  <1> HIDE DEF s, t
  <1>6. s.offset >= Len(s.str) <=> k = n
    BY <1>1, <1>4, <1>5, SMT
  <1>7. /\ m + 1 \in 1..(Len(t) - 1) <=> k + 1 \in 1..(n - 1)
        /\ k + 1 \in 1..(n - 1) => 1 \in 1..(n - k) /\ 2 \in 1..(n - k)
        /\ (m + 1) + 1 = m + 2 /\ (k + 1) + 1 = k + 2
    BY <1>4, <1>5, SMT
  <1>8. k + 1 \in 1..(n - 1) => t[m + 1] = f[k + 1] /\ t[m + 2] = f[k + 2]
    BY <1>5, <1>7
  <1>9. directive(t, m + 1) <=> directive(f, k + 1)
    BY <1>7, <1>8 DEF directive, n
  <1>10. directive(f, k + 1) => t[m + 2] = f[k + 2]
    BY <1>8 DEF directive, n
  <1> QED BY <1>1, <1>6, <1>9, <1>10 DEF at_directive, s, n, m, p, r, t

\* A turn that finds no directive passes one character.
LEMMA PlainTurn ==
  ASSUME NEW C, NEW f, NEW args, NEW P, Suits(C, f, args), Expands(P, C, f, args),
         NEW k \in 0..(Len(f) - 1), ~directive(f, k), ~directive(f, k + 1)
  PROVE  printk_turn(Passed(P, f, args, k)) = Passed(P, f, args, k + 1)
  <1> DEFINE s == Passed(P, f, args, k)
             c == <<f[k + 1]>>
             r == Rest(f, k + 1)
             n == Len(f)
             p == P[k]
  <1>1. f \in Seq(C) /\ n \in Nat
    BY DEF Suits
  <1>2. k \in 0..n /\ k + 1 \in 1..n /\ k + 1 \in 0..n /\ (k + 1) - 1 = k /\ k \in Nat
        /\ k \in 0..(n - 1)
    BY <1>1, SMT
  <1>3. printk_turn(s) = Scan(p \o Rest(f, k), Len(p) + 1, Rest(args, directives(f, k)))
    <2>1. /\ s.offset = Len(p) /\ s.str = p \o Rest(f, k) /\ s.rest = Rest(args, directives(f, k))
          /\ ~at_directive(s)
      BY <1>2, LooksAt
    <2> HIDE DEF s, p
    <2> QED BY <2>1 DEF printk_turn
  <1>4. p \in Seq(C) /\ c \in Seq(C) /\ Rest(f, k) = c \o r /\ r \in Seq(C)
    <2>1. p \in Seq(C)
      BY <1>2 DEF Expands
    <2>2. f[k + 1] \in C
      BY <1>1, <1>2
    <2>3. c \in Seq(C)
      BY <2>2
    <2>4. Rest(f, k) = c \o r
      BY <1>1, RestFirst
    <2>5. r \in Seq(C)
      <3> DEFINE j == k + 1
      <3> HIDE DEF j
      <3>1. j \in 0..Len(f)
        BY <1>2 DEF j
      <3> QED BY <1>1, <3>1, RestIs DEF j
    <2> QED BY <2>1, <2>3, <2>4, <2>5
  <1>5. P[k + 1] = p \o c
    BY <1>2 DEF Expands, piece
  <1> HIDE DEF c, r, s, n, p
  <1>6. p \o Rest(f, k) = P[k + 1] \o r
    <2>1. (p \o c) \o r = p \o (c \o r)
      BY <1>4, ConcatAssociative
    <2> QED BY <1>4, <1>5, <2>1, Zenon
  <1>7. Len(P[k + 1]) = Len(p) + 1
    <2>1. Len(c) = 1
      BY DEF c
    <2>2. Len(p \o c) = Len(p) + Len(c)
      BY <1>4, ConcatProperties
    <2> QED BY <1>5, <2>1, <2>2
  <1>8. directives(f, k + 1) = directives(f, k)
    <2>1. /\ directives(f, k + 1) = directives(f, k) + (IF directive(f, k + 1) THEN 1 ELSE 0)
          /\ directives(f, k) \in Nat
      BY <1>2, Counted
    <2> QED BY <2>1
  <1> QED BY <1>3, <1>6, <1>7, <1>8 DEF Passed, s, r

\* A turn that finds one passes both its characters.
LEMMA DirectiveTurn ==
  ASSUME NEW C, NEW f, NEW args, NEW P, Suits(C, f, args), Expands(P, C, f, args),
         NEW k \in 0..(Len(f) - 1), directive(f, k + 1)
  PROVE  /\ k + 2 \in 0..Len(f) /\ ~directive(f, k + 2)
         /\ printk_turn(Passed(P, f, args, k)) = Passed(P, f, args, k + 2)
  <1> DEFINE s == Passed(P, f, args, k)
             n == Len(f)
             d == directives(f, k)
             text == converted(f[k + 2], args[d + 1])
             p == P[k]
             b == Rest(f, k)
  <1>1. f \in Seq(C) /\ n \in Nat /\ args \in Seq(Range(args)) /\ p \in Seq(C) /\ Len(args) \in Nat
    <2>1. f \in Seq(C) /\ args \in Seq(Range(args))
      BY DEF Suits
    <2>2. n \in Nat /\ Len(args) \in Nat
      BY <2>1
    <2>3. k \in 0..n
      BY <2>2, SMT
    <2> QED BY <2>1, <2>2, <2>3 DEF Expands
  <1>2. /\ k \in 0..n /\ k + 1 \in 1..n /\ k \in Nat /\ k + 1 \in Nat
        /\ (k + 1) + 1 = k + 2 /\ (k + 1) - 1 = k /\ (k + 2) - 1 = k + 1
    BY <1>1, SMT
  <1>3. ~directive(f, k + 2) /\ k + 2 <= n
    BY <1>1, <1>2, OneAtATime
  <1>4. k + 2 \in 1..n /\ k + 2 \in 0..n
    BY <1>2, <1>3, SMT
  <1>5. /\ directives(f, k + 1) = d + 1 /\ directives(f, k + 2) = d + 1
        /\ d \in Nat /\ d + 1 \in 1..Len(args)
    <2>1. /\ directives(f, k + 1) = d + (IF directive(f, k + 1) THEN 1 ELSE 0)
          /\ d \in Nat /\ directives(f, k + 1) \in Nat
      BY <1>2, Counted
    <2>2. directives(f, (k + 1) + 1) =
            directives(f, k + 1) + (IF directive(f, (k + 1) + 1) THEN 1 ELSE 0)
      BY <1>2, Counted
    <2>3. directives(f, k + 1) \in 1..Len(args)
      BY <1>2, PieceIsText
    <2> HIDE DEF d
    <2>4. directives(f, k + 1) = d + 1
      BY <2>1
    <2>5. directives(f, k + 2) = directives(f, k + 1)
      <3>1. \A j \in Nat : j + 0 = j
        BY SMT
      <3> QED BY <1>2, <1>3, <2>1, <2>2, <3>1
    <2> QED BY <2>1, <2>3, <2>4, <2>5
  <1>6. d \in 0..(Len(args) - 1)
    BY <1>1, <1>5, SMT
  <1>7. /\ Head(Rest(args, d)) = args[d + 1]
        /\ Tail(Rest(args, d)) = Rest(args, d + 1)
    <2> HIDE DEF d
    <2> QED BY <1>1, <1>6, RestFirst
  <1>8. text = piece(f, args, k + 1) /\ text \in Seq(C)
    BY <1>2, <1>5, PieceIsText DEF piece
  <1>9. P[k + 1] = p \o text
    BY <1>2, <1>8 DEF Expands
  <1>10. P[k + 2] = p \o text
    <2>1. piece(f, args, k + 2) = << >>
      BY <1>2, <1>3 DEF piece
    <2>2. P[k + 2] = P[k + 1] \o << >>
      BY <1>2, <1>4, <2>1 DEF Expands
    <2>3. p \o text \in Seq(C)
      <3> HIDE DEF p, text
      <3> QED BY <1>1, <1>8, ConcatProperties
    <2> HIDE DEF p, text
    <2> QED BY <1>9, <2>2, <2>3, ConcatEmptySeq
  <1>11. /\ s.offset = Len(p) /\ s.str = p \o b /\ s.rest = Rest(args, d)
         /\ at_directive(s) /\ s.str[s.offset + 2] = f[k + 2]
    BY <1>2, LooksAt
  <1>12. printk_turn(s) = Scan(insert_str(p \o b, text, Len(p)), Len(p) + Len(text),
                               Rest(args, d + 1))
    <2> HIDE DEF s, p, b, d
    <2> QED BY <1>7, <1>11 DEF printk_turn
  <1>13. b \in Seq(C) /\ Len(b) >= 2 /\ Rest(b, 2) = Rest(f, k + 2)
    <2>1. 2 \in 0..(n - k)
      BY <1>1, <1>2, <1>3, SMT
    <2>2. b \in Seq(C) /\ Len(b) = n - k
      BY <1>1, <1>2, RestIs
    <2>3. Rest(b, 2) = Rest(f, k + 2)
      BY <1>1, <1>2, <2>1, RestOfRest
    <2> HIDE DEF b, n
    <2>4. Len(b) >= 2
      BY <2>1, <2>2, <1>1, <1>2, SMT
    <2> QED BY <2>2, <2>3, <2>4
  <1> HIDE DEF p, b, text, d, s, n
  <1>14. insert_str(p \o b, text, Len(p)) = (p \o text) \o Rest(f, k + 2)
    BY <1>1, <1>8, <1>13, Splice
  <1>15. Len(P[k + 2]) = Len(p) + Len(text)
    BY <1>1, <1>8, <1>10, ConcatProperties
  <1>16. printk_turn(s) = Passed(P, f, args, k + 2)
    BY <1>5, <1>10, <1>12, <1>14, <1>15 DEF Passed
  <1> QED BY <1>3, <1>4, <1>16 DEF s, n

\* Where the loop can be.
LoopPlaces(P, f, args) == {Passed(P, f, args, k) : k \in {j \in 0..Len(f) : ~directive(f, j)}}

\* A turn of the loop, or none when the text is at its end.
turn(s) == IF s.offset >= Len(s.str) THEN s ELSE printk_turn(s)

\* A turn leads from one place to a later one, until the text is at its end.
LEMMA OneTurn ==
  ASSUME NEW C, NEW f, NEW args, NEW P, Suits(C, f, args), Expands(P, C, f, args),
         NEW k \in 0..Len(f), ~directive(f, k)
  PROVE  \E j \in 0..Len(f) : /\ ~directive(f, j) /\ (k < Len(f) => k < j)
                              /\ j >= k
                              /\ turn(Passed(P, f, args, k)) = Passed(P, f, args, j)
  <1> DEFINE s == Passed(P, f, args, k)
             n == Len(f)
  <1>1. n \in Nat
    BY DEF Suits
  <1>2. s.offset >= Len(s.str) <=> k = n
    BY LooksAt
  <1>3. CASE k = n
    <2>1. turn(s) = s
      <3> HIDE DEF s
      <3> QED BY <1>2, <1>3 DEF turn
    <2>2. ~(k < n) /\ k >= k
      BY <1>1, <1>3, SMT
    <2> QED BY <2>1, <2>2
  <1>4. CASE k # n
    <2>1. k \in 0..(n - 1) /\ k + 1 \in 0..n /\ k < k + 1 /\ k < k + 2 /\ k + 1 >= k /\ k + 2 >= k
      BY <1>1, <1>4, SMT
    <2>2. turn(s) = printk_turn(s)
      <3> HIDE DEF s
      <3> QED BY <1>2, <1>4 DEF turn
    <2>3. CASE directive(f, k + 1)
      <3>1. /\ k + 2 \in 0..n /\ ~directive(f, k + 2)
            /\ printk_turn(s) = Passed(P, f, args, k + 2)
        BY <2>1, <2>3, DirectiveTurn
      <3> HIDE DEF s
      <3> QED BY <2>1, <2>2, <3>1 DEF s
    <2>4. CASE ~directive(f, k + 1)
      <3>1. printk_turn(s) = Passed(P, f, args, k + 1)
        BY <2>1, <2>4, PlainTurn
      <3> HIDE DEF s
      <3> QED BY <2>1, <2>2, <2>4, <3>1 DEF s
    <2> QED BY <2>3, <2>4
  <1> QED BY <1>3, <1>4

\* The loop starts with nothing passed.
LEMMA FirstPlace ==
  ASSUME NEW C, NEW f, NEW args, NEW P, Suits(C, f, args), Expands(P, C, f, args)
  PROVE  /\ Passed(P, f, args, 0) = Scan(f, 0, args)
         /\ ~directive(f, 0) /\ 0 \in 0..Len(f)
  <1>1. f \in Seq(C) /\ args \in Seq(Range(args)) /\ Len(f) \in Nat
    BY DEF Suits
  <1>2. Rest(f, 0) = f /\ Rest(args, 0) = args
    BY <1>1, RestEnds
  <1>3. P[0] = << >> /\ << >> \o f = f
    BY <1>1, ConcatEmptySeq DEF Expands
  <1>4. Len(<< >>) = 0
    OBVIOUS
  <1>5. Passed(P, f, args, 0) = Scan(f, 0, args)
    BY <1>2, <1>3, <1>4, NoneCounted DEF Passed
  <1>6. 0 \notin 1..(Len(f) - 1) /\ 0 \in 0..Len(f)
    BY <1>1, SMT
  <1> QED BY <1>5, <1>6 DEF directive

\* Its turns: a function by recursion.
loop_turns(t, f, args) ==
  t = [i \in Nat |-> IF i = 0 THEN Scan(f, 0, args) ELSE turn(t[i - 1])]

\* There is such a function.
LEMMA TurnsExist ==
  ASSUME NEW C, NEW f, NEW args, NEW P, Suits(C, f, args), Expands(P, C, f, args)
  PROVE  \E t : loop_turns(t, f, args)
  <1> DEFINE S == LoopPlaces(P, f, args)
             B == {0}
             first == Scan(f, 0, args)
             base == [i \in {0} |-> first]
             parent == [i \in Nat |-> i - 1]
             step == [x \in Nat \X S |-> turn(x[2])]
  <1>1. first \in S
    BY FirstPlace DEF LoopPlaces
  <1>2. ASSUME NEW s \in S PROVE turn(s) \in S
    <2>1. PICK k \in 0..Len(f) : ~directive(f, k) /\ s = Passed(P, f, args, k)
      BY DEF LoopPlaces
    <2>2. PICK j \in 0..Len(f) : ~directive(f, j) /\ turn(s) = Passed(P, f, args, j)
      BY <2>1, OneTurn
    <2> QED BY <2>2 DEF LoopPlaces
  <1> HIDE DEF S, first
  <1>3. Recursive(S, B, base, parent, step)
    <2>1. ASSUME NEW i \in B PROVE base[i] \in S
      BY <1>1
    <2>2. ASSUME NEW i \in Nat \ B PROVE parent[i] \in Nat /\ parent[i] < i
      BY SMT
    <2>3. ASSUME NEW i \in Nat \ B, NEW s \in S PROVE step[<<i, s>>] \in S
      <3>1. step[<<i, s>>] = turn(s)
        OBVIOUS
      <3> HIDE DEF step
      <3> QED BY <1>2, <3>1
    <2> HIDE DEF B, base, parent, step
    <2> QED BY <2>1, <2>2, <2>3 DEF Recursive
  <1>4. PICK t \in [Nat -> S] : Solution(t, B, base, parent, step)
    <2> HIDE DEF B, base, parent, step
    <2> QED BY <1>3, Recursion
  <1>5. ASSUME NEW i \in Nat PROVE t[i] = IF i = 0 THEN first ELSE turn(t[i - 1])
    <2>1. CASE i = 0
      <3>1. base[i] = first /\ i \in B
        BY <2>1
      <3> HIDE DEF B, base, parent, step
      <3> QED BY <1>4, <2>1, <3>1 DEF Solution, Equation
    <2>2. CASE i # 0
      <3>1. i \notin B /\ parent[i] = i - 1 /\ i - 1 \in Nat
        BY <2>2, SMT
      <3>2. t[i - 1] \in S
        BY <1>4, <3>1
      <3>3. step[<<i, t[i - 1]>>] = turn(t[i - 1])
        BY <3>2
      <3> HIDE DEF B, base, parent, step
      <3> QED BY <1>4, <2>2, <3>1, <3>3 DEF Solution, Equation
    <2> QED BY <2>1, <2>2
  <1>6. t = [i \in Nat |-> IF i = 0 THEN first ELSE turn(t[i - 1])]
    <2>1. t = [i \in Nat |-> t[i]]
      BY <1>4
    <2> QED BY <1>5, <2>1
  <1> QED BY <1>6 DEF loop_turns, first

\* After as many turns as it has characters the loop has passed the whole
\* format, and its text is the expansion.
LEMMA PrintkIs ==
  ASSUME NEW C, NEW f, NEW args, NEW P, Suits(C, f, args), Expands(P, C, f, args)
  PROVE  printk(f, args) = P[Len(f)]
  <1> DEFINE n == Len(f)
             turns == CHOOSE t : loop_turns(t, f, args)
  <1>0. n \in Nat /\ f \in Seq(C)
    BY DEF Suits
  <1>1. printk(f, args) = turns[n].str
    BY DEF printk, loop_turns, turn
  <1>2. loop_turns(turns, f, args)
    BY TurnsExist
  <1> HIDE DEF turns
  <1>3. \A i \in Nat : turns[i] = IF i = 0 THEN Scan(f, 0, args) ELSE turn(turns[i - 1])
    BY <1>2, Zenon DEF loop_turns
  <1> DEFINE T == {i \in 0..n : \E k \in 0..n :
                     k >= i /\ ~directive(f, k) /\ turns[i] = Passed(P, f, args, k)}
  <1>4. 0 \in T
    <2>1. 0 \in Nat /\ 0 \in 0..n /\ 0 >= 0
      BY <1>0, SMT
    <2>2. turns[0] = Scan(f, 0, args)
      BY <1>3, <2>1
    <2> QED BY <2>1, <2>2, FirstPlace
  <1>5. ASSUME NEW i \in 0..(n - 1), i \in T PROVE i + 1 \in T
    <2>1. PICK k \in 0..n :
            k >= i /\ ~directive(f, k) /\ turns[i] = Passed(P, f, args, k)
      BY <1>5
    <2>2. i + 1 \in Nat /\ i + 1 # 0 /\ (i + 1) - 1 = i /\ i + 1 \in 0..n
      BY <1>0, SMT
    <2>3. turns[i + 1] = turn(turns[i])
      BY <1>3, <2>2
    <2>4. PICK j \in 0..n : /\ ~directive(f, j) /\ (k < n => k < j) /\ j >= k
                            /\ turn(Passed(P, f, args, k)) = Passed(P, f, args, j)
      BY <2>1, OneTurn
    <2>5. j >= i + 1
      BY <1>0, <2>1, <2>2, <2>4, SMT
    <2> QED BY <2>1, <2>2, <2>3, <2>4, <2>5
  <1>6. n \in T
    <2> HIDE DEF T
    <2> QED BY <1>0, <1>4, <1>5, UpTo
  <1>7. turns[n] = Passed(P, f, args, n)
    <2>1. PICK k \in 0..n : k >= n /\ turns[n] = Passed(P, f, args, k)
      BY <1>6
    <2>2. k = n
      BY <1>0, <2>1, SMT
    <2> QED BY <2>1, <2>2
  <1>8. Passed(P, f, args, n).str = P[n] \o Rest(f, n)
    BY DEF Passed, Scan
  <1>9. Rest(f, n) = << >> /\ P[n] \in Seq(C)
    <2>1. n \in 0..n
      BY <1>0, SMT
    <2> QED BY <1>0, <2>1, RestEnds DEF Expands
  <1> HIDE DEF n
  <1>10. P[n] \o << >> = P[n]
    BY <1>9, ConcatEmptySeq
  <1> QED BY <1>1, <1>7, <1>8, <1>9, <1>10 DEF n

\* printk prints the expansion of its format.
LEMMA PrintkIsExpansion ==
  ASSUME NEW C, NEW f, NEW args, Suits(C, f, args)
  PROVE  printk(f, args) = Expansion(f, args) /\ printk(f, args) \in Seq(C)
  <1>1. PICK P : Expands(P, C, f, args)
    BY ExpandsExists
  <1>2. printk(f, args) = P[Len(f)] /\ Expansion(f, args) = P[Len(f)]
    BY <1>1, PrintkIs, ExpansionIs
  <1>3. Len(f) \in 0..Len(f)
    <2>1. Len(f) \in Nat
      BY DEF Suits
    <2> QED BY <2>1, SMT
  <1> QED BY <1>1, <1>2, <1>3 DEF Expands

\* A call of printk has an argument for each directive.
LEMMA CallSuits ==
  ASSUME NEW call \in Calls, NEW C, Hex \cup {"x"} \subseteq C, Range(call[1]) \subseteq C,
         \A arg \in Range(call[2]) : Range(arg.str) \subseteq C
  PROVE  Suits(C, call[1], call[2])
  <1>1. /\ call[1] \in Seq(Range(call[1])) /\ call[2] \in Seq(Range(call[2]))
        /\ \A arg \in Range(call[2]) : arg.str \in Seq(Range(arg.str)) /\ arg.num \in Int31
        /\ directives(call[1], Len(call[1])) <= Len(call[2])
    BY PrintkAssumption DEF PrintkAssumption, IsText
  <1>2. call[1] \in Seq(C) /\ \A arg \in Range(call[2]) : arg.str \in Seq(C)
    BY <1>1, SeqMonotonic
  <1> QED BY <1>1, <1>2 DEF Suits

\* For every call printk prints the expansion of its format.
THEOREM PrintkIsExact ==
  \A call \in Calls : printk(call[1], call[2]) = Expansion(call[1], call[2])
  <1> SUFFICES ASSUME NEW call \in Calls
               PROVE  printk(call[1], call[2]) = Expansion(call[1], call[2])
    OBVIOUS
  <1> DEFINE C == (Hex \cup {"x"}) \cup Range(call[1])
                    \cup UNION {Range(arg.str) : arg \in Range(call[2])}
  <1>1. /\ Hex \cup {"x"} \subseteq C /\ Range(call[1]) \subseteq C
        /\ \A arg \in Range(call[2]) : Range(arg.str) \subseteq C
    BY Zenon
  <1> HIDE DEF C
  <1> QED BY <1>1, CallSuits, PrintkIsExpansion

\* printk prints the expansion of its format for every format and arguments:
\* inserted texts of any length, also empty or with directives in them.
THEOREM PrintkPrintsExpansion == EchoSpec => []PrintkExpands
  <1>1. PrintkExpands
    BY PrintkIsExact DEF PrintkExpands
  <1> QED BY <1>1, PTL

\* The texts of numbers are exact, for every number that an int and an unsigned
\* int can both hold.
THEOREM NumbersArePrintedExactly == EchoSpec => []ConversionsExact
  <1>1. ConversionsExact
    <2>1. Numbers \subseteq Int31
      BY PrintkAssumption DEF PrintkAssumption
    <2> QED BY <2>1, ConversionsAreExact DEF ConversionsExact
  <1> QED BY <1>1, PTL

-----------------------------------------------------------------------------
Places == {"idle", "next", "putc", "store", "test_x", "inc_x", "test_y", "wrap_x",
           "inc_y", "uproll", "back_x", "back_y", "locate", "index_high", "high",
           "index_low", "low"}

\* Inside move_cursor.
Moving == {"locate", "index_high", "high", "index_low", "low"}

\* The last row has been rolled up and vga_putc has not reset the cursor yet.
Rolled == /\ cursor_x = Cols - 1 /\ cursor_y = Rows - 2
          /\ Len(printed) + gap = (Rows - 1) * Cols

\* How far the two variables of the cursor are behind the text and its gap at
\* each step.
Behind ==
  /\ pc \in {"idle", "next", "putc", "store"} =>
       Len(printed) + gap = cursor_y * Cols + cursor_x
  /\ pc = "test_x" => Len(printed) + gap = cursor_y * Cols + cursor_x + 1
  /\ pc = "inc_x" => /\ Len(printed) + gap = cursor_y * Cols + cursor_x + 1
                     /\ cursor_x # Cols - 1
  /\ pc = "test_y" => Len(printed) + gap = cursor_y * Cols + Cols /\ cursor_x = Cols - 1
  /\ pc = "wrap_x" => Len(printed) + gap = cursor_y * Cols + Cols /\ cursor_y # Rows - 1
  /\ pc = "inc_y" => /\ Len(printed) + gap = cursor_y * Cols + Cols
                     /\ cursor_x = 0 /\ cursor_y # Rows - 1
  /\ pc = "uproll" => /\ Len(printed) + gap = cursor_y * Cols + Cols
                      /\ cursor_x = Cols - 1 /\ cursor_y = Rows - 1
  /\ pc \in Moving => IF uprolling THEN Rolled
                      ELSE Len(printed) + gap = cursor_y * Cols + cursor_x
  /\ pc = "back_x" => Rolled
  /\ pc = "back_y" => /\ cursor_x = 0 /\ cursor_y = Rows - 2
                      /\ Len(printed) + gap = (Rows - 1) * Cols

\* The inductive invariant: the cursor is on the screen, and follows the text.
CursorInv ==
  /\ pc \in Places
  /\ cursor_x \in 0..(Cols - 1) /\ cursor_y \in 0..(Rows - 1)
  /\ printed \in Seq(Range(printed)) /\ gap \in Nat
  /\ uprolling \in BOOLEAN /\ (uprolling => pc \in Moving)
  /\ Behind

-----------------------------------------------------------------------------
\* What one more row is worth.
LEMMA NextRow ==
  ASSUME NEW y \in Nat
  PROVE  /\ Cols \in Nat /\ Rows \in Nat /\ Cols >= 2 /\ Cols <= 255
         /\ Rows >= 2 /\ Rows <= 255
         /\ y * Cols \in Nat /\ (y + 1) * Cols = y * Cols + Cols
  BY ScreenAssumption, SMT DEF ScreenAssumption

\* The elements of a sequence are all it has to do with their set.
LEMMA OverItsRange ==
  ASSUME NEW S, NEW s \in Seq(S)
  PROVE  s \in Seq(Range(s))
  <1>1. Len(s) \in Nat /\ s \in [1..Len(s) -> S]
    BY LenProperties
  <1>2. s \in [1..Len(s) -> Range(s)]
    BY <1>1 DEF Range
  <1> QED BY <1>1, <1>2, SeqDef

\* A character is added to a text.
LEMMA OneMore ==
  ASSUME NEW s, s \in Seq(Range(s)), NEW e
  PROVE  /\ Len(s) \in Nat
         /\ Append(s, e) \in Seq(Range(Append(s, e)))
         /\ Len(Append(s, e)) = Len(s) + 1
  <1> DEFINE S == Range(s) \cup {e}
  <1>1. s \in Seq(S)
    BY SeqMonotonic
  <1>2. Append(s, e) \in Seq(S) /\ Len(Append(s, e)) = Len(s) + 1
    BY <1>1, SMT
  <1> QED BY <1>2, OverItsRange, LenProperties

\* The characters of a text to which one is added.
LEMMA OneMoreElements ==
  ASSUME NEW s, s \in Seq(Range(s)), NEW e
  PROVE  /\ Append(s, e)[Len(s) + 1] = e
         /\ \A i \in 1..Len(s) : Append(s, e)[i] = s[i]
  <1> DEFINE S == Range(s) \cup {e}
  <1>1. s \in Seq(S)
    BY SeqMonotonic
  <1> QED BY <1>1, SMT

\* vga_putc_store adds a gap and a character to the text.
LEMMA PrintedOn ==
  ASSUME NEW s, s \in Seq(Range(s)), NEW g \in Nat, NEW e
  PROVE  /\ printed_on(s, g, e) \in Seq(Range(printed_on(s, g, e)))
         /\ Len(printed_on(s, g, e)) = Len(s) + g + 1
         /\ \A i \in 1..Len(s) : printed_on(s, g, e)[i] = s[i]
         /\ \A i \in (Len(s) + 1)..(Len(s) + g) : printed_on(s, g, e)[i] = "NUL"
         /\ printed_on(s, g, e)[Len(s) + g + 1] = e
  <1> DEFINE S == Range(s) \cup {"NUL"}
             blanks == [i \in 1..g |-> "NUL"]
             t == s \o blanks
  <1>1. s \in Seq(S) /\ Len(s) \in Nat
    BY SeqMonotonic, LenProperties
  <1>2. blanks \in Seq(S) /\ Len(blanks) = g
    BY SMT
  <1>3. /\ t \in Seq(S) /\ Len(t) = Len(s) + g
        /\ \A i \in 1..(Len(s) + g) :
             t[i] = IF i <= Len(s) THEN s[i] ELSE blanks[i - Len(s)]
    BY <1>1, <1>2, ConcatProperties
  <1>4. t \in Seq(Range(t))
    BY <1>3, OverItsRange
  <1>5. ASSUME NEW i \in (Len(s) + 1)..(Len(s) + g) PROVE t[i] = "NUL"
    <2>1. i \in 1..(Len(s) + g) /\ ~(i <= Len(s)) /\ i - Len(s) \in 1..g
      BY <1>1, SMT
    <2> QED BY <1>3, <2>1
  <1>6. ASSUME NEW i \in 1..Len(s) PROVE t[i] = s[i]
    <2>1. i \in 1..(Len(s) + g) /\ i <= Len(s)
      BY <1>1, SMT
    <2> QED BY <1>3, <2>1
  <1>7. printed_on(s, g, e) = Append(t, e)
    BY DEF printed_on
  <1> HIDE DEF t, blanks, S
  <1>8. /\ Append(t, e) \in Seq(Range(Append(t, e))) /\ Len(Append(t, e)) = Len(s) + g + 1
        /\ Append(t, e)[Len(s) + g + 1] = e
        /\ \A i \in 1..(Len(s) + g) : Append(t, e)[i] = t[i]
    BY <1>3, <1>4, OneMore, OneMoreElements
  <1>9. \A i \in 1..Len(s) : i \in 1..(Len(s) + g)
    BY <1>1, SMT
  <1>10. \A i \in (Len(s) + 1)..(Len(s) + g) : i \in 1..(Len(s) + g)
    BY <1>1, SMT
  <1> QED BY <1>5, <1>6, <1>7, <1>8, <1>9, <1>10

\* A roll takes the first row of characters away, or what there is of it.
LEMMA RolledText ==
  ASSUME NEW s, s \in Seq(Range(s))
  PROVE  /\ printed_rolled(s) \in Seq(Range(printed_rolled(s)))
         /\ Len(printed_rolled(s)) = IF Cols <= Len(s) THEN Len(s) - Cols ELSE 0
         /\ \A i \in 1..(Len(s) - Cols) : printed_rolled(s)[i] = s[i + Cols]
  <1>0. Len(s) \in Nat /\ Cols \in Nat
    BY LenProperties, NextRow
  <1>1. /\ Cols + 1 \in Int /\ Len(s) \in Int
        /\ \A i \in (Cols + 1)..Len(s) : i \in 1..Len(s)
    BY <1>0, SMT
  <1>2. \A i \in (Cols + 1)..Len(s) : s[i] \in Range(s)
    BY <1>1, LenProperties DEF Range
  <1>3. /\ printed_rolled(s) \in Seq(Range(s))
        /\ Len(printed_rolled(s)) =
              IF Cols + 1 <= Len(s) THEN Len(s) - (Cols + 1) + 1 ELSE 0
        /\ \A i \in 1..(Len(s) - (Cols + 1) + 1) :
              printed_rolled(s)[i] = s[(Cols + 1) + i - 1]
    BY <1>1, <1>2, SubSeqProperties DEF printed_rolled
  <1>4. printed_rolled(s) \in Seq(Range(printed_rolled(s)))
    BY <1>3, OverItsRange
  <1>5. (IF Cols + 1 <= Len(s) THEN Len(s) - (Cols + 1) + 1 ELSE 0) =
          IF Cols <= Len(s) THEN Len(s) - Cols ELSE 0
    BY <1>0, SMT
  <1>6. ASSUME NEW i \in 1..(Len(s) - Cols)
        PROVE  i \in 1..(Len(s) - (Cols + 1) + 1) /\ (Cols + 1) + i - 1 = i + Cols
    BY <1>0, SMT
  <1> QED BY <1>3, <1>4, <1>5, <1>6

\* A roll that leaves the cursor where it is opens the gap by what it takes away.
LEMMA RolledGap ==
  ASSUME NEW s, s \in Seq(Range(s)), NEW g \in Nat
  PROVE  /\ gap_rolled(s, g) \in Nat
         /\ Len(printed_rolled(s)) + gap_rolled(s, g) = Len(s) + g
         /\ Cols <= Len(s) + g => gap_rolled(s, g) >= Cols
         /\ Cols <= Len(s) => gap_rolled(s, g) = g + Cols
  <1>1. Len(s) \in Nat /\ Cols \in Nat
    BY LenProperties, NextRow
  <1> DEFINE n == Len(s)
             k == Len(printed_rolled(s))
             h == gap_rolled(s, g)
  <1>2. h = g + (n - k)
    BY DEF gap_rolled
  <1>3. k = IF Cols <= n THEN n - Cols ELSE 0
    BY RolledText
  <1>4. n \in Nat
    BY <1>1
  <1> HIDE DEF n, k, h
  <1>5. /\ h \in Nat /\ k + h = n + g
        /\ Cols <= n + g => h >= Cols
        /\ Cols <= n => h = g + Cols
    BY <1>1, <1>2, <1>3, <1>4, SMT
  <1> QED BY <1>5 DEF n, k, h

-----------------------------------------------------------------------------
\* The boot messages fill whole lines.
LEMMA CursorInit == ScreenInit => CursorInv
  <1> SUFFICES ASSUME ScreenInit PROVE CursorInv
    OBVIOUS
  <1>0. /\ cursor_x = 0 /\ cursor_y \in 1..(Rows - 1)
        /\ cursorLocation = cursor_y * Cols
    BY DEF ScreenInit
  <1>1. cursor_y \in Nat /\ cursor_y \in 0..(Rows - 1) /\ cursor_x \in 0..(Cols - 1)
    BY <1>0, ScreenAssumption, SMT DEF ScreenAssumption
  <1>2. cursorLocation \in Nat /\ cursorLocation = cursor_y * Cols + cursor_x
    BY <1>0, <1>1, NextRow, SMT
  <1>3. printed \in Seq({"NUL"}) /\ Len(printed) + gap = cursorLocation
    BY <1>2, SMT DEF ScreenInit
  <1>4. printed \in Seq(Range(printed)) /\ gap \in Nat
    BY <1>3, OverItsRange DEF ScreenInit
  <1> QED BY <1>1, <1>2, <1>3, <1>4 DEF ScreenInit, CursorInv, Places, Behind, Moving

\* Steps that neither print nor move: only the place changes.
LEMMA LocalStep ==
  ASSUME CursorInv, UNCHANGED <<cursorVars, printed, gap, uprolling>>,
         pc' \in Places, uprolling => pc' \in Moving, Behind'
  PROVE  CursorInv'
  BY DEF CursorInv, cursorVars

\* prints, kputc_color, vga_putc: the text and both variables stay.
LEMMA BetweenCharacters ==
  ASSUME CursorInv, (\E call \in Messages : prints(call)) \/ kputc_color \/ vga_putc
  PROVE  CursorInv'
  <1>1. /\ UNCHANGED <<cursorVars, printed, gap, uprolling>>
        /\ pc \in {"idle", "next", "putc"} /\ pc' \in {"idle", "next", "putc", "store"}
    BY DEF prints, kputc_color, vga_putc, Goto, screenVars
  <1>2. ~uprolling
    BY <1>1 DEF CursorInv, Moving
  <1>3. Behind'
    BY <1>1 DEF CursorInv, Behind, cursorVars, Moving
  <1> QED BY <1>1, <1>2, <1>3, LocalStep DEF Places

\* vga_putc_store: the text is one character ahead, and has no gap any more.
LEMMA StoreKeepsInv ==
  ASSUME CursorInv, vga_putc_store
  PROVE  CursorInv'
  <1>1. /\ pc = "store" /\ pc' = "test_x"
        /\ UNCHANGED <<cursor_x, cursor_y, uprolling>>
        /\ printed' = printed_on(printed, gap, todo[1]) /\ gap' = 0
    BY DEF vga_putc_store, Goto, cursorVars
  <1>2. /\ printed' \in Seq(Range(printed)') /\ gap' \in Nat
        /\ Len(printed') + gap' = Len(printed) + gap + 1
    <2>1. Len(printed) \in Nat /\ gap \in Nat
      BY LenProperties DEF CursorInv
    <2>2. printed' \in Seq(Range(printed')) /\ Len(printed') = Len(printed) + gap + 1
      BY <1>1, PrintedOn DEF CursorInv
    <2> QED BY <1>1, <2>1, <2>2 DEF Range
  <1>3. Behind'
    BY <1>1, <1>2 DEF CursorInv, Behind, Moving
  <1> QED BY <1>1, <1>2, <1>3 DEF CursorInv, Places, Moving

\* vga_putc_advance: each test, increment and reset keeps what is known of
\* the distance; cursor_x and cursor_y never reach Cols and Rows.
LEMMA AdvanceKeepsInv ==
  ASSUME CursorInv, vga_putc_advance
  PROVE  CursorInv'
  <1> DEFINE row == cursor_y * Cols
  <1>1. /\ cursor_x \in Nat /\ cursor_y \in Nat /\ Len(printed) \in Nat /\ gap \in Nat
        /\ UNCHANGED <<printed, gap, uprolling>> /\ printed \in Seq(Range(printed))
    BY NextRow, LenProperties, SMT DEF CursorInv, vga_putc_advance, screenVars
  <1>2. /\ Cols \in 2..255 /\ Rows \in 2..255 /\ row \in Nat
        /\ (cursor_y + 1) * Cols = row + Cols
    BY <1>1, NextRow, ScreenAssumption DEF ScreenAssumption
  <1>3. CASE Goto("test_x", IF last_column(cursor_x) THEN "test_y" ELSE "inc_x")
               /\ UNCHANGED cursorVars
    <2>1. ~uprolling /\ Len(printed) + gap = row + cursor_x + 1
      BY <1>3 DEF CursorInv, Behind, Goto, Moving
    <2>2. CASE last_column(cursor_x)
      <3>1. pc' = "test_y" /\ cursor_x = Cols - 1 /\ Len(printed) + gap = row + Cols
        BY <1>1, <1>2, <1>3, <2>1, <2>2, SMT DEF Goto, last_column
      <3>2. Behind'
        BY <1>1, <1>3, <3>1 DEF Behind, cursorVars, Moving
      <3> QED BY <1>1, <1>3, <2>1, <3>1, <3>2, LocalStep DEF Places
    <2>3. CASE ~last_column(cursor_x)
      <3>1. pc' = "inc_x" /\ cursor_x # Cols - 1
        BY <1>3, <2>3 DEF Goto, last_column
      <3>2. Behind'
        BY <1>1, <1>3, <2>1, <3>1 DEF Behind, cursorVars, Moving
      <3> QED BY <1>1, <1>3, <2>1, <3>1, <3>2, LocalStep DEF Places
    <2> QED BY <2>2, <2>3
  <1>4. CASE Goto("inc_x", "locate")
               /\ cursor_x' = (cursor_x + 1) % 256 /\ UNCHANGED cursor_y
    <2>1. /\ ~uprolling /\ cursor_x # Cols - 1 /\ pc' = "locate"
          /\ Len(printed) + gap = row + cursor_x + 1
      BY <1>4 DEF CursorInv, Behind, Goto, Moving
    <2>2. cursor_x' = cursor_x + 1 /\ cursor_x' \in 0..(Cols - 1)
      BY <1>1, <1>2, <1>4, <2>1, SMT DEF CursorInv
    <2>3. Len(printed') + gap' = cursor_y' * Cols + cursor_x'
      BY <1>1, <1>2, <1>4, <2>1, <2>2, SMT
    <2>4. Behind'
      BY <1>1, <2>1, <2>3 DEF Behind, Moving
    <2> QED BY <1>1, <1>4, <2>1, <2>2, <2>4 DEF CursorInv, Places, Moving
  <1>5. CASE Goto("test_y", IF last_row(cursor_y) THEN "uproll" ELSE "wrap_x")
               /\ UNCHANGED cursorVars
    <2>1. ~uprolling /\ Len(printed) + gap = row + Cols /\ cursor_x = Cols - 1
      BY <1>5 DEF CursorInv, Behind, Goto, Moving
    <2>2. CASE last_row(cursor_y)
      <3>1. pc' = "uproll" /\ cursor_y = Rows - 1
        BY <1>5, <2>2 DEF Goto, last_row
      <3>2. Behind'
        BY <1>1, <1>5, <2>1, <3>1 DEF Behind, cursorVars, Moving
      <3> QED BY <1>1, <1>5, <2>1, <3>1, <3>2, LocalStep DEF Places
    <2>3. CASE ~last_row(cursor_y)
      <3>1. pc' = "wrap_x" /\ cursor_y # Rows - 1
        BY <1>5, <2>3 DEF Goto, last_row
      <3>2. Behind'
        BY <1>1, <1>5, <2>1, <3>1 DEF Behind, cursorVars, Moving
      <3> QED BY <1>1, <1>5, <2>1, <3>1, <3>2, LocalStep DEF Places
    <2> QED BY <2>2, <2>3
  <1>6. CASE Goto("wrap_x", "inc_y") /\ cursor_x' = 0 /\ UNCHANGED cursor_y
    <2>1. /\ ~uprolling /\ Len(printed) + gap = row + Cols /\ cursor_y # Rows - 1
          /\ pc' = "inc_y"
      BY <1>6 DEF CursorInv, Behind, Goto, Moving
    <2>2. 0 \in 0..(Cols - 1)
      BY <1>2, SMT
    <2>3. Behind'
      BY <1>1, <1>6, <2>1 DEF Behind, Moving
    <2> QED BY <1>1, <1>6, <2>1, <2>2, <2>3 DEF CursorInv, Places
  <1>7. CASE Goto("inc_y", "locate")
               /\ cursor_y' = (cursor_y + 1) % 256 /\ UNCHANGED cursor_x
    <2>1. /\ ~uprolling /\ Len(printed) + gap = row + Cols /\ cursor_y # Rows - 1
          /\ cursor_x = 0 /\ pc' = "locate"
      BY <1>7 DEF CursorInv, Behind, Goto, Moving
    <2>2. cursor_y' = cursor_y + 1 /\ cursor_y' \in 0..(Rows - 1)
      BY <1>1, <1>2, <1>7, <2>1, SMT DEF CursorInv
    <2>3. Len(printed') + gap' = cursor_y' * Cols + cursor_x'
      BY <1>1, <1>2, <1>7, <2>1, <2>2, SMT
    <2>4. Behind'
      BY <1>1, <2>1, <2>3 DEF Behind, Moving
    <2> QED BY <1>1, <1>7, <2>1, <2>2, <2>4 DEF CursorInv, Places
  <1>8. CASE Goto("back_x", "back_y") /\ cursor_x' = 0 /\ UNCHANGED cursor_y
    <2>1. ~uprolling /\ Rolled /\ pc' = "back_y"
      BY <1>8 DEF CursorInv, Behind, Goto, Moving
    <2>2. 0 \in 0..(Cols - 1)
      BY <1>2, SMT
    <2>3. Behind'
      BY <1>1, <1>8, <2>1 DEF Behind, Moving, Rolled
    <2> QED BY <1>1, <1>8, <2>1, <2>2, <2>3 DEF CursorInv, Places
  <1>9. CASE Goto("back_y", "locate")
               /\ cursor_y' = after_uproll(cursor_y) /\ UNCHANGED cursor_x
    <2>1. /\ ~uprolling /\ cursor_x = 0 /\ pc' = "locate"
          /\ Len(printed) + gap = (Rows - 1) * Cols
      BY <1>9 DEF CursorInv, Behind, Goto, Moving
    <2>2. cursor_y' = Rows - 1 /\ cursor_y' \in 0..(Rows - 1)
      BY <1>2, <1>9, SMT DEF after_uproll
    <2>3. (Rows - 1) * Cols \in Nat
      BY <1>2, SMT
    <2>4. Len(printed') + gap' = cursor_y' * Cols + cursor_x'
      BY <1>1, <1>9, <2>1, <2>2, <2>3, SMT
    <2>5. Behind'
      BY <1>1, <2>1, <2>4 DEF Behind, Moving
    <2> QED BY <1>1, <1>9, <2>1, <2>2, <2>5 DEF CursorInv, Places
  <1> QED BY <1>3, <1>4, <1>5, <1>6, <1>7, <1>8, <1>9 DEF vga_putc_advance

\* screen_uproll_once: a row of text is gone, and cursor_y is one less.
LEMMA UprollKeepsInv ==
  ASSUME CursorInv, screen_uproll_once
  PROVE  CursorInv'
  <1>1. /\ pc = "uproll" /\ Len(printed) + gap = cursor_y * Cols + Cols
        /\ cursor_x = Cols - 1 /\ cursor_y = Rows - 1
        /\ printed \in Seq(Range(printed)) /\ gap \in Nat
    BY DEF CursorInv, Behind, screen_uproll_once, Goto
  <1>2. /\ Cols \in 2..255 /\ Rows \in 2..255 /\ cursor_y \in Nat
        /\ cursor_y # 0 /\ cursor_y * Cols \in Nat
    BY <1>1, NextRow, ScreenAssumption, SMT DEF ScreenAssumption, CursorInv
  <1>3. /\ pc' = "locate" /\ cursor_y' = cursor_y - 1 /\ cursor_x' = cursor_x
        /\ uprolling' = TRUE /\ printed' = printed_rolled(printed)
        /\ gap' = gap_rolled(printed, gap) - Cols
    BY <1>2, Zenon DEF screen_uproll_once, Goto
  <1>4. cursor_y' = Rows - 2 /\ cursor_x' = Cols - 1
    BY <1>1, <1>2, <1>3, SMT
  <1>5. /\ Cols \in Nat /\ Cols <= Len(printed) + gap
        /\ (Len(printed) + gap) - Cols = (Rows - 1) * Cols
    BY <1>1, <1>2, SMT
  <1>6. /\ printed' \in Seq(Range(printed)') /\ gap' \in Nat
        /\ Len(printed') + gap' = (Rows - 1) * Cols
    <2>1. /\ gap_rolled(printed, gap) \in Nat /\ gap_rolled(printed, gap) >= Cols
          /\ Len(printed_rolled(printed)) + gap_rolled(printed, gap) = Len(printed) + gap
      BY <1>1, <1>5, RolledGap
    <2>2. /\ printed_rolled(printed) \in Seq(Range(printed_rolled(printed)))
          /\ Len(printed_rolled(printed)) \in Nat
      BY <1>1, RolledText, LenProperties
    <2>3. gap' \in Nat /\ Len(printed') + gap' = (Len(printed) + gap) - Cols
      BY <1>3, <1>5, <2>1, <2>2, SMT
    <2> QED BY <1>3, <1>5, <2>2, <2>3 DEF Range
  <1>7. cursor_x' \in 0..(Cols - 1) /\ cursor_y' \in 0..(Rows - 1)
    BY <1>2, <1>4, SMT
  <1>8. Behind'
    BY <1>3, <1>4, <1>6 DEF Behind, Moving, Rolled
  <1> QED BY <1>3, <1>6, <1>7, <1>8 DEF CursorInv, Places, Moving

\* move_cursor, whoever called it, leaves text and cursor as they are.
LEMMA MoveKeepsInv ==
  ASSUME CursorInv, move_cursor \/ move_cursor_outb
  PROVE  CursorInv'
  <1>1. /\ UNCHANGED <<cursor_x, cursor_y, printed, gap>>
        /\ pc \in Moving
    BY DEF move_cursor, move_cursor_outb, Goto, cursorVars, screenVars, Moving
  <1>2. IF uprolling THEN Rolled ELSE Len(printed) + gap = cursor_y * Cols + cursor_x
    BY <1>1 DEF CursorInv, Behind
  <1>3. CASE pc # "low"
    <2>1. pc' \in Moving /\ uprolling' = uprolling
      BY <1>3 DEF move_cursor, move_cursor_outb, Goto, Moving
    <2>2. Behind'
      BY <1>1, <1>2, <2>1 DEF Behind, Moving, Rolled
    <2> QED BY <1>1, <2>1, <2>2 DEF CursorInv, Places, Moving
  <1>4. CASE pc = "low"
    <2>1. uprolling' = FALSE /\ pc' = IF uprolling THEN "back_x" ELSE "putc"
      BY <1>4 DEF move_cursor, move_cursor_outb, Goto
    <2>2. Behind'
      BY <1>1, <1>2, <2>1 DEF Behind, Moving, Rolled
    <2> QED BY <1>1, <2>1, <2>2 DEF CursorInv, Places
  <1> QED BY <1>3, <1>4

\* A key that is echoed either leaves the text where it is or rolls it, which
\* opens the gap.
LEMMA EchoRollsText ==
  ASSUME NEW key \in Key, key_echoed(key)
  PROVE  \/ UNCHANGED <<printed, gap>>
         \/ printed' = printed_rolled(printed) /\ gap' = gap_rolled(printed, gap)
  <1>1. aput_char(key)
    BY DEF key_echoed
  <1>2. key \in {"other", "enter", "backspace"}
    BY ScreenAssumption DEF ScreenAssumption
  <1>3. CASE key = "backspace"
    BY <1>1, <1>3 DEF aput_char, screenVars
  <1>4. CASE key = "enter"
    BY <1>1, <1>4 DEF aput_char, next_row
  <1>5. CASE key = "other"
    BY <1>1, <1>5 DEF aput_char, next_row
  <1> QED BY <1>2, <1>3, <1>4, <1>5

\* Either way the text and its gap end where they did.
LEMMA EchoKeepsInv ==
  ASSUME CursorInv, NEW key \in Key, key_echoed(key)
  PROVE  CursorInv'
  <1>1. UNCHANGED <<pc, cursor_x, cursor_y, uprolling>>
    BY DEF key_echoed, cursorVars
  <1>2. printed \in Seq(Range(printed)) /\ gap \in Nat
    BY DEF CursorInv
  <1>3. /\ printed' \in Seq(Range(printed')) /\ gap' \in Nat
        /\ Len(printed') + gap' = Len(printed) + gap
    <2>1. CASE UNCHANGED <<printed, gap>>
      BY <1>2, <2>1
    <2>2. CASE printed' = printed_rolled(printed) /\ gap' = gap_rolled(printed, gap)
      BY <1>2, <2>2, RolledText, RolledGap
    <2> QED BY <2>1, <2>2, EchoRollsText
  <1>4. Behind'
    BY <1>1, <1>3 DEF CursorInv, Behind, Rolled
  <1> QED BY <1>1, <1>3, <1>4 DEF CursorInv, Range

\* Every step of the thread, and every key that is echoed, keeps the invariant.
LEMMA CursorStep == CursorInv /\ [EchoNext]_vars => CursorInv'
  <1> SUFFICES ASSUME CursorInv, [EchoNext]_vars PROVE CursorInv'
    OBVIOUS
  <1>1. CASE UNCHANGED vars
    BY <1>1 DEF vars, cursorVars, screenVars, CursorInv, Behind, Rolled
  <1>2. CASE (\E call \in Messages : prints(call)) \/ kputc_color \/ vga_putc
    BY <1>2, BetweenCharacters
  <1>3. CASE vga_putc_store
    BY <1>3, StoreKeepsInv
  <1>4. CASE vga_putc_advance
    BY <1>4, AdvanceKeepsInv
  <1>5. CASE screen_uproll_once
    BY <1>5, UprollKeepsInv
  <1>6. CASE move_cursor \/ move_cursor_outb
    BY <1>6, MoveKeepsInv
  <1>7. CASE \E key \in Key : key_echoed(key)
    BY <1>7, EchoKeepsInv
  <1> QED BY <1>1, <1>2, <1>3, <1>4, <1>5, <1>6, <1>7 DEF EchoNext

\* Between the store of a character and the next vga_putc a gap means that a key
\* has come.
GapInv == pc # "store" /\ ~disturbed => gap = 0

\* vga_putc_store closes the gap, and screen_uproll_once, which takes a whole row
\* of text away, opens none.
LEMMA GapStep == CursorInv /\ GapInv /\ [EchoNext]_vars => GapInv'
  <1> SUFFICES ASSUME CursorInv, GapInv, [EchoNext]_vars PROVE GapInv'
    OBVIOUS
  <1>1. CASE UNCHANGED vars
    BY <1>1 DEF vars, screenVars, inputVars, GapInv
  <1>2. CASE vga_putc_store
    BY <1>2 DEF vga_putc_store, GapInv
  <1>3. CASE screen_uproll_once
    <2>1. /\ pc = "uproll" /\ Len(printed) + gap = cursor_y * Cols + Cols
          /\ cursor_y \in Nat /\ printed \in Seq(Range(printed)) /\ gap \in Nat
          /\ gap' = gap_rolled(printed, gap) - Cols /\ disturbed' = disturbed
      BY <1>3, ScreenAssumption, SMT
      DEF CursorInv, Behind, screen_uproll_once, Goto, inputVars, ScreenAssumption
    <2>2. ASSUME ~disturbed PROVE gap' = 0
      <3>1. gap = 0
        BY <2>1, <2>2 DEF GapInv
      <3>2. Len(printed) \in Nat /\ cursor_y * Cols \in Nat /\ Cols \in Nat
        BY <2>1, NextRow, LenProperties
      <3>3. Cols <= Len(printed)
        BY <2>1, <3>1, <3>2, SMT
      <3>4. gap_rolled(printed, gap) = gap + Cols
        BY <2>1, <3>3, RolledGap
      <3> QED BY <2>1, <3>1, <3>2, <3>4, SMT
    <2> QED BY <2>1, <2>2 DEF GapInv
  <1>4. CASE vga_putc
    <2>1. gap' = gap /\ pc = "putc" /\ (pc' = "store" \/ UNCHANGED disturbed)
      BY <1>4 DEF vga_putc, Goto, screenVars
    <2> QED BY <2>1 DEF GapInv
  <1>5. CASE \/ \E call \in Messages : prints(call)
             \/ kputc_color \/ vga_putc_advance \/ move_cursor \/ move_cursor_outb
    <2>1. UNCHANGED <<gap, disturbed>> /\ pc # "store"
      BY <1>5 DEF prints, kputc_color, vga_putc_advance, move_cursor, move_cursor_outb,
                  Goto, screenVars, inputVars
    <2> QED BY <2>1 DEF GapInv
  <1>6. CASE \E key \in Key : key_echoed(key)
    BY <1>6 DEF key_echoed, GapInv
  <1> QED BY <1>1, <1>2, <1>3, <1>4, <1>5, <1>6 DEF EchoNext

\* printk's cursor is where its text ends, on a screen of any size, except that
\* rolls of the interrupt handler put a gap between them, which the next vga_putc
\* closes.
THEOREM CursorAtEndOfText == EchoSpec => []CursorFollowsText
  <1>1. CursorInv /\ GapInv => CursorFollowsText
    BY DEF CursorInv, Behind, GapInv, CursorFollowsText, AtRest
  <1>2. ScreenInit => GapInv
    BY DEF ScreenInit, GapInv
  <1> QED BY <1>1, <1>2, CursorInit, CursorStep, GapStep, PTL DEF EchoSpec

\* As long as only keys of keymap are pressed, vga_putc never leaves the screen:
\* what the run with an unknown key refutes is due to that key alone.
THEOREM CursorStaysOnScreen == EchoSpec => []CursorOnScreen
  <1>1. CursorInv => CursorOnScreen
    BY NextRow, ScreenAssumption, SMT DEF CursorInv, CursorOnScreen, ScreenAssumption
  <1> QED BY <1>1, CursorInit, CursorStep, PTL DEF EchoSpec

-----------------------------------------------------------------------------
\* What the registers hold on the way through move_cursor when no key has come
\* since the vga_putc began.
Written ==
  /\ pc = "high" => index = 14
  /\ pc \in {"index_low", "low"} => register[14] = cursorLocation \div Byte
  /\ pc = "low" => index = 15
  /\ AtRest => hardware_cursor = cursor_y * Cols + cursor_x

RegisterInv ==
  /\ DOMAIN register = {14, 15} /\ index \in {14, 15}
  /\ pc \in Moving \ {"locate"} => cursorLocation = cursor_y * Cols + cursor_x
  /\ disturbed \/ Written

\* The two bytes of a place on the screen make up that place.
LEMMA TwoBytes ==
  ASSUME NEW place \in Nat
  PROVE  (place \div Byte) * Byte + (place % Byte) = place
  <1>1. Cols * Rows >= 4 /\ Byte \in Nat /\ Cols * Rows <= Byte * Byte
    BY ScreenAssumption, SMT DEF ScreenAssumption
  <1>2. Byte > 0
    BY <1>1, ScreenAssumption, SMT DEF ScreenAssumption
  <1> QED BY <1>1, <1>2, SMT

\* set_cursor writes both registers, and leaves the second selected.
LEMMA SetCursor ==
  ASSUME NEW place, set_cursor(place)
  PROVE  DOMAIN register' = {14, 15} /\ index' = 15
  BY DEF set_cursor, bytes

\* The messages of init_all leave the hardware cursor at their end.
LEMMA RegisterInit == ScreenInit => RegisterInv
  <1> SUFFICES ASSUME ScreenInit PROVE RegisterInv
    OBVIOUS
  <1>1. /\ cursor_x = 0 /\ cursor_y \in 1..(Rows - 1)
        /\ cursorLocation = cursor_y * Cols
        /\ register = bytes(cursorLocation) /\ index = 15 /\ pc = "idle"
    BY DEF ScreenInit
  <1>2. cursorLocation \in Nat
    BY <1>1, ScreenAssumption, SMT DEF ScreenAssumption
  <1>3. /\ DOMAIN register = {14, 15}
        /\ register[14] = cursorLocation \div Byte /\ register[15] = cursorLocation % Byte
    BY <1>1 DEF bytes
  <1>4. hardware_cursor = cursor_y * Cols + cursor_x
    BY <1>1, <1>2, <1>3, TwoBytes, SMT DEF hardware_cursor
  <1> QED BY <1>1, <1>3, <1>4 DEF RegisterInv, Written, Moving

\* Whatever key is echoed, and wherever: aput_char ends in set_cursor or in a
\* fault, and from then on the thread's cursor counts as disturbed.
LEMMA EchoKeepsRegisters ==
  ASSUME RegisterInv, NEW key \in Key, key_echoed(key)
  PROVE  RegisterInv'
  <1>1. /\ disturbed' = TRUE /\ aput_char(key)
        /\ UNCHANGED <<pc, cursor_x, cursor_y, cursorLocation>>
    BY DEF key_echoed, cursorVars
  <1>2. key \in {"other", "enter", "backspace"}
    BY ScreenAssumption DEF ScreenAssumption
  <1>3. (\E place : set_cursor(place)) \/ UNCHANGED vgaVars
    <2>1. CASE key = "backspace"
      BY <1>1, <2>1 DEF aput_char
    <2>2. CASE key = "enter"
      BY <1>1, <2>2 DEF aput_char, next_row
    <2>3. CASE key = "other"
      BY <1>1, <2>3 DEF aput_char, next_row
    <2> QED BY <1>2, <2>1, <2>2, <2>3
  <1>4. DOMAIN register' = {14, 15} /\ index' \in {14, 15}
    BY <1>3, SetCursor DEF RegisterInv, vgaVars
  <1> QED BY <1>1, <1>4 DEF RegisterInv

\* The four writes of move_cursor, in order.
LEMMA OutbKeepsRegisters ==
  ASSUME CursorInv, RegisterInv, move_cursor_outb
  PROVE  RegisterInv'
  <1>1. UNCHANGED <<cursor_x, cursor_y, cursorLocation, disturbed>>
    BY DEF move_cursor_outb, cursorVars, inputVars
  <1>2. cursorLocation = cursor_y * Cols + cursor_x
    BY DEF RegisterInv, move_cursor_outb, Goto, Moving
  <1>3. CASE Goto("index_high", "high") /\ index' = 14 /\ UNCHANGED register
    BY <1>1, <1>2, <1>3 DEF RegisterInv, Written, Goto, AtRest, Moving
  <1>4. CASE /\ Goto("high", "index_low") /\ UNCHANGED index
             /\ register' = [register EXCEPT ![index] = cursorLocation \div Byte]
    BY <1>1, <1>2, <1>4 DEF RegisterInv, Written, Goto, AtRest, Moving
  <1>5. CASE Goto("index_low", "low") /\ index' = 15 /\ UNCHANGED register
    BY <1>1, <1>2, <1>5 DEF RegisterInv, Written, Goto, AtRest, Moving
  <1>6. CASE /\ Goto("low", IF uprolling THEN "back_x" ELSE "putc") /\ UNCHANGED index
             /\ register' = [register EXCEPT ![index] = cursorLocation % Byte]
    <2>1. DOMAIN register' = {14, 15} /\ pc' \in {"back_x", "putc"}
      BY <1>6 DEF RegisterInv, Goto
    <2>2. cursorLocation \in Nat
      <3>1. cursor_x \in Nat /\ cursor_y \in Nat
        BY ScreenAssumption, SMT DEF CursorInv, ScreenAssumption
      <3>2. cursor_y * Cols \in Nat
        BY <3>1, NextRow
      <3> QED BY <1>2, <3>1, <3>2, SMT
    <2>3. ASSUME ~disturbed
          PROVE  hardware_cursor' = cursor_y' * Cols + cursor_x'
      <3>1. register'[14] = cursorLocation \div Byte /\ register'[15] = cursorLocation % Byte
        BY <1>6, <2>3 DEF RegisterInv, Written, Goto
      <3> QED BY <1>1, <1>2, <2>2, <3>1, TwoBytes DEF hardware_cursor
    <2> QED BY <1>1, <1>6, <2>1, <2>3 DEF RegisterInv, Written, Moving
  <1> QED BY <1>3, <1>4, <1>5, <1>6 DEF move_cursor_outb

\* Every step keeps the registers' invariant.
LEMMA RegisterStep == CursorInv /\ RegisterInv /\ [EchoNext]_vars => RegisterInv'
  <1> SUFFICES ASSUME CursorInv, RegisterInv, [EchoNext]_vars PROVE RegisterInv'
    OBVIOUS
  <1>1. CASE UNCHANGED vars
    BY <1>1 DEF vars, cursorVars, vgaVars, inputVars, RegisterInv, Written, AtRest,
                hardware_cursor
  <1>2. CASE (\E call \in Messages : prints(call)) \/ kputc_color
    <2>1. /\ UNCHANGED <<cursor_x, cursor_y, index, register, disturbed>>
          /\ pc \in {"idle", "next"} /\ pc' \in {"idle", "next", "putc"}
      BY <1>2 DEF prints, kputc_color, Goto, cursorVars, vgaVars, inputVars
    <2> QED BY <2>1 DEF RegisterInv, Written, AtRest, hardware_cursor, Moving
  <1>3. CASE vga_putc
    <2>1. /\ UNCHANGED <<cursor_x, cursor_y, index, register>>
          /\ pc = "putc"
          /\ \/ pc' = "next" /\ UNCHANGED disturbed
             \/ pc' = "store"
      BY <1>3 DEF vga_putc, Goto, cursorVars, vgaVars
    <2> QED BY <2>1 DEF RegisterInv, Written, AtRest, hardware_cursor, Moving
  <1>4. CASE vga_putc_store \/ vga_putc_advance \/ screen_uproll_once
    <2>1. /\ UNCHANGED <<index, register>>
          /\ pc' \in Places \ {"idle", "next", "putc", "index_high", "high", "index_low", "low"}
      BY <1>4 DEF vga_putc_store, vga_putc_advance, screen_uproll_once, Goto, vgaVars, Places
    <2> QED BY <2>1 DEF RegisterInv, Written, AtRest, Moving
  <1>5. CASE move_cursor
    BY <1>5 DEF move_cursor, Goto, cursorVars, vgaVars, RegisterInv, Written, AtRest, Moving
  <1>6. CASE move_cursor_outb
    BY <1>6, OutbKeepsRegisters
  <1>7. CASE \E key \in Key : key_echoed(key)
    BY <1>7, EchoKeepsRegisters
  <1> QED BY <1>1, <1>2, <1>3, <1>4, <1>5, <1>6, <1>7 DEF EchoNext

\* A register pair torn by a key is whole again after the next undisturbed
\* vga_putc, on a screen of any size.
THEOREM TornCursorIsRepaired == EchoSpec => []HardwareCursorFollows
  <1>1. RegisterInv => HardwareCursorFollows
    BY DEF RegisterInv, Written, HardwareCursorFollows
  <1> QED BY <1>1, CursorInit, CursorStep, RegisterInit, RegisterStep, PTL DEF EchoSpec

-----------------------------------------------------------------------------
\* ShowsText, and where vga_putc is about to store.
TextInv ==
  /\ ShowsText
  /\ pc = "store" => cursorLocation = cursor_y * Cols + cursor_x

\* The messages of init_all count as blank.
LEMMA TextInit == ScreenInit => TextInv
  <1> SUFFICES ASSUME ScreenInit PROVE TextInv
    OBVIOUS
  <1>1. /\ pc = "idle" /\ video = [i \in Cell |-> "NUL"]
        /\ cursor_y \in 1..(Rows - 1) /\ cursorLocation = cursor_y * Cols
        /\ printed = [i \in 1..cursorLocation |-> "NUL"]
    BY DEF ScreenInit
  <1>2. cursorLocation \in Nat
    BY <1>1, ScreenAssumption, SMT DEF ScreenAssumption
  <1>3. Cells \in Nat
    BY ScreenAssumption, SMT DEF ScreenAssumption, Cells
  <1>4. Len(printed) = cursorLocation
    BY <1>1, <1>2, SMT
  <1>5. ASSUME NEW i \in Cell
        PROVE  video[i] = IF i < Len(printed) THEN printed[i + 1] ELSE "NUL"
    BY <1>1, <1>2, <1>3, <1>4, <1>5, SMT DEF Cell
  <1> QED BY <1>1, <1>5 DEF TextInv, ShowsText

\* vga_putc_store writes the character where the text's gap ends, whatever the
\* interrupt handler has put there, and the gap becomes text.
LEMMA StoreShowsText ==
  ASSUME CursorInv, TextInv, vga_putc_store
  PROVE  TextInv'
  <1> DEFINE n == Len(printed)
             m == n + gap
  <1>1. /\ pc' = "test_x" /\ cursorLocation = m
        /\ printed' = printed_on(printed, gap, todo[1])
        /\ overwritten' = overwritten \ {m}
        /\ video' = [i \in Cell |-> IF i = m THEN todo[1] ELSE video[i]]
    BY DEF vga_putc_store, Goto, CursorInv, Behind, TextInv, stored
  <1>2. printed \in Seq(Range(printed)) /\ gap \in Nat
    BY DEF CursorInv
  <1>3. n \in Nat /\ Cells \in Nat
    BY <1>2, LenProperties, ScreenAssumption, SMT DEF Cells, ScreenAssumption
  <1>4. /\ Len(printed') = m + 1 /\ printed'[m + 1] = todo[1]
        /\ \A i \in 1..n : printed'[i] = printed[i]
        /\ \A i \in (n + 1)..m : printed'[i] = "NUL"
    BY <1>1, <1>2, PrintedOn
  <1>5. gap \in Nat /\ m = n + gap
    BY <1>2
  <1> HIDE DEF m
  <1>6. ASSUME NEW i \in Cell \ overwritten'
        PROVE  video'[i] = IF i < Len(printed') THEN printed'[i + 1] ELSE "NUL"
    <2>1. CASE i = m
      BY <1>1, <1>3, <1>4, <1>5, <2>1, SMT DEF Cell
    <2>2. CASE i # m
      <3>1. i \in Cell \ overwritten /\ video'[i] = video[i]
        BY <1>1, <2>2
      <3>2. video[i] = IF i < n THEN printed[i + 1] ELSE "NUL"
        BY <3>1 DEF TextInv, ShowsText
      <3>3. i \in Nat
        BY <3>1, <1>3, SMT DEF Cell
      <3> HIDE DEF n
      <3>4. CASE i < n
        <4>1. i < Len(printed') /\ i + 1 \in 1..n
          BY <1>3, <1>4, <1>5, <3>3, <3>4, SMT
        <4> QED BY <1>4, <3>1, <3>2, <3>4, <4>1
      <3>5. CASE ~(i < n) /\ i < m
        <4>1. i < Len(printed') /\ i + 1 \in (n + 1)..m
          BY <1>3, <1>4, <1>5, <3>3, <3>5, SMT
        <4> QED BY <1>4, <3>1, <3>2, <3>5, <4>1
      <3>6. CASE ~(i < m)
        <4>1. ~(i < Len(printed')) /\ ~(i < n)
          BY <1>3, <1>4, <1>5, <2>2, <3>3, <3>6, SMT
        <4> QED BY <3>1, <3>2, <4>1
      <3> QED BY <3>4, <3>5, <3>6
    <2> QED BY <2>1, <2>2
  <1> QED BY <1>1, <1>6 DEF TextInv, ShowsText, Cell, Cells

\* A screen shows a text but for some cells.
Shows(screen, text, cells) ==
  \A i \in Cell \ cells :
    screen[i] = IF i < Len(text) THEN text[i + 1] ELSE "NUL"

\* A roll of the screen moves what it shows as it moves the text, the last row
\* excepted.
LEMMA RollShows ==
  ASSUME NEW text, text \in Seq(Range(text)), NEW screen, NEW cells, NEW blank,
         Shows(screen, text, cells),
         NEW i \in Cell \ cells_rolled(cells), i + Cols < Cells
  PROVE  rolled(screen, blank)[i] =
           IF i < Len(printed_rolled(text)) THEN printed_rolled(text)[i + 1] ELSE "NUL"
  <1> DEFINE n == Len(text)
             k == Len(printed_rolled(text))
  <1>1. /\ Cols \in Nat /\ Cells \in Nat /\ n \in Nat /\ i \in Nat
        /\ k = IF Cols <= n THEN n - Cols ELSE 0
    <2>1. n \in Nat /\ k = IF Cols <= n THEN n - Cols ELSE 0
      BY LenProperties, RolledText
    <2>2. Cols \in Nat /\ Cells \in Nat
      BY ScreenAssumption, SMT DEF Cells, ScreenAssumption
    <2>3. i \in Nat
      BY <2>2, SMT DEF Cell
    <2> QED BY <2>1, <2>2, <2>3
  <1>2. \A j \in 1..(n - Cols) : printed_rolled(text)[j] = text[j + Cols]
    BY RolledText
  <1>3. rolled(screen, blank)[i] = screen[i + Cols]
    BY DEF rolled
  <1>4. i + Cols \in Cell /\ i + Cols >= Cols /\ (i + Cols) - Cols = i
    BY <1>1, SMT DEF Cell
  <1>5. i + Cols \notin cells
    BY <1>4 DEF cells_rolled
  <1>6. screen[i + Cols] = IF i + Cols < n THEN text[(i + Cols) + 1] ELSE "NUL"
    BY <1>4, <1>5 DEF Shows
  <1> HIDE DEF n, k
  <1>7. CASE i < k
    <2>1. i + Cols < n /\ i + 1 \in 1..(n - Cols) /\ (i + 1) + Cols = (i + Cols) + 1
      BY <1>1, <1>7, SMT
    <2> QED BY <1>2, <1>3, <1>6, <1>7, <2>1 DEF k
  <1>8. CASE ~(i < k)
    <2>1. ~(i + Cols < n)
      BY <1>1, <1>8, SMT
    <2> QED BY <1>3, <1>6, <1>8, <2>1 DEF k
  <1> QED BY <1>7, <1>8

\* screen_uproll_once moves what is on the screen as it moves the text.
LEMMA UprollShowsText ==
  ASSUME CursorInv, TextInv, screen_uproll_once
  PROVE  TextInv'
  <1> DEFINE n == Len(printed)
  <1>1. /\ pc' \in {"locate", "back_x"} /\ printed' = printed_rolled(printed)
        /\ overwritten' = cells_rolled(overwritten)
        /\ video' = rolled(video, "NUL")
        /\ n + gap = cursor_y * Cols + Cols /\ cursor_y = Rows - 1
        /\ printed \in Seq(Range(printed)) /\ gap \in Nat
    BY DEF screen_uproll_once, Goto, CursorInv, Behind
  <1>2. Cols \in 2..255 /\ Rows \in 2..255 /\ Cells = Cols * Rows
    BY ScreenAssumption DEF ScreenAssumption, Cells
  <1>3. n \in Nat
    BY <1>1, LenProperties
  <1>4. Cells \in Nat /\ n <= Cells /\ Cols \in Nat
    BY <1>1, <1>2, <1>3, SMT
  <1>5. Len(printed') = IF Cols <= n THEN n - Cols ELSE 0
    BY <1>1, RolledText
  <1>6. Shows(video, printed, overwritten)
    BY DEF Shows, TextInv, ShowsText
  <1> HIDE DEF n
  <1>7. ASSUME NEW i \in Cell \ overwritten'
        PROVE  video'[i] = IF i < Len(printed') THEN printed'[i + 1] ELSE "NUL"
    <2>1. CASE i + Cols < Cells
      BY <1>1, <1>6, <2>1, RollShows
    <2>2. CASE ~(i + Cols < Cells)
      <3>1. ~(i < Len(printed'))
        BY <1>3, <1>4, <1>5, <2>2, SMT DEF Cell
      <3>2. video'[i] = "NUL"
        BY <1>1, <2>2 DEF rolled
      <3> QED BY <3>1, <3>2
    <2> QED BY <2>1, <2>2
  <1> QED BY <1>1, <1>7 DEF TextInv, ShowsText, Cell, Cells

\* .is_carriage_return and .roll_screeen: the text is shown as before, or rolled
\* as the screen is, with the new row set apart.
LEMMA NextRowShows ==
  ASSUME printed \in Seq(Range(printed)), NEW place, NEW screen, NEW cells,
         Shows(screen, printed, cells), next_row(screen, place, cells)
  PROVE  \A i \in Cell \ overwritten' :
           video'[i] = IF i < Len(printed') THEN printed'[i + 1] ELSE "NUL"
  <1>1. CASE video' = screen /\ overwritten' = cells /\ UNCHANGED <<printed, gap>>
    BY <1>1 DEF Shows
  <1>2. CASE /\ video' = rolled(screen, " ")
             /\ overwritten' = cells_rolled(cells) \cup ((Rows - 1) * Cols)..(Cells - 1)
             /\ printed' = printed_rolled(printed)
    <2>1. /\ Cols \in Nat /\ Rows \in Nat /\ Cells \in Nat
          /\ (Rows - 1) * Cols \in Nat /\ (Rows - 1) * Cols + Cols = Cells
      <3>1. Rows - 1 \in Nat /\ (Rows - 1) + 1 = Rows /\ Rows \in Nat /\ Cols \in Nat
        BY ScreenAssumption, SMT DEF ScreenAssumption
      <3>2. (Rows - 1) * Cols \in Nat /\ ((Rows - 1) + 1) * Cols = (Rows - 1) * Cols + Cols
        BY <3>1, NextRow
      <3>3. Cells = Rows * Cols
        BY <3>1, SMT DEF Cells
      <3> QED BY <3>1, <3>2, <3>3, SMT
    <2>2. ASSUME NEW i \in Cell \ overwritten'
          PROVE  video'[i] = IF i < Len(printed') THEN printed'[i + 1] ELSE "NUL"
      <3> DEFINE last == (Rows - 1) * Cols
      <3>1. i \in Cell \ cells_rolled(cells) /\ i \notin last..(Cells - 1)
        BY <1>2
      <3>2. last \in Nat /\ last + Cols = Cells /\ i \in 0..(Cells - 1)
        BY <2>1 DEF Cell
      <3> HIDE DEF last
      <3>3. i + Cols < Cells
        BY <2>1, <3>1, <3>2, SMT
      <3> QED BY <1>2, <3>1, <3>3, RollShows
    <2> QED BY <2>2
  <1> QED BY <1>1, <1>2 DEF next_row

\* aput_char changes only cells that count as overwritten from then on, and rolls
\* the text with the screen.
LEMMA EchoShowsText ==
  ASSUME CursorInv, TextInv, NEW key \in Key, key_echoed(key)
  PROVE  TextInv'
  <1>1. /\ aput_char(key)
        /\ UNCHANGED <<pc, cursor_x, cursor_y, cursorLocation>>
    BY DEF key_echoed, cursorVars
  <1>2. key \in {"other", "enter", "backspace"}
    BY ScreenAssumption DEF ScreenAssumption
  <1>3. Shows(video, printed, overwritten) /\ printed \in Seq(Range(printed))
    BY DEF Shows, TextInv, ShowsText, CursorInv
  <1>4. \A i \in Cell \ overwritten' :
          video'[i] = IF i < Len(printed') THEN printed'[i + 1] ELSE "NUL"
    <2>1. CASE key = "backspace"
      <3>1. CASE hardware_cursor = 0
        BY <1>1, <1>3, <2>1, <3>1 DEF aput_char, screenVars, Shows
      <3>2. CASE hardware_cursor # 0
        <4>1. /\ video' = stored(video, hardware_cursor - 1, " ")
              /\ overwritten' = overwritten \cup ({hardware_cursor - 1} \cap Cell)
              /\ printed' = printed
          BY <1>1, <2>1, <3>2 DEF aput_char
        <4> QED BY <1>3, <4>1 DEF stored, Shows
      <3> QED BY <3>1, <3>2
    <2>2. CASE key = "enter"
      BY <1>1, <1>3, <2>2, NextRowShows DEF aput_char
    <2>3. CASE key = "other"
      <3> DEFINE place  == hardware_cursor
                 screen == stored(video, place, "key")
                 cells  == overwritten \cup ({place} \cap Cell)
      <3>1. \/ video' = screen /\ overwritten' = cells /\ printed' = printed
            \/ next_row(screen, place + 1, cells)
        BY <1>1, <2>3 DEF aput_char
      <3>2. Shows(screen, printed, cells)
        BY <1>3 DEF stored, Shows
      <3> HIDE DEF screen, cells, place
      <3>3. CASE video' = screen /\ overwritten' = cells /\ printed' = printed
        BY <3>2, <3>3 DEF Shows
      <3>4. CASE next_row(screen, place + 1, cells)
        BY <1>3, <3>2, <3>4, NextRowShows
      <3> QED BY <3>1, <3>3, <3>4
    <2> QED BY <1>2, <2>1, <2>2, <2>3
  <1> QED BY <1>1, <1>4 DEF TextInv, ShowsText, Cell, Cells

\* Every step keeps the text on the screen.
LEMMA TextStep == CursorInv /\ TextInv /\ [EchoNext]_vars => TextInv'
  <1> SUFFICES ASSUME CursorInv, TextInv, [EchoNext]_vars PROVE TextInv'
    OBVIOUS
  <1>1. CASE UNCHANGED vars
    BY <1>1 DEF vars, cursorVars, screenVars, TextInv, ShowsText, Cell, Cells
  <1>2. CASE vga_putc
    BY <1>2 DEF vga_putc, Goto, cursorVars, screenVars, TextInv, ShowsText, Cell, Cells
  <1>3. CASE vga_putc_store
    BY <1>3, StoreShowsText
  <1>4. CASE screen_uproll_once
    BY <1>4, UprollShowsText
  <1>5. CASE \/ \E call \in Messages : prints(call)
             \/ kputc_color \/ vga_putc_advance \/ move_cursor \/ move_cursor_outb
    <2>1. UNCHANGED screenVars /\ pc' # "store"
      BY <1>5 DEF prints, kputc_color, vga_putc_advance, move_cursor, move_cursor_outb, Goto
    <2> QED BY <2>1 DEF screenVars, TextInv, ShowsText, Cell, Cells
  <1>6. CASE \E key \in Key : key_echoed(key)
    BY <1>6, EchoShowsText
  <1> QED BY <1>1, <1>2, <1>3, <1>4, <1>5, <1>6 DEF EchoNext

\* What was printed stays on the screen, rolled with it, except where typed
\* characters were echoed, on a screen of any size and for any messages.
THEOREM PrintedTextIsShown == EchoSpec => []ShowsText
  <1>1. TextInv => ShowsText
    BY DEF TextInv
  <1> QED BY <1>1, CursorInit, CursorStep, TextInit, TextStep, PTL DEF EchoSpec

-----------------------------------------------------------------------------
\* The types of the thread's variables: printk's buffer ends with '\0', so that
\* probe stays inside it.
BufferOK ==
  /\ staticArry \in Seq(Char) /\ staticArry[Len(staticArry)] = "NUL"
  /\ probe \in 1..Len(staticArry)
  /\ todo \in Char \X (0..255)

PictureOK ==
  /\ video \in [Cell -> Char]
  /\ Range(printed) \subseteq Char
  /\ overwritten \subseteq Cell

DeviceOK ==
  /\ cursorLocation \in Cell
  /\ index \in {14, 15} /\ register \in [{14, 15} -> 0..(Byte - 1)]

InputOK == keys \in 0..MaxKeys /\ faulted \in BOOLEAN /\ disturbed \in BOOLEAN

\* The characters that the code itself brings in.
LEMMA OwnCharacters ==
  {"NUL", " ", "key"} \subseteq Char /\ Hex \cup {"x"} \subseteq Char
  <1>1. Hex \subseteq Range(Digit)
    <2>1. \A d \in 0..15 : d + 1 \in DOMAIN Digit
      BY SMT DEF Digit
    <2> QED BY <2>1 DEF Hex, Range
  <1>2. {"NUL", " ", "key", "x"} \cup Range(Digit) \subseteq Char
    BY Zenon DEF Char
  <1> QED BY <1>1, <1>2

\* What printk puts into its buffer.
LEMMA PrintkText ==
  ASSUME NEW call \in Messages
  PROVE  printk(call[1], call[2]) \in Seq(Char)
  <1>1. call \in Calls
    BY ScreenAssumption DEF ScreenAssumption
  <1>2. Range(call[1]) \subseteq Char /\ \A arg \in Range(call[2]) : Range(arg.str) \subseteq Char
    <2> DEFINE texts(c) == Range(c[1]) \cup UNION {Range(a.str) : a \in Range(c[2])}
    <2>1. UNION {texts(c) : c \in Messages} \subseteq Char
      BY Zenon DEF Char
    <2>2. texts(call) \subseteq Char
      <3> HIDE DEF texts, Char
      <3> QED BY <2>1, Zenon
    <2>3. /\ Range(call[1]) \subseteq texts(call)
          /\ \A arg \in Range(call[2]) : Range(arg.str) \subseteq texts(call)
      BY Zenon
    <2> HIDE DEF texts, Char
    <2> QED BY <2>2, <2>3, Zenon
  <1>3. Suits(Char, call[1], call[2])
    BY <1>1, <1>2, OwnCharacters, CallSuits
  <1> QED BY <1>3, PrintkIsExpansion

\* Before the first message the buffer is empty.
LEMMA BufferInit == ScreenInit => BufferOK
  <1> SUFFICES ASSUME ScreenInit PROVE BufferOK
    OBVIOUS
  <1>1. staticArry = <<"NUL">> /\ probe = 1 /\ todo = <<"NUL", 0>>
    BY DEF ScreenInit
  <1>2. "NUL" \in Char
    BY OwnCharacters
  <1>3. <<"NUL">> \in Seq(Char) /\ Len(<<"NUL">>) = 1 /\ <<"NUL">>[1] = "NUL"
    BY <1>2
  <1>4. 1 \in 1..1 /\ 0 \in 0..255
    BY SMT
  <1> HIDE DEF Char
  <1> QED BY <1>1, <1>2, <1>3, <1>4 DEF BufferOK

\* kputc_color turns a character into at most a whole line.
LEMMA CharactersToPut ==
  ASSUME NEW char \in Char, NEW x \in 0..(Cols - 1)
  PROVE  putcs(char, x) \in Char \X (0..255)
  <1>1. Cols - x \in 0..255 /\ x # Cols /\ 4 \in 0..255 /\ 1 \in 0..255
    BY ScreenAssumption, SMT DEF ScreenAssumption
  <1>2. "NUL" \in Char
    BY OwnCharacters
  <1> HIDE DEF Char
  <1>3. CASE char = "TAB"
    BY <1>1, <1>2, <1>3 DEF putcs, tab_length
  <1>4. CASE char = "NL"
    <2>1. putcs(char, x) = <<"NUL", IF x = Cols THEN Cols ELSE Cols - x>>
      BY <1>4 DEF putcs
    <2> QED BY <1>1, <1>2, <2>1
  <1>5. CASE char # "TAB" /\ char # "NL"
    <2>1. putcs(char, x) = <<char, 1>>
      BY <1>5 DEF putcs
    <2> QED BY <1>1, <2>1
  <1> QED BY <1>3, <1>4, <1>5

\* probe does not pass the '\0'.
LEMMA BufferStep == CursorInv /\ BufferOK /\ [EchoNext]_vars => BufferOK'
  <1> SUFFICES ASSUME CursorInv, BufferOK, [EchoNext]_vars PROVE BufferOK'
    OBVIOUS
  <1>1. CASE UNCHANGED printVars
    BY <1>1 DEF printVars, BufferOK
  <1>2. ASSUME NEW call \in Messages, prints(call) PROVE BufferOK'
    <2> DEFINE text == printk(call[1], call[2])
    <2>1. staticArry' = Append(text, "NUL") /\ probe' = 1 /\ todo' = todo
      BY <1>2 DEF prints
    <2>2. text \in Seq(Char) /\ "NUL" \in Char
      BY PrintkText, OwnCharacters
    <2> HIDE DEF text, Char
    <2>3. /\ Append(text, "NUL") \in Seq(Char) /\ Len(Append(text, "NUL")) = Len(text) + 1
          /\ Append(text, "NUL")[Len(text) + 1] = "NUL" /\ Len(text) \in Nat
      BY <2>2, AppendProperties, LenProperties
    <2>4. 1 \in 1..(Len(text) + 1)
      BY <2>3, SMT
    <2> QED BY <2>1, <2>3, <2>4 DEF BufferOK
  <1>3. CASE kputc_color
    <2> DEFINE char == staticArry[probe]
    <2>1. CASE char = "NUL"
      <3>1. UNCHANGED printVars
        BY <1>3, <2>1 DEF kputc_color, printVars
      <3> QED BY <1>1, <3>1
    <2>2. CASE char # "NUL"
      <3>1. probe' = probe + 1 /\ todo' = putcs(char, cursor_x) /\ staticArry' = staticArry
        BY <1>3, <2>2 DEF kputc_color
      <3>2. probe # Len(staticArry) /\ probe \in 1..Len(staticArry) /\ char \in Char
            /\ Len(staticArry) \in Nat
        BY <2>2 DEF BufferOK
      <3>3. probe + 1 \in 1..Len(staticArry)
        BY <3>2, SMT
      <3>4. putcs(char, cursor_x) \in Char \X (0..255)
        <4>1. cursor_x \in 0..(Cols - 1)
          BY DEF CursorInv
        <4> QED BY <3>2, <4>1, CharactersToPut
      <3> QED BY <3>1, <3>3, <3>4 DEF BufferOK
    <2> QED BY <2>1, <2>2
  <1>4. CASE vga_putc
    <2>1. CASE todo[2] = 0
      <3>1. UNCHANGED printVars
        BY <1>4, <2>1 DEF vga_putc, printVars
      <3> QED BY <1>1, <3>1
    <2>2. CASE todo[2] # 0
      <3>1. todo' = <<todo[1], todo[2] - 1>> /\ UNCHANGED <<staticArry, probe>>
        BY <1>4, <2>2 DEF vga_putc
      <3>2. todo[1] \in Char /\ todo[2] \in 0..255
        BY DEF BufferOK
      <3>3. todo[2] - 1 \in 0..255
        BY <2>2, <3>2, SMT
      <3> QED BY <3>1, <3>2, <3>3 DEF BufferOK
    <2> QED BY <2>1, <2>2
  <1>5. CASE \/ vga_putc_store \/ vga_putc_advance \/ screen_uproll_once
             \/ move_cursor \/ move_cursor_outb \/ UNCHANGED vars
             \/ \E key \in Key : key_echoed(key)
    <2>1. UNCHANGED printVars
      BY <1>5 DEF vga_putc_store, vga_putc_advance, screen_uproll_once, move_cursor,
                  move_cursor_outb, key_echoed, vars
    <2> QED BY <1>1, <2>1
  <1> QED BY <1>2, <1>3, <1>4, <1>5 DEF EchoNext

\* A place of the cursor is a cell, and there are such.
LEMMA PlaceIsCell ==
  ASSUME NEW x \in 0..(Cols - 1), NEW y \in 0..(Rows - 1)
  PROVE  y * Cols + x \in Cell /\ y * Cols \in Cell /\ Cells \in Nat
  <1>1. Cols \in Nat /\ Rows \in Nat /\ Cols >= 2 /\ Rows >= 2
    BY ScreenAssumption, SMT DEF ScreenAssumption
  <1>2. y * Cols \in Nat /\ (y + 1) * Cols = y * Cols + Cols
    BY <1>1, NextRow, SMT
  <1>3. \E d \in Nat : Rows = (y + 1) + d
    <2>1. Rows - (y + 1) \in Nat /\ Rows = (y + 1) + (Rows - (y + 1))
      BY <1>1, SMT
    <2> QED BY <2>1
  <1>4. PICK d \in Nat : Rows = (y + 1) + d
    BY <1>3
  <1>5. Cols * Rows = (y + 1) * Cols + d * Cols /\ d * Cols \in Nat
    BY <1>1, <1>4, SMT
  <1>6. Cells = Cols * Rows
    BY DEF Cells
  <1> HIDE DEF Cells
  <1> QED BY <1>1, <1>2, <1>5, <1>6, SMT DEF Cell

\* What is known of the numbers of cells and of register values.
LEMMA Limits ==
  /\ Cols \in Nat /\ Rows \in Nat /\ Cols >= 2 /\ Rows >= 2
  /\ Cells \in Nat /\ Cells >= Cols /\ Byte \in Nat /\ Byte >= 1 /\ Byte * Byte \in Nat
  /\ Cells <= Byte * Byte /\ (Rows - 1) * Cols \in Cell
  <1>1. /\ Cols \in Nat /\ Rows \in Nat /\ Cols >= 2 /\ Rows >= 2
        /\ Byte \in Nat /\ Cells <= Byte * Byte /\ Cells = Cols * Rows
    BY ScreenAssumption, SMT DEF ScreenAssumption, Cells
  <1>2. 0 \in 0..(Cols - 1) /\ Rows - 1 \in 0..(Rows - 1)
    BY <1>1, SMT
  <1>3. (Rows - 1) * Cols \in Cell /\ Cells \in Nat
    BY <1>2, PlaceIsCell
  <1>4. Cells = Cols + (Rows - 1) * Cols
    BY <1>1, SMT
  <1>5. (Rows - 1) * Cols \in Nat
    BY <1>3, SMT DEF Cell
  <1>6. Byte * Byte \in Nat
    BY <1>1, SMT
  <1>7. Byte # 0
    <2>1. Byte = 0 => Byte * Byte = 0
      BY SMT
    <2> QED BY <1>1, <1>4, <1>5, <2>1, SMT
  <1> QED BY <1>1, <1>3, <1>4, <1>5, <1>6, <1>7, SMT

\* The two bytes of a place below Byte * Byte.
LEMMA BytesOf ==
  ASSUME NEW place \in Nat, place < Byte * Byte
  PROVE  bytes(place) \in [{14, 15} -> 0..(Byte - 1)]
  <1> DEFINE q == place \div Byte
             r == place % Byte
  <1>1. Byte \in Nat /\ Byte >= 1
    BY Limits
  <1>2. q \in Nat /\ r \in 0..(Byte - 1) /\ q * Byte + r = place
    BY <1>1, TwoBytes, SMT
  <1> HIDE DEF q, r
  <1>3. q \in 0..(Byte - 1)
    <2> SUFFICES ASSUME q >= Byte PROVE FALSE
      BY <1>1, <1>2, SMT
    <2>1. PICK d \in Nat : q = Byte + d
      <3>1. q - Byte \in Nat /\ q = Byte + (q - Byte)
        BY <1>1, <1>2, SMT
      <3> QED BY <3>1
    <2>2. q * Byte = Byte * Byte + d * Byte /\ d * Byte \in Nat
      BY <1>1, <2>1, SMT
    <2>3. Byte * Byte \in Nat
      BY Limits
    <2> QED BY <1>2, <2>2, <2>3, SMT
  <1>4. bytes(place) = [x \in {14, 15} |-> IF x = 14 THEN q ELSE r]
    BY DEF bytes, q, r
  <1> QED BY <1>2, <1>3, <1>4

\* Two bytes make up a place that the registers can hold.
LEMMA PlaceOf ==
  ASSUME register \in [{14, 15} -> 0..(Byte - 1)]
  PROVE  hardware_cursor \in Nat /\ hardware_cursor < Byte * Byte
  <1> DEFINE q == register[14]
             r == register[15]
  <1>1. q \in 0..(Byte - 1) /\ r \in 0..(Byte - 1) /\ hardware_cursor = q * Byte + r
    BY DEF hardware_cursor
  <1>2. Byte \in Nat /\ Byte >= 1 /\ Byte * Byte \in Nat
    BY Limits
  <1> HIDE DEF q, r
  <1>3. PICK d \in Nat : Byte = (q + 1) + d
    <2>1. Byte - (q + 1) \in Nat /\ Byte = (q + 1) + (Byte - (q + 1))
      BY <1>1, <1>2, SMT
    <2> QED BY <2>1
  <1>4. q \in Nat /\ Byte * Byte = (q * Byte + Byte) + d * Byte /\ d * Byte \in Nat
        /\ q * Byte \in Nat
    BY <1>1, <1>2, <1>3, SMT
  <1> QED BY <1>1, <1>2, <1>4, SMT

\* set_cursor, at a place that the registers can hold.
LEMMA SetCursorTypes ==
  ASSUME NEW place \in Nat, place < Byte * Byte, set_cursor(place)
  PROVE  index' \in {14, 15} /\ register' \in [{14, 15} -> 0..(Byte - 1)]
  <1>1. register' = bytes(place) /\ index' = 15
    BY DEF set_cursor
  <1> QED BY <1>1, BytesOf

\* Cells that have been rolled up are cells.
LEMMA RolledCells ==
  ASSUME NEW cells \in SUBSET Cell
  PROVE  cells_rolled(cells) \subseteq Cell
  <1>1. \A i \in Cell : i >= Cols => i - Cols \in Cell
    BY Limits, SMT DEF Cell
  <1> HIDE DEF Cell
  <1> QED BY <1>1 DEF cells_rolled

\* On to the next row: the cursor comes to a place on the screen, wherever it was.
LEMMA NextRowTypes ==
  ASSUME NEW place \in Nat, NEW screen \in [Cell -> Char], NEW cells \in SUBSET Cell,
         next_row(screen, place, cells)
  PROVE  /\ index' \in {14, 15} /\ register' \in [{14, 15} -> 0..(Byte - 1)]
         /\ video' \in [Cell -> Char] /\ overwritten' \subseteq Cell
  <1> DEFINE row == place - (place % Cols) + Cols
  <1>1. row \in Nat
    BY Limits, SMT
  <1> HIDE DEF row
  <1>2. CASE row < Cells
    <2>1. set_cursor(row) /\ video' = screen /\ overwritten' = cells
      BY <1>2 DEF next_row, row
    <2>2. row < Byte * Byte
      BY <1>1, <1>2, Limits, SMT
    <2> QED BY <1>1, <2>1, <2>2, SetCursorTypes
  <1>3. CASE ~(row < Cells)
    <2> DEFINE last == (Rows - 1) * Cols
    <2>1. /\ set_cursor(last) /\ video' = rolled(screen, " ")
          /\ overwritten' = cells_rolled(cells) \cup last..(Cells - 1)
      BY <1>3 DEF next_row, row
    <2>2. last \in Cell
      BY Limits
    <2> HIDE DEF last
    <2>5. overwritten' \subseteq Cell
      <3>1. last..(Cells - 1) \subseteq Cell
        BY <2>2, Limits, SMT DEF Cell
      <3> QED BY <2>1, <3>1, RolledCells
    <2>3. last \in Nat /\ last < Byte * Byte
      BY <2>2, Limits, SMT DEF Cell
    <2>4. rolled(screen, " ") \in [Cell -> Char]
      <3>1. " " \in Char
        BY OwnCharacters
      <3>2. \A i \in Cell : i + Cols < Cells => i + Cols \in Cell
        BY Limits, SMT DEF Cell
      <3> HIDE DEF Char, Cell, Cells
      <3> QED BY <3>1, <3>2 DEF rolled
    <2> QED BY <2>1, <2>3, <2>4, <2>5, SetCursorTypes
  <1> QED BY <1>2, <1>3

\* A character is stored in a cell, or nowhere.
LEMMA StoredTypes ==
  ASSUME NEW screen \in [Cell -> Char], NEW place, NEW char \in Char
  PROVE  stored(screen, place, char) \in [Cell -> Char]
  BY DEF stored

\* A text to which a gap and a character are added.
LEMMA PrintedOfChar ==
  ASSUME NEW s, s \in Seq(Range(s)), Range(s) \subseteq Char, NEW g \in Nat, NEW e \in Char
  PROVE  Range(printed_on(s, g, e)) \subseteq Char
  <1> DEFINE t == printed_on(s, g, e)
  <1>1. "NUL" \in Char
    BY OwnCharacters
  <1> HIDE DEF Char
  <1>2. /\ t \in Seq(Range(t)) /\ Len(t) = Len(s) + g + 1
        /\ \A i \in 1..Len(s) : t[i] = s[i]
        /\ \A i \in (Len(s) + 1)..(Len(s) + g) : t[i] = "NUL"
        /\ t[Len(s) + g + 1] = e
    BY PrintedOn
  <1>3. DOMAIN t = 1..(Len(s) + g + 1) /\ Len(s) \in Nat /\ DOMAIN s = 1..Len(s)
    BY <1>2, LenProperties
  <1>4. \A i \in 1..(Len(s) + g + 1) :
          \/ i \in 1..Len(s) \/ i \in (Len(s) + 1)..(Len(s) + g) \/ i = Len(s) + g + 1
    BY <1>3, SMT
  <1> HIDE DEF t
  <1>5. \A i \in 1..Len(s) : s[i] \in Char
    BY <1>3 DEF Range
  <1>6. \A i \in DOMAIN t : t[i] \in Char
    BY <1>1, <1>2, <1>3, <1>4, <1>5
  <1>7. Range(t) \subseteq Char
    BY <1>6 DEF Range
  <1> QED BY <1>7 DEF t

\* What is left of a text after a roll.
LEMMA SomeLessOfChar ==
  ASSUME NEW s, s \in Seq(Range(s)), Range(s) \subseteq Char, NEW n \in Nat
  PROVE  Range(SubSeq(s, n + 1, Len(s))) \subseteq Char
  <1> HIDE DEF Char
  <1>1. s \in Seq(Char)
    BY SeqMonotonic
  <1>2. SubSeq(s, n + 1, Len(s)) \in Seq(Char)
    <2>1. Len(s) \in Int /\ n + 1 \in Int /\ \A i \in (n + 1)..Len(s) : s[i] \in Char
      BY <1>1, SMT
    <2> QED BY <2>1, SubSeqProperties
  <1>3. \A i \in DOMAIN SubSeq(s, n + 1, Len(s)) : SubSeq(s, n + 1, Len(s))[i] \in Char
    BY <1>2
  <1> QED BY <1>3 DEF Range

\* Whatever key is echoed and wherever the cursor has come to, aput_char leaves
\* the registers within their bytes.
LEMMA EchoTypes ==
  ASSUME CursorInv, PictureOK, DeviceOK, NEW key \in Key, key_echoed(key)
  PROVE  PictureOK' /\ DeviceOK'
  <1> DEFINE place == hardware_cursor
  <1>1. aput_char(key) /\ UNCHANGED cursorLocation
    BY DEF key_echoed
  <1>2. key \in {"other", "enter", "backspace"}
    BY ScreenAssumption DEF ScreenAssumption
  <1>3. place \in Nat /\ place < Byte * Byte /\ Byte * Byte \in Nat
    BY PlaceOf, Limits DEF DeviceOK
  <1>4. /\ video \in [Cell -> Char] /\ overwritten \subseteq Cell
        /\ index \in {14, 15} /\ register \in [{14, 15} -> 0..(Byte - 1)]
    BY DEF PictureOK, DeviceOK
  <1>5. {" ", "key"} \subseteq Char
    BY OwnCharacters
  <1> HIDE DEF Char, Cell, place
  <1>6. /\ index' \in {14, 15} /\ register' \in [{14, 15} -> 0..(Byte - 1)]
        /\ video' \in [Cell -> Char] /\ overwritten' \subseteq Cell
    <2>1. CASE key = "backspace" /\ place = 0
      <3>1. UNCHANGED <<vgaVars, screenVars>>
        BY <1>1, <2>1, Zenon DEF aput_char, place
      <3> QED BY <1>4, <3>1 DEF vgaVars, screenVars
    <2>2. CASE key = "backspace" /\ place # 0
      <3>1. /\ set_cursor(place - 1)
            /\ video' = stored(video, place - 1, " ")
            /\ overwritten' = overwritten \cup ({place - 1} \cap Cell)
        BY <1>1, <2>2, Zenon DEF aput_char, place
      <3>2. place - 1 \in Nat /\ place - 1 < Byte * Byte
        BY <1>3, <2>2, SMT
      <3> QED BY <1>4, <1>5, <3>1, <3>2, SetCursorTypes, StoredTypes
    <2>3. CASE key = "enter"
      <3>1. next_row(video, place, overwritten)
        BY <1>1, <2>3 DEF aput_char, place
      <3> QED BY <1>3, <1>4, <3>1, NextRowTypes
    <2>4. CASE key = "other"
      <3> DEFINE screen == stored(video, place, "key")
                 cells  == overwritten \cup ({place} \cap Cell)
      <3>1. IF place + 1 < Cells
            THEN set_cursor(place + 1) /\ video' = screen /\ overwritten' = cells
            ELSE next_row(screen, place + 1, cells)
        BY <1>1, <2>4 DEF aput_char, place
      <3>2. screen \in [Cell -> Char] /\ cells \in SUBSET Cell
        BY <1>4, <1>5, StoredTypes
      <3>3. place + 1 \in Nat /\ (place + 1 < Cells => place + 1 < Byte * Byte)
        BY <1>3, Limits, SMT
      <3> HIDE DEF screen, cells
      <3> QED BY <3>1, <3>2, <3>3, SetCursorTypes, NextRowTypes
    <2> QED BY <1>2, <2>1, <2>2, <2>3, <2>4
  <1>7. Range(printed)' \subseteq Char
    <2>1. Range(printed)' = Range(printed')
      BY Zenon DEF Range
    <2>2. CASE printed' = printed
      BY <2>1, <2>2 DEF PictureOK
    <2>3. CASE printed' = printed_rolled(printed)
      BY <2>1, <2>3, Limits, SomeLessOfChar DEF PictureOK, CursorInv, printed_rolled
    <2> QED BY <2>2, <2>3, EchoRollsText
  <1> QED BY <1>1, <1>4, <1>6, <1>7 DEF PictureOK, DeviceOK, Cell, Cells

\* The screen after the messages of init_all.
LEMMA PictureInit == ScreenInit => PictureOK /\ DeviceOK /\ InputOK
  <1> SUFFICES ASSUME ScreenInit PROVE PictureOK /\ DeviceOK /\ InputOK
    OBVIOUS
  <1>1. /\ cursor_y \in 1..(Rows - 1) /\ cursorLocation = cursor_y * Cols
        /\ video = [i \in Cell |-> "NUL"] /\ index = 15 /\ register = bytes(cursorLocation)
        /\ keys = 0 /\ faulted = FALSE /\ disturbed = FALSE /\ overwritten = {}
        /\ printed = [i \in 1..cursorLocation |-> "NUL"]
    BY DEF ScreenInit
  <1>2. 0 \in 0..(Cols - 1) /\ cursor_y \in 0..(Rows - 1)
    BY <1>1, Limits, SMT
  <1>3. cursorLocation \in Cell
    BY <1>1, <1>2, PlaceIsCell
  <1>4. cursorLocation \in Nat /\ cursorLocation < Byte * Byte
    BY <1>3, Limits, SMT DEF Cell
  <1>5. register \in [{14, 15} -> 0..(Byte - 1)]
    BY <1>1, <1>4, BytesOf
  <1>6. "NUL" \in Char
    BY OwnCharacters
  <1>7. Range(printed) \subseteq Char
    <2> HIDE DEF Char
    <2> QED BY <1>1, <1>6 DEF Range
  <1>8. 0 \in 0..MaxKeys
    BY ScreenAssumption, SMT DEF ScreenAssumption
  <1> HIDE DEF Char, Cell
  <1>9. video \in [Cell -> Char]
    BY <1>1, <1>6
  <1> QED BY <1>1, <1>3, <1>5, <1>7, <1>8, <1>9 DEF PictureOK, DeviceOK, InputOK

\* Every step keeps the types of what is on the screen.
LEMMA PictureStep ==
  CursorInv /\ BufferOK /\ PictureOK /\ DeviceOK /\ [EchoNext]_vars => PictureOK'
  <1> SUFFICES ASSUME CursorInv, BufferOK, PictureOK, DeviceOK, [EchoNext]_vars
               PROVE  PictureOK'
    OBVIOUS
  <1>1. CASE vga_putc_store
    <2>1. /\ video' = stored(video, cursorLocation, todo[1])
          /\ printed' = printed_on(printed, gap, todo[1])
          /\ overwritten' = overwritten \ {cursorLocation}
      BY <1>1 DEF vga_putc_store
    <2>2. todo[1] \in Char
      BY DEF BufferOK
    <2>3. video' \in [Cell -> Char]
      BY <2>1, <2>2, StoredTypes DEF PictureOK
    <2>4. Range(printed') \subseteq Char
      BY <2>1, <2>2, PrintedOfChar DEF PictureOK, CursorInv
    <2>5. Range(printed)' = Range(printed')
      BY Zenon DEF Range
    <2> HIDE DEF Char, Cell
    <2> QED BY <2>1, <2>3, <2>4, <2>5 DEF PictureOK, Cell, Cells
  <1>2. CASE screen_uproll_once
    <2>1. /\ video' = rolled(video, "NUL") /\ printed' = SubSeq(printed, Cols + 1, Len(printed))
          /\ overwritten' = cells_rolled(overwritten)
      BY <1>2 DEF screen_uproll_once, printed_rolled
    <2>2. video' \in [Cell -> Char]
      <3>1. "NUL" \in Char
        BY OwnCharacters
      <3>2. \A i \in Cell : i + Cols < Cells => i + Cols \in Cell
        BY Limits, SMT DEF Cell
      <3>3. video \in [Cell -> Char]
        BY DEF PictureOK
      <3> HIDE DEF Char, Cell, Cells
      <3> QED BY <2>1, <3>1, <3>2, <3>3 DEF rolled
    <2>3. overwritten' \subseteq Cell
      <3>1. overwritten \in SUBSET Cell
        BY DEF PictureOK
      <3> HIDE DEF Cell
      <3> QED BY <2>1, <3>1, RolledCells
    <2>4. Range(printed') \subseteq Char
      BY <2>1, Limits, SomeLessOfChar DEF PictureOK, CursorInv
    <2>5. Range(printed)' = Range(printed')
      BY Zenon DEF Range
    <2> HIDE DEF Char, Cell
    <2> QED BY <2>2, <2>3, <2>4, <2>5 DEF PictureOK, Cell, Cells
  <1>3. ASSUME NEW key \in Key, key_echoed(key) PROVE PictureOK'
    BY <1>3, EchoTypes
  <1>4. CASE \/ \E call \in Messages : prints(call)
             \/ kputc_color \/ vga_putc \/ vga_putc_advance
             \/ move_cursor \/ move_cursor_outb \/ UNCHANGED vars
    <2>1. UNCHANGED screenVars
      BY <1>4 DEF prints, kputc_color, vga_putc, vga_putc_advance, move_cursor,
                  move_cursor_outb, vars
    <2> QED BY <2>1 DEF screenVars, PictureOK, Cell, Cells, Range
  <1> QED BY <1>1, <1>2, <1>3, <1>4 DEF EchoNext

\* Every step keeps the registers within their bytes.
LEMMA DeviceStep ==
  CursorInv /\ PictureOK /\ DeviceOK /\ [EchoNext]_vars => DeviceOK'
  <1> SUFFICES ASSUME CursorInv, PictureOK, DeviceOK, [EchoNext]_vars
               PROVE  DeviceOK'
    OBVIOUS
  <1>1. cursor_y * Cols + cursor_x \in Cell
    BY PlaceIsCell DEF CursorInv
  <1> HIDE DEF Cell
  <1>2. CASE vga_putc
    <2>1. UNCHANGED vgaVars /\ cursorLocation' \in {cursorLocation, cursor_y * Cols + cursor_x}
      BY <1>2 DEF vga_putc
    <2> QED BY <1>1, <2>1 DEF vgaVars, DeviceOK, Cell, Cells
  <1>3. CASE move_cursor
    <2>1. UNCHANGED vgaVars /\ cursorLocation' = cursor_y * Cols + cursor_x
      BY <1>3 DEF move_cursor
    <2> QED BY <1>1, <2>1 DEF vgaVars, DeviceOK, Cell, Cells
  <1>4. CASE move_cursor_outb
    <2>1. /\ cursorLocation' = cursorLocation /\ index' \in {index, 14, 15}
          /\ register' \in {register,
                            [register EXCEPT ![index] = cursorLocation \div Byte],
                            [register EXCEPT ![index] = cursorLocation % Byte]}
      BY <1>4 DEF move_cursor_outb
    <2>2. cursorLocation \div Byte \in 0..(Byte - 1) /\ cursorLocation % Byte \in 0..(Byte - 1)
      <3>1. cursorLocation \in Nat /\ cursorLocation < Byte * Byte
        BY Limits, SMT DEF DeviceOK, Cell
      <3>2. /\ bytes(cursorLocation) \in [{14, 15} -> 0..(Byte - 1)]
            /\ bytes(cursorLocation)[14] = cursorLocation \div Byte
            /\ bytes(cursorLocation)[15] = cursorLocation % Byte
        BY <3>1, BytesOf DEF bytes
      <3> QED BY <3>2
    <2>3. register' \in [{14, 15} -> 0..(Byte - 1)]
      BY <2>1, <2>2 DEF DeviceOK
    <2> QED BY <2>1, <2>3 DEF DeviceOK, Cell, Cells
  <1>5. ASSUME NEW key \in Key, key_echoed(key) PROVE DeviceOK'
    BY <1>5, EchoTypes
  <1>6. CASE \/ \E call \in Messages : prints(call)
             \/ kputc_color \/ vga_putc_store \/ vga_putc_advance \/ screen_uproll_once
             \/ UNCHANGED vars
    <2>1. UNCHANGED <<cursorLocation, index, register>>
      BY <1>6 DEF prints, kputc_color, vga_putc_store, vga_putc_advance, screen_uproll_once,
                  vars, vgaVars
    <2> QED BY <2>1 DEF DeviceOK, Cell, Cells
  <1> QED BY <1>2, <1>3, <1>4, <1>5, <1>6 DEF EchoNext

\* A key is echoed as long as fewer than MaxKeys were pressed.
LEMMA InputStep == InputOK /\ [EchoNext]_vars => InputOK'
  <1> SUFFICES ASSUME InputOK, [EchoNext]_vars PROVE InputOK'
    OBVIOUS
  <1>1. MaxKeys \in Nat
    BY ScreenAssumption DEF ScreenAssumption
  <1>2. ASSUME NEW key \in Key, key_echoed(key) PROVE InputOK'
    <2>1. keys < MaxKeys /\ keys' = keys + 1 /\ disturbed' = TRUE /\ aput_char(key)
      BY <1>2 DEF key_echoed
    <2>2. key \in {"other", "enter", "backspace"}
      BY ScreenAssumption DEF ScreenAssumption
    <2>3. faulted' \in {faulted, TRUE}
      BY <2>1, <2>2, Zenon DEF aput_char
    <2>4. keys' \in 0..MaxKeys
      BY <1>1, <2>1, SMT DEF InputOK
    <2> QED BY <2>1, <2>3, <2>4 DEF InputOK
  <1>3. CASE vga_putc
    <2>1. keys' = keys /\ faulted' = faulted /\ disturbed' \in {disturbed, FALSE}
      BY <1>3 DEF vga_putc
    <2> QED BY <2>1 DEF InputOK
  <1>4. CASE \/ \E call \in Messages : prints(call)
             \/ kputc_color \/ vga_putc_store \/ vga_putc_advance \/ screen_uproll_once
             \/ move_cursor \/ move_cursor_outb \/ UNCHANGED vars
    <2>1. UNCHANGED inputVars
      BY <1>4 DEF prints, kputc_color, vga_putc_store, vga_putc_advance, screen_uproll_once,
                  move_cursor, move_cursor_outb, vars
    <2> QED BY <2>1 DEF inputVars, InputOK
  <1> QED BY <1>2, <1>3, <1>4 DEF EchoNext

\* probe never runs behind printk's buffer, and no value that is written to a
\* VGA register exceeds its byte, wherever keys come in between.
THEOREM ScreenTypesSafe == EchoSpec => []ScreenTypeOK
  <1> DEFINE Types == BufferOK /\ PictureOK /\ DeviceOK /\ InputOK
  <1>1. CursorInv /\ Types => ScreenTypeOK
    <2> SUFFICES ASSUME CursorInv, Types PROVE ScreenTypeOK
      OBVIOUS
    <2>1. Range(staticArry) \subseteq Char
      <3>1. staticArry \in Seq(Char)
        BY DEF BufferOK
      <3> HIDE DEF Char
      <3>2. \A i \in DOMAIN staticArry : staticArry[i] \in Char
        BY <3>1
      <3> QED BY <3>2 DEF Range
    <2> HIDE DEF Char, Cell
    <2> QED BY <2>1 DEF ScreenTypeOK, CursorInv, Places, BufferOK, PictureOK, DeviceOK, InputOK
  <1>2. ScreenInit => Types
    BY BufferInit, PictureInit
  <1>3. CursorInv /\ Types /\ [EchoNext]_vars => Types'
    BY BufferStep, PictureStep, DeviceStep, InputStep
  <1> HIDE DEF Types
  <1> QED BY <1>1, <1>2, <1>3, CursorInit, CursorStep, PTL DEF EchoSpec

=============================================================================
