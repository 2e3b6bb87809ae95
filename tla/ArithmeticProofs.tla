-------------------------- MODULE ArithmeticProofs --------------------------
(***************************************************************************)
(* Theorems of Arithmetic: for every width of a word, what the operations  *)
(* on words compute is the arithmetic of the numbers they stand for.       *)
(***************************************************************************)
EXTENDS Arithmetic, TLAPS

-----------------------------------------------------------------------------
(* Words.                                                                  *)

\* A number shifted by a word.  The provers see no product in it, but by these
\* facts.
Shift(n) == n * Word

LEMMA ShiftType ==
  ASSUME NEW a \in Int
  PROVE  Shift(a) \in Int
  BY WordAssumption DEF Shift

LEMMA ShiftAdds ==
  ASSUME NEW a \in Int, NEW b \in Int
  PROVE  /\ Shift(a + b) = Shift(a) + Shift(b)
         /\ Shift(a - b) = Shift(a) - Shift(b)
  BY WordAssumption DEF Shift

LEMMA ShiftBits ==
  Shift(0) = 0 /\ Shift(1) = Word
  BY WordAssumption DEF Shift

LEMMA WordsAreInts ==
  /\ \A x \in Words : x \in Int
  /\ \A b \in Bits : b \in Int /\ Shift(Shift(b)) = IF b # 0 THEN Shift(Word) ELSE 0
  /\ 0 \in Bits /\ Word \in Int
  BY WordAssumption, ShiftBits DEF Words, Bits

\* How the carry of one column gets into the next: a + b in the lower, and
\* c + d + k in the upper one.
LEMMA Columns ==
  ASSUME NEW a \in Int, NEW b \in Int, NEW c \in Int, NEW d \in Int,
         NEW k \in Int, NEW m \in Int, NEW n \in Int, NEW p \in Int,
         a + b = Shift(k) + m, c + d + k = Shift(n) + p
  PROVE  (Shift(c) + a) + (Shift(d) + b) = Shift(Shift(n)) + (Shift(p) + m)
<1>1. Shift(c + d + k) = Shift(c) + Shift(d) + Shift(k)
  <2>1. c + d \in Int
    OBVIOUS
  <2>2. Shift((c + d) + k) = Shift(c + d) + Shift(k)
    BY <2>1, ShiftAdds
  <2> QED
    BY <2>2, ShiftAdds
<1>2. Shift(Shift(n) + p) = Shift(Shift(n)) + Shift(p)
  BY ShiftType, ShiftAdds
<1>3. Shift(c) + Shift(d) + Shift(k) = Shift(Shift(n)) + Shift(p)
  BY <1>1, <1>2
<1>4. /\ Shift(a) \in Int /\ Shift(c) \in Int /\ Shift(d) \in Int /\ Shift(k) \in Int
      /\ Shift(n) \in Int /\ Shift(p) \in Int
  BY ShiftType
<1>5. Shift(Shift(n)) \in Int
  BY <1>4, ShiftType
<1> QED
  BY <1>3, <1>4, <1>5

\* A word and a carry are the exact sum of two words and a carry (bits.Add64).
LEMMA Add64Exact ==
  ASSUME NEW x \in Words, NEW y \in Words, NEW c \in Bits
  PROVE  /\ Add64(x, y, c).sum \in Words
         /\ Add64(x, y, c).carry \in Bits
         /\ x + y + c = Shift(Add64(x, y, c).carry) + Add64(x, y, c).sum
  BY WordAssumption, ShiftBits DEF Add64, Words, Bits

\* A word less a borrow is the exact difference (bits.Sub64).
LEMMA Sub64Exact ==
  ASSUME NEW x \in Words, NEW y \in Words, NEW b \in Bits
  PROVE  /\ Sub64(x, y, b).diff \in Words
         /\ Sub64(x, y, b).borrow \in Bits
         /\ x - y - b = Sub64(x, y, b).diff - Shift(Sub64(x, y, b).borrow)
  BY WordAssumption, ShiftBits DEF Sub64, Words, Bits

-----------------------------------------------------------------------------
(* Currency.                                                               *)

LEMMA CurrencyWords ==
  ASSUME NEW c \in Currency
  PROVE  c.lo \in Words /\ c.hi \in Words /\ Num(c) = Shift(c.hi) + c.lo
  BY DEF Num, Shift, Currency

\* AddWithOverflow is exact, with 2^128 for an overflow (currency.go:77-83).
THEOREM AddExact ==
  ASSUME NEW c \in Currency, NEW v \in Currency
  PROVE  /\ AddWithOverflow(c, v).val \in Currency
         /\ AddWithOverflow(c, v).overflow \in BOOLEAN
         /\ Num(c) + Num(v) = Num(AddWithOverflow(c, v).val)
              + (IF AddWithOverflow(c, v).overflow THEN Shift(Word) ELSE 0)
<1> DEFINE l == Add64(c.lo, v.lo, 0)
           h == Add64(c.hi, v.hi, l.carry)
           r == AddWithOverflow(c, v)
<1>1. /\ c.lo \in Words /\ v.lo \in Words /\ c.hi \in Words /\ v.hi \in Words
      /\ Num(c) = Shift(c.hi) + c.lo /\ Num(v) = Shift(v.hi) + v.lo
  BY CurrencyWords
<1>2. /\ l.sum \in Words /\ l.carry \in Bits
      /\ c.lo + v.lo + 0 = Shift(l.carry) + l.sum
  BY <1>1, Add64Exact, WordsAreInts
<1>3. /\ h.sum \in Words /\ h.carry \in Bits
      /\ c.hi + v.hi + l.carry = Shift(h.carry) + h.sum
  BY <1>1, <1>2, Add64Exact
<1>4. r = [val |-> [lo |-> l.sum, hi |-> h.sum], overflow |-> h.carry # 0]
  BY DEF AddWithOverflow
<1> HIDE DEF l, h, r
<1>5. /\ c.lo \in Int /\ v.lo \in Int /\ c.hi \in Int /\ v.hi \in Int
      /\ l.sum \in Int /\ l.carry \in Int /\ h.sum \in Int /\ h.carry \in Int
  BY <1>1, <1>2, <1>3, WordsAreInts
<1>6. c.lo + v.lo = Shift(l.carry) + l.sum
  BY <1>2, <1>5
<1>7. Num(c) + Num(v) = Shift(Shift(h.carry)) + (Shift(h.sum) + l.sum)
  BY <1>1, <1>3, <1>5, <1>6, Columns
<1>8. Shift(Shift(h.carry)) = IF h.carry # 0 THEN Shift(Word) ELSE 0
  BY <1>3, WordsAreInts
<1>9. r.val \in Currency /\ r.overflow = (h.carry # 0) /\ Num(r.val) = Shift(h.sum) + l.sum
  BY <1>2, <1>3, <1>4 DEF Currency, Num, Shift
<1>10. Shift(h.sum) \in Int /\ Shift(Word) \in Int
  BY <1>5, ShiftType, WordsAreInts
<1>11. Num(c) + Num(v) = Num(r.val) + (IF h.carry # 0 THEN Shift(Word) ELSE 0)
  BY <1>5, <1>7, <1>8, <1>9, <1>10
<1> QED
  BY <1>9, <1>11 DEF r

\* SubWithUnderflow is exact, with 2^128 for an underflow (currency.go:94-100).
THEOREM SubExact ==
  ASSUME NEW c \in Currency, NEW v \in Currency
  PROVE  /\ SubWithUnderflow(c, v).val \in Currency
         /\ SubWithUnderflow(c, v).underflow \in BOOLEAN
         /\ Num(v) + Num(SubWithUnderflow(c, v).val)
              = Num(c) + (IF SubWithUnderflow(c, v).underflow THEN Shift(Word) ELSE 0)
<1> DEFINE l == Sub64(c.lo, v.lo, 0)
           h == Sub64(c.hi, v.hi, l.borrow)
           r == SubWithUnderflow(c, v)
<1>1. /\ c.lo \in Words /\ v.lo \in Words /\ c.hi \in Words /\ v.hi \in Words
      /\ Num(c) = Shift(c.hi) + c.lo /\ Num(v) = Shift(v.hi) + v.lo
  BY CurrencyWords
<1>2. /\ l.diff \in Words /\ l.borrow \in Bits
      /\ c.lo - v.lo - 0 = l.diff - Shift(l.borrow)
  BY <1>1, Sub64Exact, WordsAreInts
<1>3. /\ h.diff \in Words /\ h.borrow \in Bits
      /\ c.hi - v.hi - l.borrow = h.diff - Shift(h.borrow)
  BY <1>1, <1>2, Sub64Exact
<1>4. r = [val |-> [lo |-> l.diff, hi |-> h.diff], underflow |-> h.borrow # 0]
  BY DEF SubWithUnderflow
<1> HIDE DEF l, h, r
<1>5. /\ c.lo \in Int /\ v.lo \in Int /\ c.hi \in Int /\ v.hi \in Int
      /\ l.diff \in Int /\ l.borrow \in Int /\ h.diff \in Int /\ h.borrow \in Int
  BY <1>1, <1>2, <1>3, WordsAreInts
<1>6. /\ v.lo + l.diff = Shift(l.borrow) + c.lo
      /\ v.hi + h.diff + l.borrow = Shift(h.borrow) + c.hi
  <2>1. Shift(l.borrow) \in Int /\ Shift(h.borrow) \in Int
    BY <1>5, ShiftType
  <2>2. v.lo + l.diff = Shift(l.borrow) + c.lo
    BY <2>1, <1>2, <1>5
  <2>3. c.hi = h.diff - Shift(h.borrow) + l.borrow + v.hi
    BY <2>1, <1>3, <1>5
  <2>4. v.hi + h.diff + l.borrow = Shift(h.borrow) + c.hi
    BY <2>1, <2>3, <1>5
  <2> QED
    BY <2>2, <2>4
<1>7. Num(v) + (Shift(h.diff) + l.diff) = Shift(Shift(h.borrow)) + Num(c)
  BY <1>1, <1>5, <1>6, Columns
<1>8. Shift(Shift(h.borrow)) = IF h.borrow # 0 THEN Shift(Word) ELSE 0
  BY <1>3, WordsAreInts
<1>9. r.val \in Currency /\ r.underflow = (h.borrow # 0) /\ Num(r.val) = Shift(h.diff) + l.diff
  BY <1>2, <1>3, <1>4 DEF Currency, Num, Shift
<1>10. Shift(c.hi) \in Int /\ Shift(Word) \in Int
  BY <1>5, ShiftType, WordsAreInts
<1>11. Num(v) + Num(r.val) = Num(c) + (IF h.borrow # 0 THEN Shift(Word) ELSE 0)
  BY <1>1, <1>5, <1>7, <1>8, <1>9, <1>10
<1> QED
  BY <1>9, <1>11 DEF r

\* A greater number is greater by a whole word when it is shifted.
LEMMA ShiftMonotone ==
  ASSUME NEW a \in Int, NEW b \in Int, a < b
  PROVE  Shift(a) + Word <= Shift(b)
<1>1. \A n \in Nat \ {0} : n * Word >= Word
  BY WordAssumption
<1>2. b - a \in Nat \ {0}
  OBVIOUS
<1>3. Shift(b - a) >= Word
  BY <1>1, <1>2 DEF Shift
<1>4. Shift(a) \in Int /\ Shift(b) \in Int /\ Word \in Int
  BY ShiftType, WordsAreInts
<1>5. Shift(b - a) = Shift(b) - Shift(a)
  BY ShiftAdds
<1> QED
  BY <1>3, <1>4, <1>5

\* Cmp orders Currency values as the numbers they stand for (currency.go:42-57).
THEOREM CmpIsOrder ==
  ASSUME NEW c \in Currency, NEW v \in Currency
  PROVE  /\ Cmp(c, v) = 0  <=> Num(c) = Num(v)
         /\ Cmp(c, v) = -1 <=> Num(c) < Num(v)
         /\ Cmp(c, v) = 1  <=> Num(c) > Num(v)
<1>1. /\ c.lo \in 0 .. (Word - 1) /\ v.lo \in 0 .. (Word - 1) /\ c.hi \in Int /\ v.hi \in Int
      /\ Num(c) = Shift(c.hi) + c.lo /\ Num(v) = Shift(v.hi) + v.lo
  BY CurrencyWords, WordsAreInts DEF Words
<1>2. Shift(c.hi) \in Int /\ Shift(v.hi) \in Int
  BY <1>1, ShiftType
<1>3. c = v <=> c.hi = v.hi /\ c.lo = v.lo
  BY DEF Currency
<1>4. CASE c.hi = v.hi
  BY <1>1, <1>2, <1>3, <1>4 DEF Cmp
<1>5. CASE c.hi < v.hi
  <2>1. Num(c) < Num(v)
    BY <1>1, <1>2, <1>5, ShiftMonotone, WordsAreInts
  <2> QED
    BY <2>1, <1>1, <1>2, <1>3, <1>5 DEF Cmp
<1>6. CASE v.hi < c.hi
  <2>1. Num(v) < Num(c)
    BY <1>1, <1>2, <1>6, ShiftMonotone, WordsAreInts
  <2> QED
    BY <2>1, <1>1, <1>2, <1>3, <1>6 DEF Cmp
<1> QED
  BY <1>1, <1>4, <1>5, <1>6

-----------------------------------------------------------------------------
(* Products and quotients.                                                 *)

\* What \div and % are.
LEMMA DivMod ==
  ASSUME NEW n \in Nat, NEW x \in Nat \ {0}
  PROVE  /\ n \div x \in Nat /\ n % x \in Nat /\ n % x < x
         /\ n = x * (n \div x) + (n % x)
  OBVIOUS

LEMMA ProductMonotone ==
  ASSUME NEW a \in Nat, NEW b \in Nat, NEW n \in Nat, a <= b
  PROVE  n * a <= n * b /\ n * a \in Nat /\ n * b \in Nat
  OBVIOUS

LEMMA Products ==
  ASSUME NEW x \in Words, NEW y \in Words
  PROVE  x * y \in Nat /\ x * y <= Shift(Word - 2) + 1
<1>1. x \in Nat /\ y \in Nat /\ x <= Word - 1 /\ y <= Word - 1 /\ Word \in Nat /\ Word > 1
  BY WordAssumption DEF Words
<1>2. x * y \in Nat
  BY <1>1
<1>3. x * y <= x * (Word - 1)
  BY <1>1
<1>4. x * (Word - 1) <= (Word - 1) * (Word - 1)
  BY <1>1
<1>5. (Word - 1) * (Word - 1) = Shift(Word - 2) + 1
  BY <1>1 DEF Shift
<1> QED
  BY <1>1, <1>2, <1>3, <1>4, <1>5

\* Two words are the exact product of two words, and the upper one leaves room
\* for a carry (bits.Mul64).
LEMMA Mul64Exact ==
  ASSUME NEW x \in Words, NEW y \in Words
  PROVE  /\ Mul64(x, y).hi \in Words /\ Mul64(x, y).hi + 1 \in Words
         /\ Mul64(x, y).lo \in Words
         /\ x * y = Shift(Mul64(x, y).hi) + Mul64(x, y).lo
<1> DEFINE n == x * y
<1>1. n \in Nat /\ n <= Shift(Word - 2) + 1
  BY Products
<1> HIDE DEF n
<1>2. Word \in Nat \ {0} /\ Word > 1
  BY WordAssumption
<1>3. /\ n \div Word \in Nat /\ n % Word \in Nat /\ n % Word < Word
      /\ n = Shift(n \div Word) + (n % Word)
  BY <1>1, <1>2, DivMod DEF Shift
<1>4. n \div Word <= Word - 2
  <2>1. SUFFICES ASSUME Word - 2 < n \div Word PROVE FALSE
    BY <1>2, <1>3
  <2>2. Shift(Word - 2) + Word <= Shift(n \div Word)
    BY <2>1, <1>2, <1>3, ShiftMonotone
  <2>3. Shift(Word - 2) \in Int /\ Shift(n \div Word) \in Int
    BY <1>2, <1>3, ShiftType
  <2> QED
    BY <2>2, <2>3, <1>1, <1>2, <1>3
<1>5. n \div Word \in Words /\ n \div Word + 1 \in Words /\ n % Word \in Words
  BY <1>2, <1>3, <1>4 DEF Words
<1>6. Mul64(x, y) = [hi |-> n \div Word, lo |-> n % Word]
  BY DEF Mul64, n
<1> QED
  BY <1>3, <1>5, <1>6 DEF n

\* Mul64 is exact where it does not panic, and panics only where the product is
\* not less than 2^128 (currency.go:102-118).
THEOREM MulExact ==
  ASSUME NEW c \in Currency, NEW x \in Words
  PROVE  /\ Times(c, x).val \in Currency
         /\ Times(c, x).overflow \in BOOLEAN
         /\ ~Times(c, x).overflow => Num(c) * x = Num(Times(c, x).val)
         /\ Times(c, x).overflow  => Num(c) * x >= Shift(Word)
<1> DEFINE p == Mul64(c.lo, x)
           q == Mul64(c.hi, x)
           h == Add64(p.hi, q.lo, 0)
           r == Times(c, x)
<1>1. /\ c.lo \in Words /\ c.hi \in Words /\ Num(c) = Shift(c.hi) + c.lo
  BY CurrencyWords
<1>2. /\ p.hi \in Words /\ p.lo \in Words /\ c.lo * x = Shift(p.hi) + p.lo
  BY <1>1, Mul64Exact
<1>3. /\ q.hi \in Words /\ q.lo \in Words /\ c.hi * x = Shift(q.hi) + q.lo
  BY <1>1, Mul64Exact
<1>4. /\ h.sum \in Words /\ h.carry \in Bits
      /\ p.hi + q.lo + 0 = Shift(h.carry) + h.sum
  BY <1>2, <1>3, Add64Exact, WordsAreInts
<1>5. r = [val |-> [lo |-> p.lo, hi |-> h.sum], overflow |-> q.hi # 0 \/ h.carry # 0]
  BY DEF Times
<1> HIDE DEF p, q, h, r
<1>6. /\ c.lo \in Int /\ c.hi \in Int /\ x \in Int /\ p.lo \in Nat /\ p.hi \in Int
      /\ q.lo \in Int /\ q.hi \in Nat /\ h.sum \in Nat /\ h.carry \in Nat /\ Word \in Nat
  BY <1>1, <1>2, <1>3, <1>4, WordAssumption DEF Words, Bits
<1>7. Num(c) * x = Shift(c.hi * x) + c.lo * x
  <2>1. \A m \in Int : (m * Word + c.lo) * x = (m * x) * Word + c.lo * x
    BY <1>6
  <2> QED
    BY <2>1, <1>1, <1>6 DEF Shift
<1>8. Shift(c.hi * x) = Shift(Shift(q.hi)) + Shift(q.lo)
  <2>1. Shift(q.hi) \in Int
    BY <1>6, ShiftType
  <2>2. Shift(Shift(q.hi) + q.lo) = Shift(Shift(q.hi)) + Shift(q.lo)
    BY <2>1, <1>6, ShiftAdds
  <2> QED
    BY <2>2, <1>3
<1>9. Shift(p.hi) + Shift(q.lo) = Shift(Shift(h.carry)) + Shift(h.sum)
  <2>1. p.hi + q.lo = Shift(h.carry) + h.sum
    BY <1>4, <1>6
  <2>2. Shift(p.hi + q.lo) = Shift(p.hi) + Shift(q.lo)
    BY <1>6, ShiftAdds
  <2>3. Shift(h.carry) \in Int /\ h.sum \in Int
    BY <1>6, ShiftType
  <2>4. Shift(Shift(h.carry) + h.sum) = Shift(Shift(h.carry)) + Shift(h.sum)
    BY <2>3, <1>6, ShiftAdds
  <2> QED
    BY <2>1, <2>2, <2>4
<1>10. /\ Shift(p.hi) \in Int /\ Shift(q.lo) \in Int /\ Shift(h.sum) \in Int
       /\ Shift(Shift(h.carry)) \in Int /\ Shift(Shift(q.hi)) \in Int
  BY <1>6, ShiftType
<1>11. Num(c) * x = Shift(Shift(q.hi)) + Shift(Shift(h.carry)) + Shift(h.sum) + p.lo
  <2>1. Num(c) * x = Shift(Shift(q.hi)) + Shift(q.lo) + Shift(p.hi) + p.lo
    BY <1>2, <1>7, <1>8, <1>6, <1>10
  <2> QED
    BY <2>1, <1>9, <1>6, <1>10
<1>12. \A n \in Nat : Shift(Shift(n)) >= 0 /\ (n # 0 => Shift(Shift(n)) >= Shift(Word))
  <2>1. SUFFICES ASSUME NEW n \in Nat
                 PROVE  Shift(Shift(n)) >= 0 /\ (n # 0 => Shift(Shift(n)) >= Shift(Word))
    OBVIOUS
  <2>2. Shift(n) \in Nat /\ (n # 0 => Shift(n) >= Word)
    BY <1>6, WordAssumption DEF Shift
  <2>3. \A k \in Nat : Shift(k) >= 0 /\ (k >= Word => Shift(k) >= Shift(Word))
    BY <1>6, WordAssumption DEF Shift
  <2> QED
    BY <2>2, <2>3
<1>13. /\ r.val \in Currency /\ r.overflow = (q.hi # 0 \/ h.carry # 0)
       /\ Num(r.val) = Shift(h.sum) + p.lo
  BY <1>2, <1>4, <1>5 DEF Currency, Num, Shift
<1>14. q.hi = 0 /\ h.carry = 0 => Num(c) * x = Num(r.val)
  <2>1. Shift(Shift(0)) = 0
    BY ShiftBits
  <2> QED
    BY <2>1, <1>6, <1>10, <1>11, <1>13
<1>15. q.hi # 0 \/ h.carry # 0 => Num(c) * x >= Shift(Word)
  <2>1. Shift(h.sum) >= 0 /\ Shift(Word) \in Int
    BY <1>6, WordAssumption DEF Shift
  <2> QED
    BY <2>1, <1>6, <1>10, <1>11, <1>12
<1> QED
  BY <1>13, <1>14, <1>15 DEF r

\* A word of quotient and a remainder, of a number whose upper word is less than
\* the divisor (bits.Div64).
LEMMA Div64Exact ==
  ASSUME NEW hi \in Words, NEW lo \in Words, NEW x \in Words, hi < x
  PROVE  /\ Div64(hi, lo, x).quo \in Words
         /\ Div64(hi, lo, x).rem \in Words /\ Div64(hi, lo, x).rem < x
         /\ Shift(hi) + lo = Div64(hi, lo, x).quo * x + Div64(hi, lo, x).rem
<1> DEFINE n == hi * Word + lo
<1>1. /\ hi \in Nat /\ lo \in Nat /\ x \in Nat \ {0} /\ Word \in Nat /\ lo < Word /\ x < Word
  BY WordAssumption DEF Words
<1>2. n \in Nat /\ n = Shift(hi) + lo
  BY <1>1 DEF Shift
<1>3. n < x * Word
  <2>1. hi * Word + Word <= x * Word
    <3>1. hi + 1 <= x
      BY <1>1
    <3> QED
      BY <3>1, <1>1, ShiftMonotone DEF Shift
  <2> QED
    BY <2>1, <1>1, <1>2
<1> HIDE DEF n
<1>4. /\ n \div x \in Nat /\ n % x \in Nat /\ n % x < x
      /\ n = x * (n \div x) + (n % x)
  BY <1>1, <1>2, DivMod
<1>5. n \div x < Word
  <2>1. SUFFICES ASSUME n \div x >= Word PROVE FALSE
    BY <1>1, <1>4
  <2>2. x * (n \div x) >= x * Word
    BY <2>1, <1>1, <1>4, ProductMonotone
  <2> QED
    BY <2>2, <1>1, <1>2, <1>3, <1>4
<1>6. n \div x \in Words /\ n % x \in Words
  BY <1>1, <1>4, <1>5 DEF Words
<1>7. Div64(hi, lo, x) = [quo |-> n \div x, rem |-> n % x]
  BY DEF Div64, n
<1>8. x * (n \div x) = (n \div x) * x
  BY <1>1, <1>4
<1> QED
  BY <1>2, <1>4, <1>6, <1>7, <1>8

\* One step of a long division: the remainder so far and the next word give a
\* word of the quotient and the next remainder.
LEMMA LongDivision ==
  ASSUME NEW n \in Int, NEW q \in Int, NEW r \in Words, NEW x \in Words, r < x,
         n = q * x + r, NEW w \in Words
  PROVE  /\ Div64(r, w, x).quo \in Words
         /\ Div64(r, w, x).rem \in Words /\ Div64(r, w, x).rem < x
         /\ Shift(n) + w = (Shift(q) + Div64(r, w, x).quo) * x + Div64(r, w, x).rem
<1> DEFINE d == Div64(r, w, x)
<1>1. /\ d.quo \in Words /\ d.rem \in Words /\ d.rem < x
      /\ Shift(r) + w = d.quo * x + d.rem
  BY Div64Exact
<1> HIDE DEF d
<1>2. /\ d.quo \in Int /\ d.rem \in Int /\ r \in Int /\ w \in Int /\ x \in Int /\ Word \in Int
  BY <1>1, WordsAreInts
<1>3. q * x \in Int /\ Shift(q * x) \in Int /\ Shift(r) \in Int /\ d.quo * x \in Int
  BY <1>2, ShiftType
<1>4. Shift(n) = Shift(q * x) + Shift(r)
  BY <1>2, <1>3, ShiftAdds
<1>5. Shift(q * x) = Shift(q) * x
  BY <1>2 DEF Shift
<1>6. (Shift(q) + d.quo) * x = Shift(q) * x + d.quo * x
  <2>1. Shift(q) \in Int
    BY ShiftType
  <2> QED
    BY <2>1, <1>2
<1>7. Shift(n) + w = (Shift(q) + d.quo) * x + d.rem
  BY <1>1, <1>2, <1>3, <1>4, <1>5, <1>6, SMTT(30)
<1> QED
  BY <1>1, <1>7 DEF d

\* quoRem64 is the quotient and the remainder (currency.go:160-169).
THEOREM DivExact ==
  ASSUME NEW c \in Currency, NEW x \in Words, x # 0
  PROVE  /\ quoRem64(c, x).quo \in Currency
         /\ quoRem64(c, x).rem \in Words /\ quoRem64(c, x).rem < x
         /\ Num(c) = Num(quoRem64(c, x).quo) * x + quoRem64(c, x).rem
<1>1. /\ c.lo \in Words /\ c.hi \in Words /\ Num(c) = Shift(c.hi) + c.lo
  BY CurrencyWords
<1>2. 0 \in Words /\ x \in Int /\ 0 < x /\ c.hi \in Int /\ c.lo \in Int
  BY <1>1, WordAssumption DEF Words
<1>3. CASE c.hi < x
  <2> DEFINE d == Div64(c.hi, c.lo, x)
  <2>1. /\ d.quo \in Words /\ d.rem \in Words /\ d.rem < x
        /\ Shift(c.hi) + c.lo = d.quo * x + d.rem
    BY <1>1, <1>3, Div64Exact
  <2>2. quoRem64(c, x) = [quo |-> [lo |-> d.quo, hi |-> 0], rem |-> d.rem]
    BY <1>3 DEF quoRem64
  <2> HIDE DEF d
  <2>3. Num([lo |-> d.quo, hi |-> 0]) = d.quo
    <3>1. Num([lo |-> d.quo, hi |-> 0]) = Shift(0) + d.quo /\ d.quo \in Int
      BY <2>1, WordsAreInts DEF Num, Shift
    <3> QED
      BY <3>1, ShiftBits
  <2>4. [lo |-> d.quo, hi |-> 0] \in Currency
    BY <2>1, <1>2 DEF Currency
  <2> QED
    BY <1>1, <2>1, <2>2, <2>3, <2>4
<1>4. CASE ~(c.hi < x)
  <2> DEFINE h == Div64(0, c.hi, x)
             q == h.quo
             r == h.rem
             l == Div64(r, c.lo, x)
  <2>1. quoRem64(c, x) = [quo |-> [lo |-> l.quo, hi |-> q], rem |-> l.rem]
    BY <1>4 DEF quoRem64
  <2>2. q \in Words /\ r \in Words /\ r < x /\ Shift(0) + c.hi = q * x + r
    BY <1>1, <1>2, Div64Exact
  <2> HIDE DEF h, q, r
  <2>3. q \in Int /\ r \in Int
    BY <2>2, WordsAreInts
  <2>4. c.hi = q * x + r
    <3>1. q * x + r = Shift(0) + c.hi
      BY <2>2
    <3> QED
      BY <3>1, <1>2, ShiftBits
  <2>5. /\ l.quo \in Words /\ l.rem \in Words /\ l.rem < x
        /\ Shift(c.hi) + c.lo = (Shift(q) + l.quo) * x + l.rem
    BY <1>1, <1>2, <2>2, <2>3, <2>4, LongDivision
  <2> HIDE DEF l
  <2>6. [lo |-> l.quo, hi |-> q] \in Currency
    BY <2>2, <2>5 DEF Currency
  <2>7. Num([lo |-> l.quo, hi |-> q]) = Shift(q) + l.quo
    BY DEF Num, Shift
  <2> QED
    BY <1>1, <2>1, <2>5, <2>6, <2>7
<1> QED
  BY <1>3, <1>4

-----------------------------------------------------------------------------
(* Work.                                                                   *)

LEMMA WorkWords ==
  ASSUME NEW w \in Work
  PROVE  /\ w[1] \in Words /\ w[2] \in Words /\ w[3] \in Words /\ w[4] \in Words
         /\ w[1] \in Int /\ w[2] \in Int /\ w[3] \in Int /\ w[4] \in Int
<1>1. w[1] \in Words /\ w[2] \in Words /\ w[3] \in Words /\ w[4] \in Words
  BY DEF Work
<1> QED
  BY <1>1, WordsAreInts

LEMMA WorkTuple ==
  ASSUME NEW a \in Words, NEW b \in Words, NEW c \in Words, NEW d \in Words
  PROVE  <<a, b, c, d>> \in Work
  BY DEF Work

\* The words of a Work are added to what is above them, shifted.
LEMMA WorkHorner ==
  ASSUME NEW w
  PROVE  WorkNum(w) = Shift(Shift(Shift(w[1]) + w[2]) + w[3]) + w[4]
  BY DEF WorkNum, Shift

LEMMA HornerType ==
  ASSUME NEW a \in Int, NEW b \in Int
  PROVE  Shift(a) + b \in Int
  BY ShiftType

\* The sum of two numbers, given that of what is above their lowest words.
LEMMA SumStep ==
  ASSUME NEW a \in Int, NEW x \in Int, NEW b \in Int, NEW y \in Int, NEW c \in Int,
         NEW k \in Int, NEW z \in Int, NEW n \in Int,
         x + y + c = Shift(k) + z, a + b + k = n
  PROVE  (Shift(a) + x) + (Shift(b) + y) + c = Shift(n) + z
<1>1. a + b \in Int
  OBVIOUS
<1>2. Shift((a + b) + k) = Shift(a + b) + Shift(k)
  BY <1>1, ShiftAdds
<1>3. Shift(a + b) = Shift(a) + Shift(b)
  BY ShiftAdds
<1>4. Shift(a) \in Int /\ Shift(b) \in Int /\ Shift(k) \in Int
  BY ShiftType
<1>5. Shift(n) = Shift(a) + Shift(b) + Shift(k)
  BY <1>2, <1>3
<1>6. \A s, t \in Int : (s + x) + (t + y) + c = (s + t) + (x + y + c)
  OBVIOUS
<1>7. (Shift(a) + x) + (Shift(b) + y) + c = (Shift(a) + Shift(b)) + (Shift(k) + z)
  BY <1>4, <1>6
<1> QED
  BY <1>4, <1>5, <1>7

LEMMA ZeroWord ==
  0 \in Words /\ \A n \in Int : 0 + n = n
  BY WordAssumption DEF Words

\* One word of a product: the carry out of it is a word again (the loop body of
\* Work.mul64).
LEMMA MulStepExact ==
  ASSUME NEW x \in Words, NEW y \in Words, NEW k \in Words
  PROVE  /\ MulStep(x, y, k).prod \in Words /\ MulStep(x, y, k).carry \in Words
         /\ x * y + k = Shift(MulStep(x, y, k).carry) + MulStep(x, y, k).prod
<1> DEFINE p == Mul64(x, y)
           s == Add64(p.lo, k, 0)
<1>1. /\ p.hi \in Words /\ p.hi + 1 \in Words /\ p.lo \in Words
      /\ x * y = Shift(p.hi) + p.lo
  BY Mul64Exact
<1>2. s.sum \in Words /\ s.carry \in Bits /\ p.lo + k + 0 = Shift(s.carry) + s.sum
  BY <1>1, Add64Exact, WordsAreInts
<1>3. MulStep(x, y, k) = [prod |-> s.sum, carry |-> p.hi + s.carry]
  BY DEF MulStep
<1> HIDE DEF p, s
<1>4. /\ p.hi \in Int /\ p.lo \in Int /\ k \in Int /\ s.sum \in Int /\ s.carry \in Int
  BY <1>1, <1>2, WordsAreInts
<1>5. p.hi + s.carry \in Words
  BY <1>1, <1>2, <1>4 DEF Bits, Words
<1>6. Shift(p.hi + s.carry) = Shift(p.hi) + Shift(s.carry)
  BY <1>4, ShiftAdds
<1>7. Shift(p.hi) \in Int /\ Shift(s.carry) \in Int
  BY <1>4, ShiftType
<1>8. p.lo + k = Shift(s.carry) + s.sum
  BY <1>2, <1>4
<1>9. (Shift(p.hi) + p.lo) + k = Shift(p.hi + s.carry) + s.sum
  BY <1>4, <1>6, <1>7, <1>8
<1> QED
  BY <1>1, <1>2, <1>3, <1>5, <1>9

\* The product of a number, given that of what is above its lowest word.
LEMMA ProductStep ==
  ASSUME NEW a \in Int, NEW y \in Int, NEW x \in Int, NEW c \in Int,
         NEW k \in Int, NEW z \in Int, NEW n \in Int,
         y * x + c = Shift(k) + z, a * x + k = n
  PROVE  (Shift(a) + y) * x + c = Shift(n) + z
<1>1. a * x \in Int /\ y * x \in Int /\ Word \in Int
  BY WordsAreInts
<1>2. Shift(a) * x = Shift(a * x) /\ (Shift(a) + y) * x = Shift(a) * x + y * x
  BY <1>1 DEF Shift
<1>3. Shift(n) = Shift(a * x) + Shift(k)
  BY <1>1, ShiftAdds
<1>4. Shift(a * x) \in Int /\ Shift(k) \in Int
  BY <1>1, ShiftType
<1>5. \A s, t \in Int : (s + t) + c = s + (t + c)
  OBVIOUS
<1>6. (Shift(a) + y) * x + c = Shift(a * x) + (Shift(k) + z)
  BY <1>1, <1>2, <1>4, <1>5
<1> QED
  BY <1>3, <1>4, <1>6

\* The sum of two Works is exact but for a multiple of 2^256 (Work.Add): the
\* callers add the difficulty to the work of the chain.
THEOREM WorkAddExact ==
  ASSUME NEW w \in Work, NEW v \in Work
  PROVE  /\ WorkAdd(w, v) \in Work
         /\ \E k \in Bits : WorkNum(w) + WorkNum(v)
              = Shift(Shift(Shift(Shift(k) + WorkAdd(w, v)[1]) + WorkAdd(w, v)[2])
                        + WorkAdd(w, v)[3]) + WorkAdd(w, v)[4]
<1> DEFINE d == Add64(w[4], v[4], 0)
           c == Add64(w[3], v[3], d.carry)
           b == Add64(w[2], v[2], c.carry)
           a == Add64(w[1], v[1], b.carry)
<1>1. WorkAdd(w, v) = <<a.sum, b.sum, c.sum, d.sum>>
  BY DEF WorkAdd
<1>2. /\ d.sum \in Words /\ d.carry \in Bits
      /\ w[4] + v[4] + 0 = Shift(d.carry) + d.sum
  BY WorkWords, WordsAreInts, Add64Exact
<1> HIDE DEF d
<1>3. /\ c.sum \in Words /\ c.carry \in Bits
      /\ w[3] + v[3] + d.carry = Shift(c.carry) + c.sum
  BY <1>2, WorkWords, Add64Exact
<1> HIDE DEF c
<1>4. /\ b.sum \in Words /\ b.carry \in Bits
      /\ w[2] + v[2] + c.carry = Shift(b.carry) + b.sum
  BY <1>3, WorkWords, Add64Exact
<1> HIDE DEF b
<1>5. /\ a.sum \in Words /\ a.carry \in Bits
      /\ w[1] + v[1] + b.carry = Shift(a.carry) + a.sum
  BY <1>4, WorkWords, Add64Exact
<1> HIDE DEF a
<1>6. /\ a.sum \in Int /\ b.sum \in Int /\ c.sum \in Int /\ d.sum \in Int
      /\ a.carry \in Int /\ b.carry \in Int /\ c.carry \in Int /\ d.carry \in Int
  BY <1>2, <1>3, <1>4, <1>5, WordsAreInts
<1> DEFINE n1 == Shift(a.carry) + a.sum
           n2 == Shift(n1) + b.sum
           n3 == Shift(n2) + c.sum
           w2 == Shift(w[1]) + w[2]
           v2 == Shift(v[1]) + v[2]
           w3 == Shift(w2) + w[3]
           v3 == Shift(v2) + v[3]
<1>7. w[1] \in Int /\ v[1] \in Int /\ n1 \in Int
  BY <1>6, HornerType, WorkWords
<1> HIDE DEF n1
<1>8. w2 \in Int /\ v2 \in Int /\ n2 \in Int
  BY <1>6, <1>7, HornerType, WorkWords
<1>9. w2 + v2 + c.carry = n2
  BY <1>4, <1>5, <1>6, <1>7, WorkWords, SumStep DEF n1
<1> HIDE DEF n2, w2, v2
<1>10. w3 \in Int /\ v3 \in Int /\ n3 \in Int
  BY <1>6, <1>8, HornerType, WorkWords
<1>11. w3 + v3 + d.carry = n3
  BY <1>3, <1>6, <1>8, <1>9, WorkWords, SumStep
<1> HIDE DEF n3, w3, v3
<1>12. (Shift(w3) + w[4]) + (Shift(v3) + v[4]) + 0 = Shift(n3) + d.sum
  BY <1>2, <1>6, <1>10, <1>11, WorkWords, SumStep
<1>13. Shift(w3) + w[4] \in Int /\ Shift(v3) + v[4] \in Int
  BY <1>10, HornerType, WorkWords
<1>14. WorkNum(w) = Shift(w3) + w[4] /\ WorkNum(v) = Shift(v3) + v[4]
  BY WorkHorner DEF w2, v2, w3, v3
<1>15. WorkNum(w) + WorkNum(v) = Shift(n3) + d.sum
  BY <1>12, <1>13, <1>14
<1>16. WorkAdd(w, v) \in Work
  BY <1>1, <1>2, <1>3, <1>4, <1>5, WorkTuple
<1>17. /\ WorkAdd(w, v)[1] = a.sum /\ WorkAdd(w, v)[2] = b.sum
       /\ WorkAdd(w, v)[3] = c.sum /\ WorkAdd(w, v)[4] = d.sum
  BY <1>1
<1> QED
  BY <1>5, <1>15, <1>16, <1>17 DEF n1, n2, n3

\* A product with a word is exact but for a multiple of 2^256 (Work.mul64): the
\* difficulty is multiplied by the time that the interval should take.
THEOREM WorkMulExact ==
  ASSUME NEW w \in Work, NEW x \in Words
  PROVE  /\ WorkMul64(w, x) \in Work
         /\ \E k \in Words : WorkNum(w) * x
              = Shift(Shift(Shift(Shift(k) + WorkMul64(w, x)[1]) + WorkMul64(w, x)[2])
                        + WorkMul64(w, x)[3]) + WorkMul64(w, x)[4]
<1> DEFINE d == MulStep(w[4], x, 0)
           c == MulStep(w[3], x, d.carry)
           b == MulStep(w[2], x, c.carry)
           a == MulStep(w[1], x, b.carry)
<1>1. WorkMul64(w, x) = <<a.prod, b.prod, c.prod, d.prod>>
  BY DEF WorkMul64
<1>2. /\ d.prod \in Words /\ d.carry \in Words
      /\ w[4] * x + 0 = Shift(d.carry) + d.prod
  BY WorkWords, ZeroWord, MulStepExact
<1> HIDE DEF d
<1>3. /\ c.prod \in Words /\ c.carry \in Words
      /\ w[3] * x + d.carry = Shift(c.carry) + c.prod
  BY <1>2, WorkWords, MulStepExact
<1> HIDE DEF c
<1>4. /\ b.prod \in Words /\ b.carry \in Words
      /\ w[2] * x + c.carry = Shift(b.carry) + b.prod
  BY <1>3, WorkWords, MulStepExact
<1> HIDE DEF b
<1>5. /\ a.prod \in Words /\ a.carry \in Words
      /\ w[1] * x + b.carry = Shift(a.carry) + a.prod
  BY <1>4, WorkWords, MulStepExact
<1> HIDE DEF a
<1>6. /\ a.prod \in Int /\ b.prod \in Int /\ c.prod \in Int /\ d.prod \in Int
      /\ a.carry \in Int /\ b.carry \in Int /\ c.carry \in Int /\ d.carry \in Int
      /\ x \in Int /\ 0 \in Int
  BY <1>2, <1>3, <1>4, <1>5, WordsAreInts
<1> DEFINE n1 == Shift(a.carry) + a.prod
           n2 == Shift(n1) + b.prod
           n3 == Shift(n2) + c.prod
           w2 == Shift(w[1]) + w[2]
           w3 == Shift(w2) + w[3]
<1>7. w[1] \in Int /\ n1 \in Int
  BY <1>6, HornerType, WorkWords
<1> HIDE DEF n1
<1>8. w2 \in Int /\ n2 \in Int
  BY <1>6, <1>7, HornerType, WorkWords
<1>9. w2 * x + c.carry = n2
  BY <1>4, <1>5, <1>6, <1>7, WorkWords, ProductStep DEF n1
<1> HIDE DEF n2, w2
<1>10. w3 \in Int /\ n3 \in Int
  BY <1>6, <1>8, HornerType, WorkWords
<1>11. w3 * x + d.carry = n3
  BY <1>3, <1>6, <1>8, <1>9, WorkWords, ProductStep
<1> HIDE DEF n3, w3
<1>12. (Shift(w3) + w[4]) * x + 0 = Shift(n3) + d.prod
  BY <1>2, <1>6, <1>10, <1>11, WorkWords, ProductStep
<1>13. (Shift(w3) + w[4]) * x \in Int
  <2>1. Shift(w3) + w[4] \in Int
    BY <1>10, HornerType, WorkWords
  <2> QED
    BY <2>1, <1>6
<1>14. WorkNum(w) = Shift(w3) + w[4]
  BY WorkHorner DEF w2, w3
<1>15. WorkNum(w) * x = Shift(n3) + d.prod
  BY <1>12, <1>13, <1>14
<1>16. WorkMul64(w, x) \in Work
  BY <1>1, <1>2, <1>3, <1>4, <1>5, WorkTuple
<1>17. /\ WorkMul64(w, x)[1] = a.prod /\ WorkMul64(w, x)[2] = b.prod
       /\ WorkMul64(w, x)[3] = c.prod /\ WorkMul64(w, x)[4] = d.prod
  BY <1>1
<1> QED
  BY <1>5, <1>15, <1>16, <1>17 DEF n1, n2, n3

\* A quotient by a word is rounded down (Work.div64).
THEOREM WorkDivExact ==
  ASSUME NEW w \in Work, NEW x \in Words, x # 0
  PROVE  /\ WorkDiv64(w, x) \in Work
         /\ \E r \in Words : r < x /\ WorkNum(w) = WorkNum(WorkDiv64(w, x)) * x + r
<1> DEFINE a == Div64(0, w[1], x)
           b == Div64(a.rem, w[2], x)
           c == Div64(b.rem, w[3], x)
           d == Div64(c.rem, w[4], x)
<1>1. WorkDiv64(w, x) = <<a.quo, b.quo, c.quo, d.quo>>
  BY DEF WorkDiv64
<1>2. 0 \in Words /\ 0 < x /\ x \in Int
  BY ZeroWord DEF Words
<1>3. /\ a.quo \in Words /\ a.rem \in Words /\ a.rem < x
      /\ Shift(0) + w[1] = a.quo * x + a.rem
  BY <1>2, WorkWords, Div64Exact
<1>4. w[1] = a.quo * x + a.rem
  BY <1>3, ShiftBits, WorkWords, ZeroWord
<1> HIDE DEF a
<1> DEFINE w2 == Shift(w[1]) + w[2]
           q2 == Shift(a.quo) + b.quo
<1>5. /\ b.quo \in Words /\ b.rem \in Words /\ b.rem < x
      /\ w2 = q2 * x + b.rem
  BY <1>3, <1>4, WorkWords, WordsAreInts, LongDivision, SMTT(30)
<1> HIDE DEF b
<1>6. w2 \in Int /\ q2 \in Int
  BY <1>3, <1>5, HornerType, WorkWords, WordsAreInts
<1> HIDE DEF w2, q2
<1> DEFINE w3 == Shift(w2) + w[3]
           q3 == Shift(q2) + c.quo
<1>7. /\ c.quo \in Words /\ c.rem \in Words /\ c.rem < x
      /\ w3 = q3 * x + c.rem
  BY <1>5, <1>6, WorkWords, LongDivision
<1> HIDE DEF c
<1>8. w3 \in Int /\ q3 \in Int
  BY <1>6, <1>7, HornerType, WorkWords, WordsAreInts
<1> HIDE DEF w3, q3
<1>9. /\ d.quo \in Words /\ d.rem \in Words /\ d.rem < x
      /\ Shift(w3) + w[4] = (Shift(q3) + d.quo) * x + d.rem
  BY <1>7, <1>8, WorkWords, LongDivision
<1> HIDE DEF d
<1>10. WorkDiv64(w, x) \in Work
  BY <1>1, <1>3, <1>5, <1>7, <1>9, WorkTuple
<1>11. /\ WorkDiv64(w, x)[1] = a.quo /\ WorkDiv64(w, x)[2] = b.quo
       /\ WorkDiv64(w, x)[3] = c.quo /\ WorkDiv64(w, x)[4] = d.quo
  BY <1>1
<1>12. WorkNum(w) = Shift(w3) + w[4]
  BY WorkHorner DEF w2, w3
<1>13. WorkNum(WorkDiv64(w, x)) = Shift(q3) + d.quo
  BY <1>11, WorkHorner DEF q2, q3
<1> QED
  BY <1>9, <1>10, <1>12, <1>13

-----------------------------------------------------------------------------
(* Targets.                                                                *)

LEMMA HornerOrder ==
  ASSUME NEW a \in Int, NEW b \in Int, NEW x \in Words, NEW y \in Words
  PROVE  /\ Shift(a) + x < Shift(b) + y <=> a < b \/ (a = b /\ x < y)
         /\ Shift(a) + x = Shift(b) + y <=> a = b /\ x = y
<1>1. /\ x \in Nat /\ y \in Nat /\ x < Word /\ y < Word /\ Word \in Nat
      /\ Shift(a) \in Int /\ Shift(b) \in Int
  BY WordAssumption, ShiftType DEF Words
<1>2. /\ a < b => Shift(a) + Word <= Shift(b)
      /\ b < a => Shift(b) + Word <= Shift(a)
  BY ShiftMonotone
<1>3. a < b \/ a = b \/ b < a
  OBVIOUS
<1> QED
  BY <1>1, <1>2, <1>3

\* The big-endian bytes are compared as the numbers are (Work.Cmp).
THEOREM WorkLessIsOrder ==
  ASSUME NEW w \in Work, NEW v \in Work
  PROVE  WorkLess(w, v) <=> WorkNum(w) < WorkNum(v)
<1> DEFINE w2 == Shift(w[1]) + w[2]
           v2 == Shift(v[1]) + v[2]
           w3 == Shift(w2) + w[3]
           v3 == Shift(v2) + v[3]
<1>1. /\ w2 < v2 <=> w[1] < v[1] \/ (w[1] = v[1] /\ w[2] < v[2])
      /\ w2 = v2 <=> w[1] = v[1] /\ w[2] = v[2]
  BY WorkWords, HornerOrder
<1>2. w2 \in Int /\ v2 \in Int
  BY HornerType, WorkWords
<1> HIDE DEF w2, v2
<1>3. /\ w3 < v3 <=> w2 < v2 \/ (w2 = v2 /\ w[3] < v[3])
      /\ w3 = v3 <=> w2 = v2 /\ w[3] = v[3]
  BY <1>2, WorkWords, HornerOrder
<1>4. w3 \in Int /\ v3 \in Int
  BY <1>2, HornerType, WorkWords
<1> HIDE DEF w3, v3
<1>5. Shift(w3) + w[4] < Shift(v3) + v[4] <=> w3 < v3 \/ (w3 = v3 /\ w[4] < v[4])
  BY <1>4, WorkWords, HornerOrder
<1>6. WorkNum(w) = Shift(w3) + w[4] /\ WorkNum(v) = Shift(v3) + v[4]
  BY WorkHorner DEF w2, v2, w3, v3
<1>7. WorkLess(w, v) <=>
        \/ w[1] < v[1]
        \/ w[1] = v[1] /\ w[2] < v[2]
        \/ w[1] = v[1] /\ w[2] = v[2] /\ w[3] < v[3]
        \/ w[1] = v[1] /\ w[2] = v[2] /\ w[3] = v[3] /\ w[4] < v[4]
  BY DEF WorkLess
<1> QED
  BY <1>1, <1>3, <1>5, <1>6, <1>7

\* One word less in a number.
LEMMA UpperPart ==
  ASSUME NEW n \in Nat
  PROVE  /\ n \div Word \in Nat /\ n % Word \in Words
         /\ n = Shift(n \div Word) + (n % Word)
         /\ \A m \in Nat : n < Shift(m) => n \div Word < m
<1>1. Word \in Nat \ {0}
  BY WordAssumption
<1>2. /\ n \div Word \in Nat /\ n % Word \in Nat /\ n % Word < Word
      /\ n = Shift(n \div Word) + (n % Word)
  BY <1>1, DivMod DEF Shift
<1>3. n % Word \in Words
  BY <1>1, <1>2 DEF Words
<1>4. ASSUME NEW m \in Nat, n < Shift(m), ~(n \div Word < m)
      PROVE  FALSE
  <2> DEFINE q == n \div Word
             r == n % Word
  <2>1. q \in Nat /\ r \in Nat /\ n = Shift(q) + r
    BY <1>2
  <2>2. ~(q < m)
    BY <1>4
  <2> HIDE DEF q, r
  <2>3. m = q \/ m < q
    BY <2>1, <2>2
  <2>4. m < q => Shift(m) + Word <= Shift(q)
    BY <2>1, ShiftMonotone
  <2>5. Shift(m) \in Int /\ Shift(q) \in Int
    BY <2>1, ShiftType
  <2> QED
    BY <1>1, <1>4, <2>1, <2>3, <2>4, <2>5
<1> QED
  BY <1>2, <1>3, <1>4

\* A number that fits is the one that its four words stand for.
LEMMA WorkOfNum ==
  ASSUME NEW n \in Nat, n < MaxTarget
  PROVE  WorkOf(n) \in Work /\ WorkNum(WorkOf(n)) = n
<1> DEFINE c == n \div Word
           b == c \div Word
           a == b \div Word
           n4 == n % Word
           c4 == c % Word
           b4 == b % Word
<1>1. WorkOf(n) = <<a, b4, c4, n4>>
  BY DEF WorkOf
<1>2. /\ Word \in Nat /\ Word * Word \in Nat /\ Word * Word * Word \in Nat
      /\ MaxTarget = Shift(Word * Word * Word)
      /\ Word * Word * Word = Shift(Word * Word) /\ Word * Word = Shift(Word)
  BY WordAssumption DEF MaxTarget, Shift
<1>3. /\ c \in Nat /\ n4 \in Words /\ n = Shift(c) + n4 /\ c < Shift(Word * Word)
  BY <1>2, UpperPart
<1> HIDE DEF c, n4
<1>4. /\ b \in Nat /\ c4 \in Words /\ c = Shift(b) + c4 /\ b < Shift(Word)
  BY <1>2, <1>3, UpperPart
<1> HIDE DEF b, c4
<1>5. /\ a \in Nat /\ b4 \in Words /\ b = Shift(a) + b4 /\ a < Word
  BY <1>2, <1>4, UpperPart
<1> HIDE DEF a, b4
<1>6. a \in Words
  BY <1>2, <1>5 DEF Words
<1>7. WorkNum(<<a, b4, c4, n4>>) = Shift(Shift(Shift(a) + b4) + c4) + n4
  BY WorkHorner
<1> QED
  BY <1>1, <1>3, <1>4, <1>5, <1>6, <1>7, WorkTuple

LEMMA WorkBounded ==
  ASSUME NEW w \in Work
  PROVE  WorkNum(w) \in Nat /\ WorkNum(w) <= MaxTarget - 1
<1>1. \A m \in Nat, n \in Nat, x \in Words :
        n <= m - 1 => Shift(n) + x \in Nat /\ Shift(n) + x <= Shift(m) - 1
  <2> SUFFICES ASSUME NEW m \in Nat, NEW n \in Nat, NEW x \in Words, n <= m - 1
               PROVE  Shift(n) + x \in Nat /\ Shift(n) + x <= Shift(m) - 1
    OBVIOUS
  <2>1. x \in Nat /\ x <= Word - 1 /\ Word \in Nat
    BY WordAssumption DEF Words
  <2>2. Shift(n) + Word <= Shift(m)
    BY ShiftMonotone
  <2>3. Shift(n) \in Nat /\ Shift(m) \in Int
    BY <2>1 DEF Shift
  <2> QED
    BY <2>1, <2>2, <2>3
<1>2. /\ Word \in Nat /\ Word * Word \in Nat /\ Word * Word * Word \in Nat
      /\ MaxTarget = Shift(Word * Word * Word)
      /\ Word * Word * Word = Shift(Word * Word) /\ Word * Word = Shift(Word)
  BY WordAssumption DEF MaxTarget, Shift
<1>3. w[1] \in Nat /\ w[1] <= Word - 1
  BY WorkWords, WordAssumption DEF Words
<1> DEFINE w2 == Shift(w[1]) + w[2]
           w3 == Shift(w2) + w[3]
<1>4. w2 \in Nat /\ w2 <= Word * Word - 1
  BY <1>1, <1>2, <1>3, WorkWords
<1> HIDE DEF w2
<1>5. w3 \in Nat /\ w3 <= Word * Word * Word - 1
  BY <1>1, <1>2, <1>4, WorkWords
<1> HIDE DEF w3
<1>6. Shift(w3) + w[4] \in Nat /\ Shift(w3) + w[4] <= MaxTarget - 1
  BY <1>1, <1>2, <1>5, WorkWords
<1> QED
  BY <1>6, WorkHorner DEF w2, w3

\* One factor is at most a quotient exactly if the product is at most the number.
LEMMA QuotientBound ==
  ASSUME NEW n \in Nat, NEW x \in Nat \ {0}, NEW y \in Nat
  PROVE  y <= n \div x <=> x * y <= n
<1> DEFINE q == n \div x
           r == n % x
<1>1. q \in Nat /\ r \in Nat /\ r < x /\ n = x * q + r
  BY DivMod
<1> HIDE DEF q, r
<1>2. y <= q => x * y <= x * q
  BY <1>1, ProductMonotone
<1>3. q + 1 <= y => x * (q + 1) <= x * y
  BY <1>1, ProductMonotone
<1>4. x * (q + 1) = x * q + x
  BY <1>1
<1>5. x * q \in Nat /\ x * y \in Nat
  BY <1>1
<1>6. y <= q \/ q + 1 <= y
  BY <1>1
<1> QED
  BY <1>1, <1>2, <1>3, <1>4, <1>5, <1>6 DEF q

\* What a miner looks for is what validateHeader accepts: a hash meets the target
\* of a difficulty exactly if the work that it stands for is not less
\* (sunyata.go:48-50, 323-376, validation.go:38).
THEOREM TargetIsDifficulty ==
  ASSUME NEW w \in Work, WorkNum(w) # 0, NEW id \in BlockIDs, id # 0
  PROVE  MeetsTarget(id, HashRequiringWork(w)) <=> ~WorkLess(WorkRequiredForHash(id), w)
<1> DEFINE d == WorkNum(w)
           r == IF id = 1 THEN MaxTarget - 1 ELSE MaxTarget \div id
<1>1. MaxTarget \in Nat /\ MaxTarget > 1
  <2>1. Word * Word \in Nat /\ Word * Word > 1
    BY WordAssumption
  <2>2. \A n \in Nat : n > 1 => n * Word \in Nat /\ n * Word > 1
    BY WordAssumption
  <2> QED
    BY <2>1, <2>2 DEF MaxTarget
<1>2. id \in Nat \ {0} /\ id <= MaxTarget - 1
  BY <1>1 DEF BlockIDs
<1>3. d \in Nat /\ d <= MaxTarget - 1
  BY WorkBounded
<1>4. d # 0
  OBVIOUS
<1> HIDE DEF d
<1>5. r \in Nat /\ r < MaxTarget
  <2>1. CASE id = 1
    BY <2>1, <1>1
  <2>2. CASE id # 1
    <3>1. MaxTarget \div id \in Nat
      BY <1>1, <1>2, DivMod
    <3>2. 2 * MaxTarget <= id * MaxTarget
      BY <2>2, <1>1, <1>2
    <3>3. ~(id * MaxTarget <= MaxTarget)
      BY <3>2, <1>1, <1>2
    <3>4. ~(MaxTarget <= MaxTarget \div id)
      BY <3>3, <1>1, <1>2, QuotientBound
    <3> QED
      BY <2>2, <3>1, <3>4, <1>1
  <2> QED
    BY <2>1, <2>2
<1>6. WorkRequiredForHash(id) = WorkOf(r)
  BY DEF WorkRequiredForHash
<1> HIDE DEF r
<1>7. WorkRequiredForHash(id) \in Work /\ WorkNum(WorkRequiredForHash(id)) = r
  BY <1>5, <1>6, WorkOfNum
<1>8. ~WorkLess(WorkRequiredForHash(id), w) <=> d <= r
  BY <1>3, <1>5, <1>7, WorkLessIsOrder DEF d
<1>9. MeetsTarget(id, HashRequiringWork(w)) <=>
        id <= (IF d = 1 THEN MaxTarget - 1 ELSE MaxTarget \div d)
  BY DEF MeetsTarget, HashRequiringWork, d
<1>10. CASE d = 1
  <2>1. 1 <= r
    <3>1. id # 1 => 1 <= MaxTarget \div id
      BY <1>1, <1>2, QuotientBound
    <3> QED
      BY <3>1, <1>1 DEF r
  <2> QED
    BY <2>1, <1>2, <1>8, <1>9, <1>10
<1>11. CASE d # 1 /\ id = 1
  <2>1. r = MaxTarget - 1
    BY <1>11 DEF r
  <2>2. 1 <= MaxTarget \div d
    BY <1>1, <1>3, <1>4, QuotientBound
  <2> QED
    BY <2>1, <2>2, <1>3, <1>8, <1>9, <1>11
<1>12. CASE d # 1 /\ id # 1
  <2>1. r = MaxTarget \div id
    BY <1>12 DEF r
  <2>2. id <= MaxTarget \div d <=> d * id <= MaxTarget
    BY <1>1, <1>2, <1>3, <1>4, QuotientBound
  <2>3. d <= MaxTarget \div id <=> id * d <= MaxTarget
    BY <1>1, <1>2, <1>3, QuotientBound
  <2>4. d * id = id * d
    BY <1>2, <1>3
  <2> QED
    BY <2>1, <2>2, <2>3, <2>4, <1>8, <1>9, <1>12
<1> QED
  BY <1>10, <1>11, <1>12
=============================================================================
