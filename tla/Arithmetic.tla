----------------------------- MODULE Arithmetic -----------------------------
(***************************************************************************)
(* The numbers of the chain: Currency (currency.go), 128 bits in two words,*)
(* and Work (sunyata.go), 256 bits in four.  The width of a word is a      *)
(* parameter; it is 2^64 in the code.  A sum or difference is given with   *)
(* the carry or borrow that the callers look at: where it is not zero,     *)
(* Add, Sub and Mul64 of Currency panic, and those of Work wrap.           *)
(***************************************************************************)
EXTENDS Integers

CONSTANT Word \* 2^64

ASSUME WordAssumption == Word \in Nat /\ Word > 1

Words == 0 .. (Word - 1)
Bits  == {0, 1}

-----------------------------------------------------------------------------
(* The operations of math/bits on words.                                   *)

Add64(x, y, c) ==
  IF x + y + c < Word THEN [sum |-> x + y + c, carry |-> 0]
                      ELSE [sum |-> x + y + c - Word, carry |-> 1]

Sub64(x, y, b) ==
  IF x - y - b >= 0 THEN [diff |-> x - y - b, borrow |-> 0]
                    ELSE [diff |-> x - y - b + Word, borrow |-> 1]

Mul64(x, y) == [hi |-> (x * y) \div Word, lo |-> (x * y) % Word]

\* It panics unless hi < y.
Div64(hi, lo, y) == [quo |-> (hi * Word + lo) \div y, rem |-> (hi * Word + lo) % y]

-----------------------------------------------------------------------------
(* Currency.                                                               *)

Currency == [lo : Words, hi : Words]
ZeroCurrency == [lo |-> 0, hi |-> 0]

\* What a Currency stands for, and the Currency that stands for n.
Num(c) == c.hi * Word + c.lo
CurrencyOf(n) == [lo |-> n % Word, hi |-> n \div Word]

\* (mutated: the carry of the low words is lost)
AddWithOverflow_NoCarry(c, v) ==
  LET l == Add64(c.lo, v.lo, 0)
      h == Add64(c.hi, v.hi, 0)
  IN  [val |-> [lo |-> l.sum, hi |-> h.sum], overflow |-> h.carry # 0]

AddWithOverflow(c, v) ==
  LET l == Add64(c.lo, v.lo, 0)
      h == Add64(c.hi, v.hi, l.carry)
  IN  [val |-> [lo |-> l.sum, hi |-> h.sum], overflow |-> h.carry # 0]

SubWithUnderflow(c, v) ==
  LET l == Sub64(c.lo, v.lo, 0)
      h == Sub64(c.hi, v.hi, l.borrow)
  IN  [val |-> [lo |-> l.diff, hi |-> h.diff], underflow |-> h.borrow # 0]

\* -1, 0 or 1.
Cmp(c, v) ==
  IF c = v THEN 0
  ELSE IF c.hi < v.hi \/ (c.hi = v.hi /\ c.lo < v.lo) THEN -1
  ELSE 1

\* c * x for a word x.
Times(c, x) ==
  LET p == Mul64(c.lo, x)
      q == Mul64(c.hi, x)
      h == Add64(p.hi, q.lo, 0)
  IN  [val |-> [lo |-> p.lo, hi |-> h.sum], overflow |-> q.hi # 0 \/ h.carry # 0]

\* c / x and c % x for a word x # 0.
quoRem64(c, x) ==
  IF c.hi < x
  THEN LET d == Div64(c.hi, c.lo, x)
       IN  [quo |-> [lo |-> d.quo, hi |-> 0], rem |-> d.rem]
  ELSE LET h == Div64(0, c.hi, x)
           l == Div64(h.rem, c.lo, x)
       IN  [quo |-> [lo |-> l.quo, hi |-> h.quo], rem |-> l.rem]

-----------------------------------------------------------------------------
(* Work: the most significant word first.                                  *)

Work == [1 .. 4 -> Words]

WorkNum(w) == ((w[1] * Word + w[2]) * Word + w[3]) * Word + w[4]

WorkOf(n) ==
  LET c == n \div Word
      b == c \div Word
      a == b \div Word
  IN  <<a, b % Word, c % Word, n % Word>>

WorkAdd(w, v) ==
  LET d == Add64(w[4], v[4], 0)
      c == Add64(w[3], v[3], d.carry)
      b == Add64(w[2], v[2], c.carry)
      a == Add64(w[1], v[1], b.carry)
  IN  <<a.sum, b.sum, c.sum, d.sum>>

WorkSub(w, v) ==
  LET d == Sub64(w[4], v[4], 0)
      c == Sub64(w[3], v[3], d.borrow)
      b == Sub64(w[2], v[2], c.borrow)
      a == Sub64(w[1], v[1], b.borrow)
  IN  <<a.diff, b.diff, c.diff, d.diff>>

\* (mutated: the carry of the addition is forgotten)
MulStep_CarryLost(x, y, carry) ==
  LET p == Mul64(x, y)
      s == Add64(p.lo, carry, 0)
  IN  [prod |-> s.sum, carry |-> p.hi]

\* One word of a product, with what the lower words carry into it, and carries
\* on to the next.
MulStep(x, y, carry) ==
  LET p == Mul64(x, y)
      s == Add64(p.lo, carry, 0)
  IN  [prod |-> s.sum, carry |-> p.hi + s.carry]

WorkMul64(w, x) ==
  LET d == MulStep(w[4], x, 0)
      c == MulStep(w[3], x, d.carry)
      b == MulStep(w[2], x, c.carry)
      a == MulStep(w[1], x, b.carry)
  IN  <<a.prod, b.prod, c.prod, d.prod>>

WorkDiv64(w, x) ==
  LET a == Div64(0, w[1], x)
      b == Div64(a.rem, w[2], x)
      c == Div64(b.rem, w[3], x)
      d == Div64(c.rem, w[4], x)
  IN  <<a.quo, b.quo, c.quo, d.quo>>

\* bytes.Compare of the big-endian bytes.
WorkLess(w, v) ==
  \E i \in 1 .. 4 : w[i] < v[i] /\ \A j \in 1 .. (i - 1) : w[j] = v[j]
-----------------------------------------------------------------------------
(* Hashes and the work that they stand for.  A BlockID is a number of the  *)
(* width of Work; the smaller, the better.                                 *)

MaxTarget == Word * Word * Word * Word
BlockIDs  == 0 .. (MaxTarget - 1)

\* MeetsTarget: a miner looks for a hash not greater than its target.
MeetsTarget(id, target) == id <= target

\* It panics for the hash 0.  The hash 1 would require one more than fits.
WorkRequiredForHash(id) == WorkOf(IF id = 1 THEN MaxTarget - 1 ELSE MaxTarget \div id)

\* (mutated: the target is rounded up)
HashRequiringWork_RoundedUp(w) == IF WorkNum(w) = 1 THEN MaxTarget - 1 ELSE MaxTarget \div WorkNum(w) + 1

\* It panics for no work.  One hash is worth any hash, the greatest included.
HashRequiringWork(w) == IF WorkNum(w) = 1 THEN MaxTarget - 1 ELSE MaxTarget \div WorkNum(w)
=============================================================================
