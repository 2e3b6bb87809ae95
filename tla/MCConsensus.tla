---------------------------- MODULE MCConsensus ----------------------------
(***************************************************************************)
(* Properties of Consensus and the instance TLC checks: one network whose  *)
(* blocks move money, and one whose blocks move the clock.                 *)
(***************************************************************************)
EXTENDS Consensus, FiniteSets, FiniteSetsExt

\* A value of the width of Currency.
Value(n) == CurrencyOf(n % (Word * Word))
Spend(e, key) == [id |-> e.id, value |-> e.value, address |-> e.address,
                  maturity |-> e.maturity, leaf |-> e.leaf, key |-> key]

\* Inputs for the elements of the chain, spent ones included; and the last one
\* with more value than it has, or another's key.
Elements(st) == {l.element : l \in ToSet(st.leaves)}
Honest(st) == {Spend(e, e.address) : e \in Elements(st)}
Forged(st) ==
  LET e == Last(st.leaves).element
  IN  {Spend([e EXCEPT !.value = Value(Num(e.value) + 1)], e.address),
       Spend(e, 3 - e.address)}

\* Inputs for the outputs of a transaction of the same block.
Ephemerals(t) ==
  UNION {LET e == [id |-> OutputID(t, i - 1), value |-> t.outputs[i].value,
                   address |-> t.outputs[i].address, maturity |-> 0,
                   leaf |-> EphemeralLeafIndex]
         IN  {Spend(e, e.address), Spend([e EXCEPT !.value = Value(Num(@) + 1)], e.address)} :
           i \in DOMAIN t.outputs}

Pay(n, a) == [value |-> Value(n), address |-> a]

\* Transactions with the given inputs: all to one address, or in two parts, or
\* with a fee; and with too much, by one or by a carry, an output of nothing, or
\* a fee out of nothing.
Transactions(ins) ==
  LET total == FoldLeft(LAMBDA n, in : n + Num(in.value), 0, ins)
      t(outs, fee) == [inputs |-> ins, outputs |-> outs, fee |-> Value(fee)]
  IN  IF total = 0 THEN {t(<<>>, 0), t(<<Pay(0, 1)>>, 0), t(<<Pay(1, 1)>>, 0)}
      ELSE {t(<<Pay(total, 2)>>, 0), t(<<Pay(total - 1, 1)>>, 1), t(<<>>, total),
            t(<<Pay(total, 1)>>, 1), t(<<Pay(total + 1, 1)>>, 0),
            t(<<Pay(total + Word * Word - Word, 1)>>, 0)}
           \cup IF total > 1 THEN {t(<<Pay(total - 1, 1), Pay(1, 2)>>, 0),
                                   t(<<Pay(total, 1), Pay(0, 1)>>, 0)} ELSE {}

InputLists(st) ==
  {<<>>} \cup {<<in>> : in \in Honest(st) \cup Forged(st)}
  \cup {p \in Honest(st) \X Honest(st) : p[1].leaf <= p[2].leaf}

FirstTransactions(st) == UNION {Transactions(ins) : ins \in InputLists(st)}

\* A second one spends what the first does, or makes, or is the same again.
SecondTransactions(t) ==
  {t} \cup UNION {Transactions(<<in>>) : in \in ToSet(t.inputs) \cup Ephemerals(t)}

Transfers(st) ==
  LET first == {t \in FirstTransactions(st) : ValidateTransaction(st, t)}
  IN  {<<t>> : t \in FirstTransactions(st)}
      \cup UNION {{<<t, u>> : u \in SecondTransactions(t)} : t \in first}

\* The hash that just meets the target.
Target(st) == HashRequiringWork(st.difficulty)
Hashes(S) == {h \in S : h \in 1 .. (MaxTarget - 1)}

Blocks(n, c, st) ==
  IF st.height = n.height THEN {}
  ELSE {[txns |-> <<>>, time |-> st.times[NumTimestamps(st)] + d, hash |-> h] :
          d \in n.ticks, h \in Hashes({Target(st), Target(st) + 1})}
       \cup IF n.height - st.height > n.transfers THEN {}
            ELSE {[txns |-> txns, time |-> st.times[NumTimestamps(st)] + 1,
                   hash |-> Target(st)] : txns \in Transfers(st)}

Genesis(outs) == [txns |-> <<[inputs |-> <<>>, outputs |-> outs, fee |-> Value(0)]>>,
                  time |-> 10, hash |-> 1]

\* The sum of the values of the second output with itself does not fit.
Ledger == [genesis |-> Genesis(<<Pay(60, 1), Pay(600, 2)>>), difficulty |-> WorkOf(64),
           height |-> 3, transfers |-> 3, ticks |-> {1}]
Clock  == [genesis |-> Genesis(<<>>), difficulty |-> WorkOf(1215),
           height |-> 6, transfers |-> 0, ticks |-> {-2, 0, 2, 5, 30}]

MCNetworks == {Ledger, Clock}

-----------------------------------------------------------------------------
AllTxns == FlattenSeq(MapSeq(LAMBDA b : b.txns, chain))
Total(values) == FoldLeft(LAMBDA n, v : n + Num(v), 0, values)
RewardOf(h) == Reward \div 2 ^ (IF h = 0 THEN 1 \div HalvingInterval ELSE h \div HalvingInterval)

\* Every variable has its type (state.go:18-26).
TypeOK ==
  /\ net \in MCNetworks
  /\ Len(chain) = s.height + 1
  /\ s.work \in Work /\ s.difficulty \in Work
  /\ Len(s.times) = Window
  /\ \A i \in DOMAIN s.leaves : /\ s.leaves[i].element.leaf = i - 1
                                /\ s.leaves[i].element.value \in Currency

\* What is unspent is worth what the blocks have minted, less the fees, which
\* nobody gets: no transaction makes or loses money, be it in several blocks,
\* in one, or by overflow (validation.go:48-74, 86-101, createdInBlock).
SupplyAccounted ==
  LET unspent == SelectSeq(s.leaves, LAMBDA l : ~l.spent)
      minted  == FoldLeft(LAMBDA n, i : n + RewardOf(i - 1), 0, [i \in DOMAIN chain |-> i])
  IN  Total(MapSeq(LAMBDA l : l.element.value, unspent))
        + Total(MapSeq(LAMBDA t : t.fee, AllTxns))
      = minted + Total(MapSeq(LAMBDA o : o.value, chain[1].txns[1].outputs))

\* An element's ID names one element, although the ID of a transaction covers
\* neither signatures nor proofs (sunyata.go:147-168): what is in no way unique,
\* a transaction without inputs, has no outputs.
IDsUnique == IsInjective(MapSeq(LAMBDA l : l.element.id, s.leaves))

\* Over all blocks, each element is an input once if it is spent, and never
\* otherwise, whether its block or a later one spends it (validation.go:184-219).
SpentOnce ==
  LET ids == MapSeq(LAMBDA in : in.id, Inputs(AllTxns))
  IN  /\ IsInjective(ids)
      /\ {l.element.id : l \in {m \in ToSet(s.leaves) : m.spent}} = ToSet(ids)

\* A miner's output is not spent before it has as many blocks above it as the
\* delay says (validation.go:76-84, state.go:79-83).
RewardsMature ==
  \A h, g \in DOMAIN chain : h > 1 /\ g < h + MaturityDelay =>
    \A in \in ToSet(Inputs(chain[g].txns)) : in.id # MinerOutputID(h - 1)

\* "This allows us to freely add any currency values in later validation
\* functions without worrying about overflow" (validation.go:48-51): of whatever
\* passes validateCurrencyValues, accepted or not, the sums do not overflow, so
\* that Add does not panic.
AddNeverPanics ==
  \A b \in Offered(net, chain, s) : \A t \in ToSet(b.txns) :
    CurrencyValuesValid(t) => ~Sum(InValues(t)).overflow /\ ~Sum(OutValues(t)).overflow

\* The outputs after any accepted blocks, and before the next one
\* (consensus/validation.go).
LedgerInv ==
  TypeOK /\ SupplyAccounted /\ IDsUnique /\ SpentOnce /\ RewardsMature /\ AddNeverPanics

\* The State of a header chain is what the chain says: its timestamps are the
\* last ones, in order, and difficulty and work are those computed with numbers
\* of any size (update.go:10-43, sunyata.go:251-316).
Reference ==
  FoldLeft(LAMBDA r, i :
    LET b == chain[i]
        delta == Max({Min({b.time - r.last, 4 * ExpectedDelta}), ExpectedDelta \div 4})
    IN  IF (i - 1) % AdjustmentInterval # 0 THEN [r EXCEPT !.work = @ + r.diff]
        ELSE [work |-> r.work + r.diff, diff |-> (r.diff * ExpectedDelta) \div delta,
              last |-> b.time],
    [work |-> 0, diff |-> WorkNum(net.difficulty), last |-> chain[1].time],
    [i \in 1 .. (Len(chain) - 1) |-> i + 1])

HeadersAddUp ==
  LET n == Min({Len(chain), Window}) IN
  /\ SubSeq(s.times, 1, n) = MapSeq(LAMBDA b : b.time, SubSeq(chain, Len(chain) - n + 1, Len(chain)))
  /\ WorkNum(s.work) = Reference.work
  /\ WorkNum(s.difficulty) = Reference.diff

\* A hash is one that the miner looks for exactly if validateHeader accepts it:
\* HashRequiringWork and WorkRequiredForHash agree (sunyata.go:327-376).
TargetsAgree ==
  \A id \in Hashes({1, 2, Target(s) - 1, Target(s), Target(s) + 1, MaxTarget - 1}) :
    MeetsTarget(id, Target(s)) <=>
      HeaderValid(s, [txns |-> <<>>, time |-> MedianTimestamp(s), hash |-> id])

\* The header fields of the State (consensus/update.go:10-43).
HeadersInv == HeadersAddUp /\ TargetsAgree

\* The median that bounds a block's timestamp from below never goes back,
\* although timestamps do: while the window fills, when it is even and when the
\* oldest timestamp leaves it (validation.go:22-43, update.go:35-41).
MedianNeverGoesBack == [][MedianTimestamp(s') >= MedianTimestamp(s)]_vars

\* There is a hash to look for, of which HashRequiringWork assures itself: "no
\* hash requires zero work" (sunyata.go:360).  TLC refutes it on a network that
\* has come down to a difficulty of three, after one slow interval.
TargetExists == WorkNum(s.difficulty) # 0
=============================================================================
