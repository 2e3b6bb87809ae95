------------------------------ MODULE Consensus ------------------------------
(***************************************************************************)
(* The rules of the chain (consensus/validation.go, update.go, state.go):  *)
(* which blocks ValidateBlock accepts in a State, and what ApplyBlock makes*)
(* of it.  The chain grows by any offered block that is accepted.  A revert*)
(* takes an earlier State from the store, and so adds no behaviour here.   *)
(*                                                                         *)
(* The element accumulator is the sequence of its leaves: that its proofs  *)
(* are of exactly what the leaves hold is shown of ElementAccumulator.  A  *)
(* hash is the tuple of what is hashed, but for a block's, which is a      *)
(* number to compare with the target; the height stands for it in the ID of*)
(* the miner's output.  A public key is the address that it hashes to.     *)
(***************************************************************************)
EXTENDS Arithmetic, Sequences, SequencesExt

CONSTANTS
  Networks,            \* genesis blocks, and bounds on the chains above them
  Offered(_, _, _),    \* blocks offered on a network, above a chain, in a State
  BlockInterval,       \* ten minutes
  AdjustmentInterval,  \* 2016 blocks
  Window,              \* 11 timestamps
  HalvingInterval,     \* 210000 blocks
  Reward,              \* 50 coins, in base units
  MaturityDelay,       \* 144 blocks
  MaxBlockWeight       \* 1,000,000

ASSUME ConsensusAssumption ==
  /\ {AdjustmentInterval, Window, HalvingInterval} \subseteq Nat \ {0}
  /\ {MaturityDelay, MaxBlockWeight} \subseteq Nat
  /\ Reward \in 0 .. (Word * Word - 1)
  /\ BlockInterval \in Nat
  /\ 4 <= BlockInterval * AdjustmentInterval
  /\ 4 * (BlockInterval * AdjustmentInterval) < Word

VARIABLES
  net,   \* the network
  chain, \* the blocks: chain[1] is the genesis block
  s      \* the State at the tip

vars == <<net, chain, s>>

(***************************************************************************)
(* An output element is [id, value, address, maturity, leaf]; an input is  *)
(* one, as claimed, with the key that it reveals and signs with; a         *)
(* transaction is [inputs, outputs, fee], a block [txns, time, hash].      *)
(* s.leaves[i + 1] is what the accumulator has at leaf index i.            *)
(***************************************************************************)
EphemeralLeafIndex == -1
IsEphemeral(in) == in.leaf = EphemeralLeafIndex

Claim(in) == [id |-> in.id, value |-> in.value, address |-> in.address,
              maturity |-> in.maturity, leaf |-> in.leaf]

MapSeq(f(_), q) == [i \in DOMAIN q |-> f(q[i])]

TransactionID(t) == <<MapSeq(LAMBDA in : in.id, t.inputs), t.outputs, t.fee>>
OutputID(t, i) == [source |-> TransactionID(t), index |-> i]
MinerOutputID(height) == [source |-> <<height>>, index |-> 0]

Inputs(txns) == FlattenSeq(MapSeq(LAMBDA t : t.inputs, txns))

-----------------------------------------------------------------------------
(* What a State says of its child block.                                   *)

NumTimestamps(st) == IF st.height + 1 < Window THEN st.height + 1 ELSE Window

BlockReward(st) == CurrencyOf(Reward \div 2 ^ ((st.height + 1) \div HalvingInterval))

\* (mutated: the height is that of the State, not of its child)
MaturityHeight_Parent(st) == st.height + MaturityDelay

MaturityHeight(st) == st.height + 1 + MaturityDelay

TransactionWeight(t) == 4 * Len(t.inputs) + Len(t.outputs)
BlockWeight(txns) == FoldLeft(LAMBDA w, t : w + TransactionWeight(t), 0, txns)

\* (mutated: the timestamps are taken to be in order)
MedianTimestamp_Unsorted(st) == st.times[NumTimestamps(st) \div 2 + 1]

MedianTimestamp(st) ==
  LET ts == SortSeq(SubSeq(st.times, 1, NumTimestamps(st)), LAMBDA x, y : x < y)
      n  == Len(ts)
      l  == ts[n \div 2]
      r  == ts[n \div 2 + 1]
  IN  IF n % 2 # 0 THEN r ELSE l + (r - l) \div 2

-----------------------------------------------------------------------------
(* validation.go                                                           *)

\* (mutated: a hash must need more work than the difficulty)
HeaderValid_Strict(st, b) ==
  /\ WorkLess(st.difficulty, WorkRequiredForHash(b.hash))
  /\ b.time >= MedianTimestamp(st)

\* (mutated: any timestamp will do)
HeaderValid_AnyTime(st, b) == ~WorkLess(WorkRequiredForHash(b.hash), st.difficulty)

HeaderValid(st, b) ==
  /\ ~WorkLess(WorkRequiredForHash(b.hash), st.difficulty)
  /\ b.time >= MedianTimestamp(st)

\* The sum, and whether it overflowed on the way.
Sum(values) ==
  FoldLeft(LAMBDA a, v : IF a.overflow THEN a ELSE AddWithOverflow(a.val, v),
           [val |-> ZeroCurrency, overflow |-> FALSE], values)

InValues(t)  == MapSeq(LAMBDA in : in.value, t.inputs)
OutValues(t) == Append(MapSeq(LAMBDA out : out.value, t.outputs), t.fee)

\* (mutated: outputs may be worth nothing)
CurrencyValuesValid_ZeroOutputs(t) == ~Sum(InValues(t) \o OutValues(t)).overflow

\* (mutated: what the inputs are worth is not added up)
CurrencyValuesValid_OutputsOnly(t) ==
  /\ \A out \in ToSet(t.outputs) : out.value # ZeroCurrency
  /\ ~Sum(OutValues(t)).overflow

CurrencyValuesValid(t) ==
  /\ \A out \in ToSet(t.outputs) : out.value # ZeroCurrency
  /\ ~Sum(InValues(t) \o OutValues(t)).overflow

\* (mutated: an output may be spent one block early)
TimeLocksValid_Early(st, t) == \A in \in ToSet(t.inputs) : in.maturity <= st.height + 2

TimeLocksValid(st, t) == \A in \in ToSet(t.inputs) : in.maturity <= st.height + 1

\* (mutated: the fee need not be paid)
OutputsEqualInputs_NoFee(t) == Sum(InValues(t)) = Sum(Front(OutValues(t)))

\* Its Add panics where CurrencyValuesValid has not ruled an overflow out.
OutputsEqualInputs(t) == Sum(InValues(t)) = Sum(OutValues(t))

\* (mutated: a spent output is as good as an unspent one)
StateProofsValid_Spent(st, t) ==
  \A in \in ToSet(t.inputs) :
    IsEphemeral(in) \/ \E leaf \in ToSet(st.leaves) : leaf.element = Claim(in)

StateProofsValid(st, t) ==
  \A in \in ToSet(t.inputs) :
    IsEphemeral(in) \/ [element |-> Claim(in), spent |-> FALSE] \in ToSet(st.leaves)

SpendPoliciesValid(t) == \A in \in ToSet(t.inputs) : in.key = in.address

ValidateTransaction(st, t) ==
  /\ StateProofsValid(st, t)
  /\ CurrencyValuesValid(t)
  /\ TimeLocksValid(st, t)
  /\ OutputsEqualInputs(t)
  /\ SpendPoliciesValid(t)

\* (mutated: what an ephemeral output is worth is not looked at)
TakeOutput_AnyValue(a, in) ==
  LET outs == {o \in a.available : o.id = in.id /\ o.address = in.address}
  IN  IF ~IsEphemeral(in) THEN a
      ELSE [ok |-> a.ok /\ outs # {}, available |-> a.available \ outs]

(***************************************************************************)
(* An ephemeral input takes its output from those that earlier transactions*)
(* of the block have made available.                                       *)
(***************************************************************************)
TakeOutput(a, in) ==
  LET out == [id |-> in.id, value |-> in.value, address |-> in.address]
  IN  IF ~IsEphemeral(in) THEN a
      ELSE [ok |-> a.ok /\ out \in a.available, available |-> a.available \ {out}]

MakeOutputs(a, t) ==
  [a EXCEPT !.available = @ \cup
     {[id |-> OutputID(t, i - 1), value |-> t.outputs[i].value,
       address |-> t.outputs[i].address] : i \in DOMAIN t.outputs}]

EphemeralOutputsValid(txns) ==
  FoldLeft(LAMBDA a, t : MakeOutputs(FoldLeft(LAMBDA aa, in : TakeOutput(aa, in), a, t.inputs), t),
           [ok |-> TRUE, available |-> {}], txns).ok

\* (mutated: only within a transaction)
NoDoubleSpends_PerTxn(txns) ==
  \A t \in ToSet(txns) : IsInjective(MapSeq(LAMBDA in : in.id, t.inputs))

NoDoubleSpends(txns) == IsInjective(MapSeq(LAMBDA in : in.id, Inputs(txns)))

ValidateTransactionSet(st, txns) ==
  /\ BlockWeight(txns) <= MaxBlockWeight
  /\ EphemeralOutputsValid(txns)
  /\ NoDoubleSpends(txns)
  /\ \A t \in ToSet(txns) : ValidateTransaction(st, t)

\* The header's height, parent and commitment are those of this State.
ValidateBlock(st, b) == HeaderValid(st, b) /\ ValidateTransactionSet(st, b.txns)

-----------------------------------------------------------------------------
(* update.go                                                               *)

ExpectedDelta == BlockInterval * AdjustmentInterval

Clamp(delta) ==
  IF delta > ExpectedDelta * 4 THEN ExpectedDelta * 4
  ELSE IF delta < ExpectedDelta \div 4 THEN ExpectedDelta \div 4
  ELSE delta

\* (mutated: divided before it is multiplied)
AdjustDifficulty_DivFirst(st, time) ==
  WorkMul64(WorkDiv64(st.difficulty, Clamp(time - st.lastAdjust)), ExpectedDelta)

AdjustDifficulty(st, time) ==
  WorkDiv64(WorkMul64(st.difficulty, ExpectedDelta), Clamp(time - st.lastAdjust))

\* (mutated: the window moves one block early)
PushTimestamp_Early(st, time) ==
  IF NumTimestamps(st) + 1 < Window
  THEN [st.times EXCEPT ![NumTimestamps(st) + 1] = time]
  ELSE Append(Tail(st.times), time)

PushTimestamp(st, time) ==
  IF NumTimestamps(st) < Window
  THEN [st.times EXCEPT ![NumTimestamps(st) + 1] = time]
  ELSE Append(Tail(st.times), time)

ApplyHeader(st, b) ==
  LET adjust == (st.height + 1) % AdjustmentInterval = 0
  IN  [st EXCEPT !.work       = WorkAdd(@, st.difficulty),
                 !.difficulty = IF adjust THEN AdjustDifficulty(st, b.time) ELSE @,
                 !.lastAdjust = IF adjust THEN b.time ELSE @,
                 !.times      = PushTimestamp(st, b.time),
                 !.height     = @ + 1]

\* The elements that a block creates, the miner's first; their leaf indices
\* follow on those that exist.
CreatedInBlock(st, height, txns) ==
  LET miner == [id |-> MinerOutputID(height), value |-> BlockReward(st),
                address |-> 1, maturity |-> MaturityHeight(st)]
      of(t) == [i \in DOMAIN t.outputs |->
                  [id |-> OutputID(t, i - 1), value |-> t.outputs[i].value,
                   address |-> t.outputs[i].address, maturity |-> 0]]
      all   == <<miner>> \o FlattenSeq(MapSeq(of, txns))
  IN  [i \in DOMAIN all |->
         [id |-> all[i].id, value |-> all[i].value, address |-> all[i].address,
          maturity |-> all[i].maturity, leaf |-> Len(st.leaves) + i - 1]]

\* (mutated: an output spent in the block that creates it stays unspent)
ApplyElements_EphemeralUnspent(st, height, txns) ==
  LET ins == ToSet(Inputs(txns))
  IN  [i \in DOMAIN st.leaves |->
         [st.leaves[i] EXCEPT !.spent = @ \/ st.leaves[i].element \in {Claim(in) : in \in ins}]]
      \o MapSeq(LAMBDA e : [element |-> e, spent |-> FALSE], CreatedInBlock(st, height, txns))

ApplyElements(st, height, txns) ==
  LET ins == ToSet(Inputs(txns))
      ephemeral == {in.id : in \in {i \in ins : IsEphemeral(i)}}
  IN  [i \in DOMAIN st.leaves |->
         [st.leaves[i] EXCEPT !.spent = @ \/ \E in \in ins : in.leaf = i - 1]]
      \o MapSeq(LAMBDA e : [element |-> e, spent |-> e.id \in ephemeral],
                CreatedInBlock(st, height, txns))

ApplyBlock(st, b) ==
  [ApplyHeader(st, b) EXCEPT !.leaves = ApplyElements(st, st.height + 1, b.txns)]

\* ApplyBlock on a State with only the initial difficulty.
GenesisState(b, difficulty) ==
  LET empty == [height |-> 0, work |-> WorkOf(0), difficulty |-> difficulty,
                lastAdjust |-> b.time, leaves |-> <<>>,
                times |-> [i \in 1 .. Window |-> IF i = 1 THEN b.time ELSE 0]]
  IN  [empty EXCEPT !.leaves = ApplyElements(empty, 0, b.txns)]

-----------------------------------------------------------------------------
Init ==
  /\ net \in Networks
  /\ chain = <<net.genesis>>
  /\ s = GenesisState(net.genesis, net.difficulty)

Extend ==
  \E b \in Offered(net, chain, s) :
    /\ ValidateBlock(s, b)
    /\ chain' = Append(chain, b)
    /\ s' = ApplyBlock(s, b)
    /\ UNCHANGED net

Next == Extend

Spec == Init /\ [][Next]_vars
=============================================================================
