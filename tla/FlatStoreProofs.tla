--------------------------- MODULE FlatStoreProofs ---------------------------
(***************************************************************************)
(* Whatever the process had written when it ended or the power failed, the *)
(* store reopens with what was flushed last: for every block tree, and for *)
(* any number of entries, exits and power losses.                          *)
(***************************************************************************)
EXTENDS FlatStore, SequenceTheorems, WellFoundedInduction, TLAPS

\* A set of numbers has a least one: induction, as a fact about a set.
LEMMA LeastNat ==
  ASSUME NEW T, T \subseteq Nat, T # {}
  PROVE  \E n \in T : \A k \in T : n <= k
<1> DEFINE Less == OpToRel(<, Nat)
<1>1. PICK n \in T : \A k \in T : ~(<<k, n>> \in Less)
  <2>1. IsWellFoundedOn(Less, Nat)
    BY NatLessThanWellFounded
  <2> HIDE DEF Less
  <2> QED
    BY <2>1, WFMin
<1>2. \A k \in Nat : k < n => <<k, n>> \in Less
  BY DEF OpToRel
<1> HIDE DEF Less
<1>3. \A k \in T : ~(k < n)
  BY <1>1, <1>2
<1> QED
  BY <1>3

LEMMA HeightIsInt == ASSUME NEW b \in Blocks PROVE Height(b) \in Int
<1>1. CASE b = Genesis
  BY <1>1, ChainAssumption DEF Height
<1>2. CASE b # Genesis
  <2>1. b \in Children /\ Parent[b] \in Blocks
    BY <1>2, GenesisAssumption DEF Children
  <2>2. ChainOf[b] = Append(ChainOf[Parent[b]], b) /\ ChainOf[Parent[b]] \in Seq(Blocks)
    BY <2>1, ChainAssumption
  <2>3. Len(ChainOf[b]) \in Nat
    BY <2>2
  <2> QED
    BY <2>3 DEF Height
<1> QED
  BY <1>1, <1>2

-----------------------------------------------------------------------------
(* The inductive invariant.                                                *)

BeginsWith(file, part) ==
  Len(part) <= Len(file) /\ \A i \in 1 .. Len(part) : file[i] = part[i]

\* What was synced is a part of the file.
FilesOK ==
  /\ synced \in [index : Seq(Records), entry : Seq(Blocks), best : Seq(Blocks)]
  /\ op \in [pc : {"idle", "index", "entry", "best", "rename"}, b : Blocks]
  /\ BeginsWith(indexFile, synced.index) /\ BeginsWith(entryFile, synced.entry)
  /\ Len(entryFile) <= MaxEntries

\* The first n index records lead to the entries of their blocks, which are
\* among the first m.
ReadsBack(n, m) ==
  \A i \in 1 .. n : indexFile[i].offset \in 1 .. m /\ entryFile[indexFile[i].offset] = indexFile[i].index

Indexed(n) == {indexFile[i].index : i \in 1 .. n}

\* What the metadata counts was synced, reads back, and is what was flushed.
\* Before there is any, the files are empty when the process starts.
FlushedOK ==
  IF metaFile = NoMeta
  THEN /\ flushed.tip = Genesis /\ flushed.blocks = {}
       /\ state = "down" => indexFile = <<>> /\ entryFile = <<>>
  ELSE /\ metaFile.indexSize \in 1 .. Len(synced.index)
       /\ metaFile.entrySize \in metaFile.indexSize .. Len(synced.entry)
       /\ ReadsBack(metaFile.indexSize, metaFile.entrySize)
       /\ flushed.tip = metaFile.tip /\ flushed.blocks \subseteq Indexed(metaFile.indexSize)

\* While the process runs, all that it has written reads back, and a Flush has
\* synced the files that it is past.
RunningOK ==
  /\ state = "running" =>
       /\ Len(indexFile) >= 1 /\ meta.indexSize = Len(indexFile)
       /\ IF op.pc = "index"
          THEN Len(indexFile) < Len(entryFile) /\ entryFile[Len(entryFile)] = op.b
          ELSE Len(indexFile) <= Len(entryFile) /\ meta.entrySize = Len(entryFile)
       /\ ReadsBack(Len(indexFile), Len(entryFile))
       /\ DOMAIN offsets = Indexed(Len(indexFile))
       /\ op.pc \in {"entry", "best", "rename"} => synced.index = indexFile
       /\ op.pc \in {"best", "rename"} => synced.entry = entryFile
  /\ state # "running" => DOMAIN offsets = {} /\ op = Idle

IInv == TypeOK /\ CheckpointsReadBack /\ FilesOK /\ FlushedOK /\ RunningOK

-----------------------------------------------------------------------------
(* Files that grow and are cut.                                            *)

LEMMA Appends ==
  ASSUME NEW S, NEW file \in Seq(S), NEW part \in Seq(S), NEW e \in S, BeginsWith(file, part)
  PROVE  BeginsWith(Append(file, e), part)
BY DEF BeginsWith

LEMMA CutFacts ==
  ASSUME NEW S, NEW file \in Seq(S), NEW size \in Nat
  PROVE  /\ Cut(file, size) \in Seq(S)
         /\ Len(Cut(file, size)) = IF size < Len(file) THEN size ELSE Len(file)
         /\ \A i \in 1 .. Len(Cut(file, size)) : Cut(file, size)[i] = file[i]
<1> DEFINE n == IF size < Len(file) THEN size ELSE Len(file)
<1>1. n \in 0 .. Len(file) /\ Len(file) \in Nat
  BY LenProperties
<1>2. \A i \in 1 .. n : file[i] \in S
  BY <1>1, ElementOfSeq
<1>3. Cut(file, size) = SubSeq(file, 1, n)
  BY DEF Cut
<1> HIDE DEF n
<1>4. /\ SubSeq(file, 1, n) \in Seq(S)
      /\ Len(SubSeq(file, 1, n)) = IF 1 <= n THEN n - 1 + 1 ELSE 0
      /\ \A i \in 1 .. n - 1 + 1 : SubSeq(file, 1, n)[i] = file[1 + i - 1]
  BY <1>1, <1>2, SubSeqProperties
<1>5. Len(SubSeq(file, 1, n)) = n
  BY <1>1, <1>4
<1>6. \A i \in 1 .. n : SubSeq(file, 1, n)[i] = file[i]
  BY <1>1, <1>4
<1> QED
  BY <1>3, <1>4, <1>5, <1>6 DEF n

\* An offset is that of a record of the block: there is a last one.
LEMMA OffsetsFacts ==
  ASSUME NEW index \in Seq(Records)
  PROVE  /\ DOMAIN Offsets(index) = {index[i].index : i \in 1 .. Len(index)}
         /\ \A b \in DOMAIN Offsets(index) :
              \E i \in 1 .. Len(index) : index[i].index = b /\ Offsets(index)[b] = index[i].offset
<1>1. DOMAIN index = 1 .. Len(index) /\ Len(index) \in Nat
  BY LenProperties
<1>2. DOMAIN Offsets(index) = {index[i].index : i \in 1 .. Len(index)}
  BY <1>1 DEF Offsets
<1>3. ASSUME NEW b \in DOMAIN Offsets(index)
      PROVE  \E i \in 1 .. Len(index) : index[i].index = b /\ Offsets(index)[b] = index[i].offset
  <2> DEFINE IsLast(i) == index[i].index = b /\ \A j \in i + 1 .. Len(index) : index[j].index # b
             back      == {Len(index) - i : i \in {k \in 1 .. Len(index) : index[k].index = b}}
  <2>1. back \subseteq Nat /\ back # {}
    BY <1>1, <1>2, <1>3
  <2>2. PICK n \in back : \A k \in back : n <= k
    BY <2>1, LeastNat
  <2>3. PICK i \in 1 .. Len(index) : n = Len(index) - i /\ index[i].index = b
    BY <2>2
  <2>4. IsLast(i)
    <3>1. ASSUME NEW j \in i + 1 .. Len(index), index[j].index = b PROVE FALSE
      <4>1. j \in 1 .. Len(index) /\ Len(index) - j < n
        BY <1>1, <2>3, <3>1
      <4>2. Len(index) - j \in back
        BY <3>1, <4>1
      <4>3. n <= Len(index) - j
        BY <2>2, <4>2
      <4> QED
        BY <1>1, <2>3, <4>1, <4>3
    <3> QED
      BY <2>3, <3>1
  <2>5. Offsets(index)[b] = index[CHOOSE k \in DOMAIN index : IsLast(k)].offset
    BY <1>2, <1>3, <1>1 DEF Offsets
  <2> HIDE DEF IsLast
  <2>6. \E k \in DOMAIN index : IsLast(k)
    BY <1>1, <2>4
  <2>7. PICK k \in DOMAIN index : k = (CHOOSE m \in DOMAIN index : IsLast(m)) /\ IsLast(k)
    BY <2>6
  <2> QED
    BY <1>1, <2>5, <2>7 DEF IsLast
<1> QED
  BY <1>2, <1>3

-----------------------------------------------------------------------------
(* The steps of a process that runs.                                       *)

\* The lengths of the files are numbers, and so are the sizes.
LEMMA Sizes ==
  ASSUME IInv
  PROVE  /\ Len(indexFile) \in Nat /\ Len(entryFile) \in Nat /\ Len(bestFile) \in Nat
         /\ Len(synced.index) \in Nat /\ Len(synced.entry) \in Nat
         /\ synced.index \in Seq(Records) /\ synced.entry \in Seq(Blocks) /\ synced.best \in Seq(Blocks)
         /\ MaxEntries \in Nat \ {0}
BY StoreAssumption, LenProperties DEF IInv, TypeOK, FilesOK

\* What the metadata counts stays as long as its part of the files does.
LEMMA FlushedStays ==
  ASSUME IInv, FilesOK', metaFile' = metaFile, flushed' = flushed,
         metaFile = NoMeta => state' # "down",
         metaFile # NoMeta =>
           /\ metaFile.indexSize <= Len(synced.index)' /\ metaFile.entrySize <= Len(synced.entry)'
           /\ \A i \in 1 .. metaFile.indexSize : indexFile'[i] = indexFile[i]
           /\ \A i \in 1 .. metaFile.entrySize : entryFile'[i] = entryFile[i]
  PROVE  FlushedOK'
<1>1. CASE metaFile = NoMeta
  BY <1>1 DEF IInv, FlushedOK
<1>2. CASE metaFile # NoMeta
  <2> DEFINE n == metaFile.indexSize
             m == metaFile.entrySize
  <2>1. /\ n \in 1 .. Len(synced.index) /\ m \in n .. Len(synced.entry) /\ ReadsBack(n, m)
        /\ flushed.tip = metaFile.tip /\ flushed.blocks \subseteq Indexed(n)
    BY <1>2 DEF IInv, FlushedOK
  <2>2. Len(synced.index) \in Nat /\ Len(synced.entry) \in Nat
    BY Sizes
  <2>3. n \in Nat /\ m \in Nat /\ 1 <= n /\ n <= m
    BY <2>1, <2>2
  <2>4. Len(synced.index)' \in Nat /\ Len(synced.entry)' \in Nat
    BY LenProperties DEF FilesOK
  <2>5. n \in 1 .. Len(synced.index)' /\ m \in n .. Len(synced.entry)'
    BY <1>2, <2>3, <2>4
  <2>6. ReadsBack(n, m)'
    BY <1>2, <2>1, <2>3 DEF ReadsBack
  <2>7. Indexed(n)' = Indexed(n)
    BY <1>2, <2>3 DEF Indexed
  <2> QED
    BY <1>2, <2>1, <2>5, <2>6, <2>7 DEF FlushedOK
<1> QED
  BY <1>1, <1>2

\* The counted parts of the files are synced, and so parts of the files.
LEMMA CountedIsWritten ==
  ASSUME IInv, metaFile # NoMeta
  PROVE  /\ metaFile.indexSize \in 1 .. Len(synced.index) /\ metaFile.entrySize \in 1 .. Len(synced.entry)
         /\ metaFile.indexSize \in 1 .. Len(indexFile) /\ metaFile.entrySize \in 1 .. Len(entryFile)
<1>1. Len(synced.index) <= Len(indexFile) /\ Len(synced.entry) <= Len(entryFile)
  BY DEF IInv, FilesOK, BeginsWith
<1> QED
  BY <1>1, Sizes DEF IInv, FlushedOK

LEMMA WriteEntryInv == ASSUME IInv, NEW b \in Blocks, WriteEntry(b) PROVE IInv'
<1>1. /\ state = "running" /\ op.pc = "idle" /\ Len(entryFile) < MaxEntries /\ entryFile' = Append(entryFile, b)
      /\ op' = [pc |-> "index", b |-> b]
      /\ UNCHANGED <<indexFile, bestFile, metaFile, synced, state, meta, offsets, base, cs, exits, flushed>>
  BY DEF WriteEntry, Ready, memory
<1>2. /\ entryFile' \in Seq(Blocks) /\ Len(entryFile') = Len(entryFile) + 1 /\ entryFile'[Len(entryFile) + 1] = b
      /\ \A i \in 1 .. Len(entryFile) : entryFile'[i] = entryFile[i]
  BY <1>1, AppendProperties DEF IInv, TypeOK
<1>3. TypeOK'
  BY <1>1, <1>2 DEF IInv, TypeOK
<1>4. FilesOK'
  BY <1>1, <1>2, Sizes, Appends DEF IInv, TypeOK, FilesOK, BeginsWith
<1>5. FlushedOK'
  BY <1>1, <1>2, <1>4, FlushedStays, CountedIsWritten, Sizes
<1>6. CheckpointsReadBack'
  <2>1. DOMAIN entryFile = 1 .. Len(entryFile) /\ DOMAIN entryFile' = 1 .. Len(entryFile')
    BY <1>2, LenProperties DEF IInv, TypeOK
  <2> QED
    BY <1>1, <1>2, <2>1, Sizes DEF IInv, CheckpointsReadBack
<1>7. RunningOK'
  <2>1. ReadsBack(Len(indexFile), Len(entryFile))'
    BY <1>1, <1>2, Sizes DEF IInv, RunningOK, ReadsBack
  <2>2. DOMAIN offsets' = Indexed(Len(indexFile))'
    BY <1>1 DEF IInv, RunningOK, Indexed
  <2> QED
    BY <1>1, <1>2, <2>1, <2>2, Sizes DEF IInv, RunningOK
<1> QED
  BY <1>3, <1>4, <1>5, <1>6, <1>7 DEF IInv

LEMMA WriteIndexInv == ASSUME IInv, WriteIndex PROVE IInv'
<1> DEFINE offset == Len(entryFile)
           r == [index |-> op.b, offset |-> offset]
<1>1. /\ state = "running" /\ op.pc = "index" /\ indexFile' = Append(indexFile, r)
      /\ offsets' = [b \in DOMAIN offsets \cup {op.b} |-> IF b = op.b THEN offset ELSE offsets[b]]
      /\ meta' = [meta EXCEPT !.entrySize = offset, !.indexSize = @ + 1]
      /\ op' = Idle
      /\ UNCHANGED <<entryFile, bestFile, metaFile, synced, state, base, cs, exits, flushed>>
  BY DEF WriteIndex
<1>2. /\ Len(indexFile) < Len(entryFile) /\ entryFile[offset] = op.b /\ meta.indexSize = Len(indexFile)
      /\ Len(indexFile) >= 1 /\ Len(entryFile) <= MaxEntries
  BY <1>1 DEF IInv, RunningOK, FilesOK
<1>3. offset \in Nat /\ op.b \in Blocks /\ r \in Records
  BY Sizes DEF IInv, TypeOK, Records
<1> HIDE DEF r
<1>4. /\ indexFile' \in Seq(Records) /\ Len(indexFile') = Len(indexFile) + 1 /\ indexFile'[Len(indexFile) + 1] = r
      /\ \A i \in 1 .. Len(indexFile) : indexFile'[i] = indexFile[i]
  BY <1>1, <1>3, AppendProperties DEF IInv, TypeOK
<1>5. meta' \in Metas /\ meta'.indexSize = Len(indexFile') /\ meta'.entrySize = Len(entryFile)
  <2>1. meta \in Metas
    BY DEF IInv, TypeOK
  <2>2. offset \in -1 .. MaxEntries /\ Len(indexFile) + 1 \in -1 .. MaxEntries
    BY <1>2, Sizes
  <2>3. meta' = [meta EXCEPT !.entrySize = offset, !.indexSize = Len(indexFile) + 1]
    BY <1>1, <1>2, <2>1 DEF Metas
  <2> HIDE DEF offset
  <2>4. meta' \in Metas /\ meta'.indexSize = Len(indexFile) + 1 /\ meta'.entrySize = offset
    BY <2>1, <2>2, <2>3 DEF Metas
  <2> QED
    BY <1>4, <2>4 DEF offset
<1>6. TypeOK'
  <2>1. DOMAIN offsets' \subseteq Blocks /\ \A b \in DOMAIN offsets' : offsets'[b] \in Nat
    BY <1>1, <1>3 DEF IInv, TypeOK
  <2>2. op'.pc \in {"idle", "index", "entry", "best", "rename"} /\ op'.b \in Blocks
    BY <1>1, GenesisAssumption DEF Idle
  <2> QED
    BY <1>1, <1>4, <1>5, <2>1, <2>2 DEF IInv, TypeOK
<1>7. FilesOK'
  <2>1. op' \in [pc : {"idle", "index", "entry", "best", "rename"}, b : Blocks]
    BY <1>1, GenesisAssumption DEF Idle
  <2> QED
    BY <1>1, <1>4, <2>1, Sizes DEF IInv, FilesOK, BeginsWith
<1>8. FlushedOK'
  BY <1>1, <1>4, <1>7, FlushedStays, CountedIsWritten, Sizes
<1>9. DOMAIN entryFile = 1 .. Len(entryFile)
  BY LenProperties DEF IInv, TypeOK
<1>10. CheckpointsReadBack'
  BY <1>1, <1>2, <1>9, Sizes DEF IInv, CheckpointsReadBack
<1>11. RunningOK'
  <2>1. ReadsBack(Len(indexFile), Len(entryFile))'
    <3>1. ReadsBack(Len(indexFile), Len(entryFile))
      BY <1>1 DEF IInv, RunningOK
    <3>2. r.offset = offset /\ r.index = op.b
      BY DEF r
    <3> QED
      BY <1>1, <1>2, <1>4, <3>1, <3>2, Sizes DEF ReadsBack
  <2>2. DOMAIN offsets' = Indexed(Len(indexFile))'
    <3>1. DOMAIN offsets = Indexed(Len(indexFile))
      BY <1>1 DEF IInv, RunningOK
    <3>2. r.index = op.b
      BY DEF r
    <3> QED
      BY <1>1, <1>4, <3>1, <3>2, Sizes DEF Indexed
  <2>3. op' = Idle /\ Idle.pc = "idle"
    BY <1>1 DEF Idle
  <2> QED
    BY <1>1, <1>2, <1>4, <1>5, <2>1, <2>2, <2>3, Sizes DEF RunningOK
<1> QED
  BY <1>6, <1>7, <1>8, <1>10, <1>11 DEF IInv

\* ExtendBest and RewindBest change the best chain and the tip, and nothing that
\* the offsets and sizes are about.
LEMMA BestMoves ==
  ASSUME IInv, Ready, bestFile' \in Seq(Blocks), cs' \in Blocks,
         NEW b \in Blocks, meta' = [meta EXCEPT !.tip = b],
         UNCHANGED <<indexFile, entryFile, metaFile, synced, state, op, offsets, base, exits, flushed>>
  PROVE  IInv'
<1>1. state = "running" /\ op.pc = "idle"
  BY DEF Ready
<1>2. meta \in Metas
  BY DEF IInv, TypeOK
<1>3. meta' \in Metas /\ meta'.indexSize = meta.indexSize /\ meta'.entrySize = meta.entrySize
  BY <1>2 DEF Metas
<1>4. TypeOK'
  BY <1>3 DEF IInv, TypeOK
<1>5. FilesOK'
  BY DEF IInv, FilesOK, BeginsWith
<1>6. FlushedOK'
  BY <1>1, <1>5, FlushedStays, CountedIsWritten, Sizes
<1>7. CheckpointsReadBack'
  BY DEF IInv, CheckpointsReadBack
<1>8. RunningOK'
  BY <1>1, <1>3 DEF IInv, RunningOK, ReadsBack, Indexed
<1> QED
  BY <1>4, <1>5, <1>6, <1>7, <1>8 DEF IInv

LEMMA ExtendBestInv == ASSUME IInv, NEW b \in Blocks, ExtendBest(b) PROVE IInv'
<1>1. bestFile' \in Seq(Blocks)
  BY AppendProperties DEF ExtendBest, IInv, TypeOK
<1> QED
  BY <1>1, BestMoves DEF ExtendBest

LEMMA RewindBestInv == ASSUME IInv, RewindBest PROVE IInv'
<1> DEFINE h == Height(meta.tip) - 1
<1>1. meta.tip \in Blocks /\ base \in Blocks /\ cs \in Blocks /\ bestFile \in Seq(Blocks)
  BY DEF IInv, TypeOK, Metas
<1>2. h \in Int /\ Height(base) \in Int /\ Len(bestFile) \in Nat
  BY <1>1, HeightIsInt, LenProperties
<1>3. h - Height(base) + 1 \in 1 .. Len(bestFile)
  BY <1>2 DEF RewindBest, HasBest
<1>4. BestIndex(h) \in Blocks
  BY <1>1, <1>3, ElementOfSeq DEF BestIndex
<1>5. bestFile' \in Seq(Blocks)
  <2>1. \A i \in 1 .. Len(bestFile) - 1 : bestFile[i] \in Blocks
    BY <1>1, <1>2, ElementOfSeq
  <2>2. bestFile' = SubSeq(bestFile, 1, Len(bestFile) - 1)
    BY DEF RewindBest
  <2> QED
    BY <1>2, <2>1, <2>2, SubSeqProperties
<1>6. cs' \in Blocks
  BY <1>1, GenesisAssumption DEF RewindBest, Children
<1> QED
  BY <1>4, <1>5, <1>6, BestMoves DEF RewindBest

\* A Flush syncs a file: what was synced before is a part of it.
LEMMA SyncInv ==
  ASSUME IInv, StartFlush \/ SyncEntry \/ SyncBest
  PROVE  IInv'
<1>1. /\ state = "running" /\ op.pc \in {"idle", "entry", "best"}
      /\ UNCHANGED <<indexFile, entryFile, bestFile, metaFile, state, meta, offsets, base, cs, exits, flushed>>
      /\ op' = [Idle EXCEPT !.pc = op'.pc]
  BY DEF StartFlush, SyncEntry, SyncBest, Ready, memory, Idle
<1>2. /\ op'.pc \in {"entry", "best", "rename"} /\ op'.b \in Blocks
      /\ op' \in [pc : {"idle", "index", "entry", "best", "rename"}, b : Blocks]
  BY GenesisAssumption DEF StartFlush, SyncEntry, SyncBest, Idle
<1>3. /\ synced' \in [index : Seq(Records), entry : Seq(Blocks), best : Seq(Blocks)]
      /\ synced'.index \in {synced.index, indexFile} /\ synced'.entry \in {synced.entry, entryFile}
      /\ op.pc = "idle" => synced'.index = indexFile /\ op'.pc = "entry"
      /\ op.pc = "entry" => synced'.index = synced.index /\ synced'.entry = entryFile /\ op'.pc = "best"
      /\ op.pc = "best" => synced'.index = synced.index /\ synced'.entry = synced.entry
  BY <1>1 DEF StartFlush, SyncEntry, SyncBest, Ready, IInv, TypeOK, FilesOK, Idle
<1>4. TypeOK'
  BY <1>1, <1>2, <1>3 DEF IInv, TypeOK
<1>5. FilesOK'
  BY <1>1, <1>2, <1>3, Sizes DEF IInv, FilesOK, BeginsWith
<1>6. Len(synced.index)' >= Len(synced.index) /\ Len(synced.entry)' >= Len(synced.entry)
  BY <1>3, Sizes DEF IInv, FilesOK, BeginsWith
<1>7. FlushedOK'
  <2>1. Len(synced.index)' \in Nat /\ Len(synced.entry)' \in Nat
    BY <1>3, Sizes
  <2> QED
    BY <1>1, <1>5, <1>6, <2>1, FlushedStays, CountedIsWritten, Sizes
<1>8. CheckpointsReadBack'
  BY <1>1 DEF IInv, CheckpointsReadBack
<1>9. RunningOK'
  BY <1>1, <1>2, <1>3 DEF IInv, RunningOK, ReadsBack, Indexed
<1> QED
  BY <1>4, <1>5, <1>7, <1>8, <1>9 DEF IInv

\* The metadata replaced by RenameMeta counts what has been synced.
LEMMA RenameMetaInv == ASSUME IInv, RenameMeta PROVE IInv'
<1>1. /\ state = "running" /\ op.pc = "rename" /\ metaFile' = meta
      /\ flushed' = [tip |-> meta.tip, blocks |-> DOMAIN offsets] /\ op' = Idle
      /\ UNCHANGED <<indexFile, entryFile, bestFile, synced, state, meta, offsets, base, cs, exits>>
  BY DEF RenameMeta, memory
<1>2. /\ synced.index = indexFile /\ synced.entry = entryFile
      /\ meta.indexSize = Len(indexFile) /\ meta.entrySize = Len(entryFile)
      /\ 1 <= Len(indexFile) /\ Len(indexFile) <= Len(entryFile)
      /\ ReadsBack(Len(indexFile), Len(entryFile)) /\ DOMAIN offsets = Indexed(Len(indexFile))
  BY <1>1 DEF IInv, RunningOK
<1>3. meta \in Metas /\ Idle.pc = "idle" /\ Idle \in [pc : {"idle", "index", "entry", "best", "rename"}, b : Blocks]
  BY GenesisAssumption DEF IInv, TypeOK, Idle
<1>4. TypeOK'
  BY <1>1, <1>3 DEF IInv, TypeOK, Metas
<1>5. FilesOK'
  BY <1>1, <1>3 DEF IInv, FilesOK, BeginsWith
<1>6. FlushedOK'
  <2>1. metaFile' # NoMeta
    BY <1>1, <1>2, Sizes DEF NoMeta
  <2>2. ReadsBack(meta.indexSize, meta.entrySize)' /\ Indexed(meta.indexSize)' = Indexed(Len(indexFile))
    BY <1>1, <1>2 DEF ReadsBack, Indexed
  <2> QED
    BY <1>1, <1>2, <2>1, <2>2, Sizes DEF FlushedOK
<1>7. CheckpointsReadBack'
  BY <1>1 DEF IInv, CheckpointsReadBack
<1>8. RunningOK'
  BY <1>1, <1>3 DEF IInv, RunningOK, ReadsBack, Indexed
<1> QED
  BY <1>4, <1>5, <1>6, <1>7, <1>8 DEF IInv

-----------------------------------------------------------------------------
(* The process ends, and starts again.                                     *)

\* What is forgotten needs no more than that the files hold what was flushed.
LEMMA ForgetInv ==
  ASSUME IInv, MayEnd, Forget, metaFile' = metaFile, metaFile # NoMeta,
         indexFile' \in Seq(Records), entryFile' \in Seq(Blocks), bestFile' \in Seq(Blocks),
         synced' \in [index : Seq(Records), entry : Seq(Blocks), best : Seq(Blocks)],
         BeginsWith(indexFile', synced'.index), BeginsWith(entryFile', synced'.entry),
         BeginsWith(synced'.index, synced.index), BeginsWith(synced'.entry, synced.entry),
         BeginsWith(indexFile', synced.index), BeginsWith(entryFile', synced.entry),
         Len(entryFile') <= Len(entryFile)
  PROVE  IInv'
<1>1. /\ state' = "down" /\ op' = Idle /\ meta' = NoMeta /\ offsets' = <<>> /\ base' = Genesis
      /\ cs' = Genesis /\ exits' = exits + 1 /\ flushed' = flushed /\ exits < MaxExits
  BY DEF Forget, MayEnd
<1>2. DOMAIN offsets' = {}
  BY <1>1
<1>3. /\ Idle.pc = "idle" /\ Idle.b \in Blocks
      /\ Idle \in [pc : {"idle", "index", "entry", "best", "rename"}, b : Blocks]
  BY GenesisAssumption DEF Idle
<1>4. NoMeta \in Metas
  BY GenesisAssumption, StoreAssumption DEF NoMeta, Metas
<1>5. TypeOK'
  <2>1. exits' \in 0 .. MaxExits
    BY <1>1, StoreAssumption DEF IInv, TypeOK
  <2> QED
    BY <1>1, <1>2, <1>3, <1>4, <2>1, GenesisAssumption DEF IInv, TypeOK
<1>6. FilesOK'
  BY <1>1, <1>3, Sizes, LenProperties DEF IInv, FilesOK
<1>7. FlushedOK'
  <2>1. /\ metaFile.indexSize \in 1 .. Len(synced.index) /\ metaFile.entrySize \in 1 .. Len(synced.entry)
        /\ Len(synced.index) \in Nat /\ Len(synced.entry) \in Nat
        /\ Len(synced.index)' \in Nat /\ Len(synced.entry)' \in Nat
    BY CountedIsWritten, Sizes, LenProperties
  <2>2. BeginsWith(indexFile, synced.index) /\ BeginsWith(entryFile, synced.entry)
    BY DEF IInv, FilesOK
  <2>3. ASSUME NEW i \in 1 .. metaFile.indexSize PROVE indexFile'[i] = indexFile[i]
    <3>1. i \in 1 .. Len(synced.index)
      BY <2>1
    <3> QED
      BY <2>2, <3>1 DEF BeginsWith
  <2>4. ASSUME NEW i \in 1 .. metaFile.entrySize PROVE entryFile'[i] = entryFile[i]
    <3>1. i \in 1 .. Len(synced.entry)
      BY <2>1
    <3> QED
      BY <2>2, <3>1 DEF BeginsWith
  <2>5. metaFile.indexSize <= Len(synced.index)' /\ metaFile.entrySize <= Len(synced.entry)'
    BY <2>1 DEF BeginsWith
  <2> QED
    BY <1>1, <1>6, <2>3, <2>4, <2>5, FlushedStays
<1>8. CheckpointsReadBack'
  BY <1>2 DEF CheckpointsReadBack
<1>9. RunningOK'
  BY <1>1, <1>2 DEF RunningOK
<1> QED
  BY <1>5, <1>6, <1>7, <1>8, <1>9 DEF IInv

LEMMA ProcessEndsInv == ASSUME IInv, ~EarlyExit, ProcessEnds PROVE IInv'
<1>1. MayEnd /\ Forget /\ metaFile # NoMeta /\ UNCHANGED <<indexFile, entryFile, bestFile, metaFile, synced>>
  BY DEF ProcessEnds, MayEnd, files
<1>2. BeginsWith(synced.index, synced.index) /\ BeginsWith(synced.entry, synced.entry)
  BY Sizes DEF BeginsWith
<1> QED
  BY <1>1, <1>2, Sizes, ForgetInv DEF IInv, TypeOK, FilesOK

\* A survivor is a part of the file, and begins with what was synced.
LEMMA SurvivorFacts ==
  ASSUME NEW S, NEW file \in Seq(S), NEW was \in Seq(S), BeginsWith(file, was),
         NEW left \in Survivors(file, was)
  PROVE  left \in Seq(S) /\ BeginsWith(left, was) /\ Len(left) <= Len(file) /\ BeginsWith(left, left)
<1>1. Len(file) \in Nat /\ Len(was) \in Nat
  BY LenProperties
<1>2. PICK n \in Len(was) .. Len(file) : left = SubSeq(file, 1, n)
  BY DEF Survivors
<1>3. n \in Nat /\ n <= Len(file) /\ Len(was) <= n
  BY <1>1, <1>2
<1>4. \A i \in 1 .. n : file[i] \in S
  BY <1>1, <1>3, ElementOfSeq
<1>5. /\ left \in Seq(S) /\ Len(left) = n
      /\ \A i \in 1 .. n : left[i] = file[i]
  <2>1. /\ SubSeq(file, 1, n) \in Seq(S)
        /\ Len(SubSeq(file, 1, n)) = IF 1 <= n THEN n - 1 + 1 ELSE 0
        /\ \A i \in 1 .. n - 1 + 1 : SubSeq(file, 1, n)[i] = file[1 + i - 1]
    BY <1>3, <1>4, SubSeqProperties
  <2> QED
    BY <1>2, <1>3, <2>1
<1> QED
  BY <1>1, <1>3, <1>5 DEF BeginsWith

LEMMA PowerFailsInv == ASSUME IInv, ~EarlyExit, PowerFails PROVE IInv'
<1>1. MayEnd /\ Forget /\ metaFile # NoMeta /\ metaFile' = metaFile
  BY DEF PowerFails, MayEnd
<1>2. indexFile' \in Survivors(indexFile, synced.index) /\ entryFile' \in Survivors(entryFile, synced.entry)
  BY DEF PowerFails
<1>3. /\ indexFile \in Seq(Records) /\ entryFile \in Seq(Blocks)
      /\ BeginsWith(indexFile, synced.index) /\ BeginsWith(entryFile, synced.entry)
  BY DEF IInv, TypeOK, FilesOK
<1>4. /\ indexFile' \in Seq(Records) /\ BeginsWith(indexFile', synced.index) /\ BeginsWith(indexFile', indexFile')
  BY <1>2, <1>3, Sizes, SurvivorFacts
<1>5. /\ entryFile' \in Seq(Blocks) /\ BeginsWith(entryFile', synced.entry) /\ BeginsWith(entryFile', entryFile')
      /\ Len(entryFile') <= Len(entryFile)
  BY <1>2, <1>3, Sizes, SurvivorFacts
<1>6. bestFile' \in Seq(Blocks)
  BY Sizes DEF PowerFails, IInv, TypeOK
<1>7. /\ synced' = [index |-> indexFile', entry |-> entryFile', best |-> bestFile']
      /\ synced' \in [index : Seq(Records), entry : Seq(Blocks), best : Seq(Blocks)]
  BY <1>4, <1>5, <1>6 DEF PowerFails
<1>8. synced'.index = indexFile' /\ synced'.entry = entryFile'
  BY <1>7
<1> QED
  BY <1>1, <1>4, <1>5, <1>6, <1>7, <1>8, ForgetInv

\* What NewFlatStore finds: there is no metadata exactly when it starts empty,
\* and the metadata counts a record or more.
LEMMA Starts ==
  ASSUME IInv, state = "down"
  PROVE  /\ op = Idle /\ Idle.pc = "idle"
         /\ Trimmed.index = <<>> <=> metaFile = NoMeta
         /\ metaFile = NoMeta => indexFile = <<>> /\ entryFile = <<>> /\ Trimmed.entry = <<>>
<1>1. op = Idle /\ Idle.pc = "idle"
  BY DEF IInv, RunningOK, Idle
<1>2. metaFile = NoMeta => indexFile = <<>> /\ entryFile = <<>>
  BY DEF IInv, FlushedOK
<1>3. ASSUME metaFile # NoMeta PROVE Trimmed.index # <<>>
  <2>1. metaFile.indexSize \in Nat /\ metaFile.indexSize \in 1 .. Len(indexFile)
    BY <1>3, CountedIsWritten, Sizes
  <2>2. Len(Cut(indexFile, metaFile.indexSize)) >= 1
    BY <2>1, CutFacts, Sizes DEF IInv, TypeOK
  <2>3. Trimmed.index = Cut(indexFile, metaFile.indexSize)
    BY <1>3 DEF Trimmed
  <2> QED
    BY <2>2, <2>3
<1> QED
  BY <1>1, <1>2, <1>3 DEF Trimmed

LEMMA OpenEmptyInv == ASSUME IInv, OpenEmpty PROVE IInv'
<1> DEFINE r == [index |-> Genesis, offset |-> 1]
<1>1. /\ state = "down" /\ metaFile = NoMeta /\ op = Idle /\ Idle.pc = "idle"
      /\ indexFile = <<>> /\ entryFile = <<>> /\ Trimmed.entry = <<>> /\ state' = "running"
      /\ Trimmed.synced = synced /\ Trimmed.meta.indexSize = 0
      /\ UNCHANGED <<metaFile, op, exits, flushed>>
  BY Starts DEF OpenEmpty, Trimmed
<1>2. entryFile' = <<Genesis>> /\ entryFile' \in Seq(Blocks) /\ Len(entryFile') = 1 /\ entryFile'[1] = Genesis
  BY <1>1, GenesisAssumption DEF OpenEmpty
<1>3. r \in Records /\ r.index = Genesis /\ r.offset = 1
  BY GenesisAssumption DEF Records
<1>4. indexFile' = <<r>> /\ offsets' = Offsets(indexFile') /\ bestFile' = <<Genesis>>
  BY <1>2 DEF OpenEmpty
<1> HIDE DEF r
<1>5. indexFile' \in Seq(Records) /\ Len(indexFile') = 1 /\ indexFile'[1] = r
  BY <1>3, <1>4
<1>6. meta' = [tip |-> Genesis, indexSize |-> 1, entrySize |-> 1]
  BY <1>1, <1>2 DEF OpenEmpty
<1>7. meta' \in Metas /\ meta'.indexSize = 1 /\ meta'.entrySize = 1
  BY <1>6, GenesisAssumption, StoreAssumption DEF Metas
<1>8. /\ DOMAIN offsets' = {indexFile'[i].index : i \in 1 .. 1}
      /\ \A b \in DOMAIN offsets' : \E i \in 1 .. 1 : indexFile'[i].index = b /\ offsets'[b] = indexFile'[i].offset
  BY <1>4, <1>5, OffsetsFacts, ZenonT(30)
<1>9. DOMAIN offsets' = {Genesis} /\ offsets'[Genesis] = 1
  BY <1>3, <1>5, <1>8
<1>10. /\ synced' = [synced EXCEPT !.best = <<>>] /\ base' = Genesis /\ cs' = Genesis
       /\ synced' \in [index : Seq(Records), entry : Seq(Blocks), best : Seq(Blocks)]
       /\ synced'.index = synced.index /\ synced'.entry = synced.entry
  <2>1. synced' = [synced EXCEPT !.best = <<>>] /\ base' = Genesis /\ cs' = Genesis
    BY <1>1 DEF OpenEmpty
  <2>2. synced \in [index : Seq(Records), entry : Seq(Blocks), best : Seq(Blocks)] /\ <<>> \in Seq(Blocks)
    BY DEF IInv, FilesOK
  <2> QED
    BY <2>1, <2>2
<1>11. TypeOK'
  <2>1. bestFile' \in Seq(Blocks)
    BY <1>4, GenesisAssumption
  <2>2. DOMAIN offsets' \subseteq Blocks /\ \A b \in DOMAIN offsets' : offsets'[b] \in Nat
    BY <1>9, GenesisAssumption
  <2>3. synced'.index \in Seq(Records) /\ synced'.entry \in Seq(Blocks) /\ synced'.best \in Seq(Blocks)
    BY <1>10
  <2>4. base' \in Blocks /\ cs' \in Blocks
    BY <1>10, GenesisAssumption
  <2> QED
    BY <1>1, <1>2, <1>5, <1>7, <2>1, <2>2, <2>3, <2>4 DEF IInv, TypeOK
<1>12. FilesOK'
  <2>1. Len(synced.index) = 0 /\ Len(synced.entry) = 0
    BY <1>1, Sizes DEF IInv, FilesOK, BeginsWith
  <2>2. BeginsWith(indexFile', synced'.index) /\ BeginsWith(entryFile', synced'.entry)
    BY <1>2, <1>5, <1>10, <2>1 DEF BeginsWith
  <2> QED
    BY <1>1, <1>2, <1>10, <2>2, StoreAssumption DEF IInv, FilesOK
<1>13. FlushedOK'
  BY <1>1 DEF IInv, FlushedOK
<1>14. CheckpointsReadBack'
  <2>1. DOMAIN entryFile' = 1 .. 1
    BY <1>2
  <2> QED
    BY <1>2, <1>9, <2>1 DEF CheckpointsReadBack
<1>15. RunningOK'
  BY <1>1, <1>2, <1>3, <1>5, <1>7, <1>8 DEF RunningOK, ReadsBack, Indexed
<1> QED
  BY <1>11, <1>12, <1>13, <1>14, <1>15 DEF IInv

\* What is cut is what was counted, and so what was synced.
LEMMA OpenExistingFiles ==
  ASSUME IInv, OpenExisting
  PROVE  /\ metaFile # NoMeta
         /\ metaFile.indexSize \in Nat \ {0} /\ metaFile.entrySize \in Nat
         /\ metaFile.indexSize <= metaFile.entrySize
         /\ indexFile' \in Seq(Records) /\ Len(indexFile') = metaFile.indexSize
         /\ entryFile' \in Seq(Blocks) /\ Len(entryFile') = metaFile.entrySize
         /\ \A i \in 1 .. metaFile.indexSize : indexFile'[i] = indexFile[i]
         /\ \A i \in 1 .. metaFile.entrySize : entryFile'[i] = entryFile[i]
         /\ Len(synced.index)' = metaFile.indexSize /\ Len(synced.entry)' = metaFile.entrySize
         /\ FilesOK'
<1> DEFINE n == metaFile.indexSize
           m == metaFile.entrySize
<1>1. metaFile # NoMeta /\ op' = op
  BY Starts DEF OpenExisting
<1>2. /\ n \in Nat \ {0} /\ m \in Nat /\ n <= m /\ n <= Len(synced.index) /\ m <= Len(synced.entry)
      /\ n <= Len(indexFile) /\ m <= Len(entryFile)
  BY <1>1, CountedIsWritten, Sizes DEF IInv, FlushedOK
<1>3. /\ indexFile \in Seq(Records) /\ entryFile \in Seq(Blocks)
      /\ synced.index \in Seq(Records) /\ synced.entry \in Seq(Blocks)
      /\ synced \in [index : Seq(Records), entry : Seq(Blocks), best : Seq(Blocks)]
      /\ BeginsWith(indexFile, synced.index) /\ BeginsWith(entryFile, synced.entry)
      /\ Len(entryFile) <= MaxEntries
  BY DEF IInv, TypeOK, FilesOK
<1>4. /\ indexFile' = Cut(indexFile, n) /\ entryFile' = Cut(entryFile, m)
      /\ synced' = [synced EXCEPT !.index = Cut(synced.index, n), !.entry = Cut(synced.entry, m)]
  BY <1>1 DEF OpenExisting, Trimmed
<1> HIDE DEF n, m
<1>5. /\ indexFile' \in Seq(Records) /\ Len(indexFile') = n
      /\ \A i \in 1 .. n : indexFile'[i] = indexFile[i]
  <2>1. /\ Cut(indexFile, n) \in Seq(Records) /\ Len(Cut(indexFile, n)) = n
        /\ \A i \in 1 .. n : Cut(indexFile, n)[i] = indexFile[i]
    BY <1>2, <1>3, CutFacts, Sizes
  <2> QED
    BY <1>4, <2>1
<1>6. /\ entryFile' \in Seq(Blocks) /\ Len(entryFile') = m
      /\ \A i \in 1 .. m : entryFile'[i] = entryFile[i]
  <2>1. /\ Cut(entryFile, m) \in Seq(Blocks) /\ Len(Cut(entryFile, m)) = m
        /\ \A i \in 1 .. m : Cut(entryFile, m)[i] = entryFile[i]
    BY <1>2, <1>3, CutFacts, Sizes
  <2> QED
    BY <1>4, <2>1
<1>7. /\ Cut(synced.index, n) \in Seq(Records) /\ Len(Cut(synced.index, n)) = n
      /\ \A i \in 1 .. n : Cut(synced.index, n)[i] = synced.index[i]
  BY <1>2, <1>3, CutFacts, Sizes
<1>8. /\ Cut(synced.entry, m) \in Seq(Blocks) /\ Len(Cut(synced.entry, m)) = m
      /\ \A i \in 1 .. m : Cut(synced.entry, m)[i] = synced.entry[i]
  BY <1>2, <1>3, CutFacts, Sizes
<1>9. /\ synced' \in [index : Seq(Records), entry : Seq(Blocks), best : Seq(Blocks)]
      /\ synced'.index = Cut(synced.index, n) /\ synced'.entry = Cut(synced.entry, m)
  BY <1>3, <1>4, <1>7, <1>8
<1>10. BeginsWith(indexFile', synced'.index)
  <2>1. ASSUME NEW i \in 1 .. n PROVE indexFile'[i] = synced'.index[i]
    <3>1. i \in 1 .. Len(synced.index)
      BY <1>2, Sizes
    <3> QED
      BY <1>3, <1>5, <1>7, <1>9, <3>1 DEF BeginsWith
  <2> QED
    BY <1>2, <1>5, <1>7, <1>9, <2>1, SMTT(30) DEF BeginsWith
<1>11. BeginsWith(entryFile', synced'.entry)
  <2>1. ASSUME NEW i \in 1 .. m PROVE entryFile'[i] = synced'.entry[i]
    <3>1. i \in 1 .. Len(synced.entry)
      BY <1>2, Sizes
    <3> QED
      BY <1>3, <1>6, <1>8, <1>9, <3>1 DEF BeginsWith
  <2> QED
    BY <1>2, <1>6, <1>8, <1>9, <2>1 DEF BeginsWith
<1>12. FilesOK'
  BY <1>1, <1>2, <1>3, <1>6, <1>9, <1>10, <1>11, Sizes DEF IInv, FilesOK
<1> QED
  BY <1>1, <1>2, <1>5, <1>6, <1>7, <1>8, <1>9, <1>12 DEF n, m

\* The tip and the offsets that a start finds.
LEMMA OpensAtMetadata ==
  ASSUME IInv, OpenExisting, state' = "running"
  PROVE  /\ meta' = metaFile /\ cs' = metaFile.tip /\ bestFile # <<>> /\ base' = Head(bestFile)
         /\ offsets' = Offsets(indexFile')
         /\ DOMAIN offsets' = Indexed(metaFile.indexSize)
<1>1. /\ meta' = metaFile /\ cs' = metaFile.tip /\ bestFile # <<>> /\ base' = Head(bestFile)
      /\ offsets' = Offsets(indexFile')
  BY OpenExistingFiles DEF OpenExisting, Trimmed, RecoverFails
<1>2. DOMAIN offsets' = {indexFile'[i].index : i \in 1 .. metaFile.indexSize}
  BY <1>1, OpenExistingFiles, OffsetsFacts
<1> QED
  BY <1>1, <1>2, OpenExistingFiles DEF Indexed

LEMMA OpenExistingInv == ASSUME IInv, OpenExisting PROVE IInv'
<1> DEFINE n == metaFile.indexSize
           m == metaFile.entrySize
<1>1. /\ state = "down" /\ op = Idle /\ Idle.pc = "idle" /\ state' \in {"running", "refused"}
      /\ UNCHANGED <<bestFile, metaFile, op, exits, flushed>>
      /\ state' = "refused" => UNCHANGED <<meta, offsets, base, cs>>
  BY Starts DEF OpenExisting
<1>2. /\ metaFile # NoMeta /\ n \in Nat \ {0} /\ m \in Nat /\ n <= m
      /\ indexFile' \in Seq(Records) /\ Len(indexFile') = n
      /\ entryFile' \in Seq(Blocks) /\ Len(entryFile') = m
      /\ \A i \in 1 .. n : indexFile'[i] = indexFile[i]
      /\ \A i \in 1 .. m : entryFile'[i] = entryFile[i]
      /\ Len(synced.index)' = n /\ Len(synced.entry)' = m /\ FilesOK'
  BY OpenExistingFiles
<1>3. ReadsBack(n, m)'
  <2>1. ReadsBack(n, m)
    BY <1>2 DEF IInv, FlushedOK
  <2> QED
    BY <1>1, <1>2, <2>1 DEF ReadsBack
<1>4. ASSUME state' = "running"
      PROVE  /\ meta' \in Metas /\ meta'.indexSize = n /\ meta'.entrySize = m
             /\ DOMAIN offsets' = Indexed(n)'
             /\ cs' \in Blocks /\ base' \in Blocks
             /\ \A b \in DOMAIN offsets' : \E i \in 1 .. n :
                  indexFile'[i].index = b /\ offsets'[b] = indexFile'[i].offset
  <2>1. /\ meta' = metaFile /\ cs' = metaFile.tip /\ bestFile # <<>> /\ base' = Head(bestFile)
        /\ offsets' = Offsets(indexFile') /\ DOMAIN offsets' = Indexed(n)
    BY <1>4, OpensAtMetadata
  <2>2. metaFile \in Metas /\ metaFile.tip \in Blocks /\ bestFile \in Seq(Blocks)
    BY DEF IInv, TypeOK, Metas
  <2>3. Head(bestFile) \in Blocks
    BY <2>1, <2>2
  <2>4. Indexed(n)' = Indexed(n)
    BY <1>1, <1>2 DEF Indexed
  <2>5. \A b \in DOMAIN offsets' : \E i \in 1 .. n :
           indexFile'[i].index = b /\ offsets'[b] = indexFile'[i].offset
    <3>1. indexFile' \in Seq(Records)
      BY <1>2
    <3>2. \A b \in DOMAIN Offsets(indexFile') : \E i \in 1 .. Len(indexFile') :
             indexFile'[i].index = b /\ Offsets(indexFile')[b] = indexFile'[i].offset
      BY <3>1, OffsetsFacts
    <3> QED
      BY <1>2, <2>1, <3>2
  <2> QED
    BY <2>1, <2>2, <2>3, <2>4, <2>5
<1>5. ASSUME state' = "running", NEW b \in DOMAIN offsets'
      PROVE  b \in Blocks /\ offsets'[b] \in 1 .. m /\ entryFile'[offsets'[b]] = b
  <2>1. PICK i \in 1 .. n : indexFile'[i].index = b /\ offsets'[b] = indexFile'[i].offset
    BY <1>4, <1>5
  <2>2. offsets'[b] \in 1 .. m /\ entryFile'[offsets'[b]] = b
    <3>1. \A k \in 1 .. n : indexFile'[k].offset \in 1 .. m /\ entryFile'[indexFile'[k].offset] = indexFile'[k].index
      BY <1>1, <1>3 DEF ReadsBack
    <3> QED
      BY <2>1, <3>1
  <2>3. b \in Blocks
    <3>1. \A k \in 1 .. m : entryFile'[k] \in Blocks
      BY <1>2, ElementOfSeq
    <3> QED
      BY <2>2, <3>1
  <2> QED
    BY <2>2, <2>3
<1>6. state' = "refused" => DOMAIN offsets' = {}
  BY <1>1 DEF IInv, RunningOK
<1>7. TypeOK'
  <2>1. DOMAIN offsets' \subseteq Blocks /\ \A b \in DOMAIN offsets' : offsets'[b] \in Nat
    BY <1>1, <1>2, <1>5, <1>6
  <2>2. meta' \in Metas /\ base' \in Blocks /\ cs' \in Blocks
    BY <1>1, <1>4 DEF IInv, TypeOK
  <2>3. synced'.index \in Seq(Records) /\ synced'.entry \in Seq(Blocks) /\ synced'.best \in Seq(Blocks)
    BY <1>2 DEF FilesOK
  <2> QED
    BY <1>1, <1>2, <2>1, <2>2, <2>3 DEF IInv, TypeOK
<1>8. FlushedOK'
  BY <1>1, <1>2, FlushedStays
<1>9. CheckpointsReadBack'
  <2>1. DOMAIN entryFile' = 1 .. m
    BY <1>2
  <2> QED
    BY <1>1, <1>5, <1>6, <2>1 DEF CheckpointsReadBack
<1>10. RunningOK'
  <2>1. CASE state' = "running"
    BY <1>1, <1>2, <1>3, <1>4, <2>1 DEF RunningOK
  <2>2. CASE state' = "refused"
    BY <1>1, <1>6, <2>2 DEF RunningOK
  <2> QED
    BY <1>1, <2>1, <2>2
<1> QED
  BY <1>2, <1>7, <1>8, <1>9, <1>10 DEF IInv

-----------------------------------------------------------------------------
(* The theorems.                                                           *)

LEMMA InitInv == ASSUME Init PROVE IInv
<1>1. /\ indexFile = <<>> /\ entryFile = <<>> /\ bestFile = <<>> /\ metaFile = NoMeta
      /\ synced = [index |-> <<>>, entry |-> <<>>, best |-> <<>>]
      /\ state = "down" /\ op = Idle /\ meta = NoMeta /\ offsets = <<>> /\ base = Genesis /\ cs = Genesis
      /\ exits = 0 /\ flushed = [tip |-> Genesis, blocks |-> {}]
  BY DEF Init
<1>2. DOMAIN offsets = {} /\ Len(<<>>) = 0
  BY <1>1
<1>3. NoMeta \in Metas
  BY GenesisAssumption, StoreAssumption DEF NoMeta, Metas
<1>4. Idle.pc = "idle" /\ Idle.b \in Blocks /\ Idle \in [pc : {"idle", "index", "entry", "best", "rename"}, b : Blocks]
  BY GenesisAssumption DEF Idle
<1>5. TypeOK
  <2>1. exits \in 0 .. MaxExits
    BY <1>1, StoreAssumption
  <2> QED
    BY <1>1, <1>2, <1>3, <1>4, <2>1, GenesisAssumption DEF TypeOK
<1>6. FilesOK
  BY <1>1, <1>2, <1>4, StoreAssumption DEF FilesOK, BeginsWith
<1> QED
  BY <1>1, <1>2, <1>5, <1>6 DEF IInv, CheckpointsReadBack, FlushedOK, RunningOK

LEMMA NextInv == ASSUME IInv, ~EarlyExit, Next PROVE IInv'
<1>1. ASSUME NEW b \in Blocks, WriteEntry(b) PROVE IInv'
  BY <1>1, WriteEntryInv
<1>2. ASSUME NEW b \in Blocks, ExtendBest(b) PROVE IInv'
  BY <1>2, ExtendBestInv
<1>3. CASE WriteIndex
  BY <1>3, WriteIndexInv
<1>4. CASE RewindBest
  BY <1>4, RewindBestInv
<1>5. CASE StartFlush \/ SyncEntry \/ SyncBest
  BY <1>5, SyncInv
<1>6. CASE RenameMeta
  BY <1>6, RenameMetaInv
<1>7. CASE ProcessEnds
  BY <1>7, ProcessEndsInv
<1>8. CASE PowerFails
  BY <1>8, PowerFailsInv
<1>9. CASE OpenEmpty
  BY <1>9, OpenEmptyInv
<1>10. CASE OpenExisting
  BY <1>10, OpenExistingInv
<1> QED
  BY <1>1, <1>2, <1>3, <1>4, <1>5, <1>6, <1>7, <1>8, <1>9, <1>10 DEF Next

\* The inductive invariant is one.  A process that ends before it has ever
\* flushed leaves records that no metadata counts, and a start that makes its
\* sizes up: the hypothesis is that the first Flush comes first.
THEOREM StoreInductive == ASSUME ~EarlyExit PROVE Spec => []IInv
<1>1. IInv /\ [Next]_vars => IInv'
  <2>1. ASSUME IInv, UNCHANGED vars PROVE IInv'
    BY <2>1 DEF vars, files, memory, IInv, TypeOK, CheckpointsReadBack, FilesOK, FlushedOK, RunningOK,
                BeginsWith, ReadsBack, Indexed
  <2> QED
    BY <2>1, NextInv
<1> QED
  BY <1>1, InitInv, PTL DEF Spec

\* Every block that the store has an offset of reads back as itself, and the
\* sizes that AddCheckpoint and NewFlatStore keep are those of the files,
\* through every exit, power loss and start.
THEOREM StoreReadsBack == ASSUME ~EarlyExit PROVE Spec => []StoreInv
<1>1. IInv => StoreInv
  <2>1. ASSUME IInv PROVE SizesCoverFiles
    BY <2>1 DEF IInv, RunningOK, SizesCoverFiles
  <2> QED
    BY <2>1 DEF IInv, StoreInv
<1> QED
  BY <1>1, StoreInductive, PTL

\* NewFlatStore starts at the tip that the last complete Flush committed, with
\* every block that was stored by then, whatever part of a later Flush or of an
\* AddCheckpoint the exit or the power loss has cut off.
THEOREM StoreSurvives == ASSUME ~EarlyExit PROVE Spec => FlushedSurvives
<1>1. ASSUME IInv, Next, state = "down", state' = "running"
      PROVE  cs' = flushed.tip /\ flushed.blocks \subseteq DOMAIN offsets'
  <2>1. OpenEmpty \/ OpenExisting
    BY <1>1 DEF Next, WriteEntry, ExtendBest, WriteIndex, RewindBest, StartFlush, SyncEntry, SyncBest, RenameMeta,
                ProcessEnds, PowerFails, MayEnd, Ready
  <2>2. CASE OpenEmpty
    <3>1. metaFile = NoMeta /\ cs' = Genesis
      BY <1>1, <2>2, Starts DEF OpenEmpty
    <3> QED
      BY <1>1, <3>1 DEF IInv, FlushedOK
  <2>3. CASE OpenExisting
    <3>1. metaFile # NoMeta /\ cs' = metaFile.tip /\ DOMAIN offsets' = Indexed(metaFile.indexSize)
      BY <1>1, <2>3, OpensAtMetadata, OpenExistingFiles
    <3> QED
      BY <1>1, <3>1 DEF IInv, FlushedOK
  <2> QED
    BY <2>1, <2>2, <2>3
<1>2. IInv /\ [Next]_vars =>
        [state = "down" /\ state' = "running" => cs' = flushed.tip /\ flushed.blocks \subseteq DOMAIN offsets']_vars
  BY <1>1
<1> QED
  BY <1>2, StoreInductive, PTL DEF Spec, FlushedSurvives
=============================================================================
