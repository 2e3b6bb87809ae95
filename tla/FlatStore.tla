------------------------------ MODULE FlatStore ------------------------------
(***************************************************************************)
(* chainutil.FlatStore: the persistent ManagerStore, through process exits *)
(* and power losses.                                                       *)
(*                                                                         *)
(* Three append-only files, index.dat, entry.dat and best.dat, are made    *)
(* durable by Flush, which then replaces meta.dat; NewFlatStore trims the  *)
(* first two to the sizes meta.dat records.  A file is the sequence of its *)
(* records: an offset is a position in entry.dat and a size is a length.   *)
(* A record is written in one piece, except that an entry is written       *)
(* before the index record that refers to it.                              *)
(*                                                                         *)
(* The store is driven by a chain.Manager, of which only the tip (cs) is   *)
(* kept: it adds blocks to stored parents and extends and rewinds its tip. *)
(***************************************************************************)
EXTENDS BlockTree, FiniteSets

CONSTANTS
  EarlyExit,  \* may the process end before it has ever flushed?
  PowerLoss,  \* may the machine lose power?
  MaxEntries, \* bound: records in entry.dat
  MaxExits    \* bound: times the process ends

ASSUME StoreAssumption ==
  EarlyExit \in BOOLEAN /\ PowerLoss \in BOOLEAN /\ MaxEntries \in Nat \ {0} /\ MaxExits \in Nat

VARIABLES
  indexFile, entryFile, bestFile,  \* the files as the process sees them
  metaFile,   \* meta.dat, or NoMeta
  synced,     \* what a power loss cannot take from the files
  state,      \* the process: down, running, or refused by NewFlatStore
  op,         \* how far AddCheckpoint or Flush is
  meta,       \* fs.meta
  offsets,    \* fs.offsets
  base,       \* fs.base: what best.dat starts with
  cs,         \* the Manager's tip
  exits,      \* the times the process has ended
  flushed     \* history: the tip and blocks of the last complete Flush

files  == <<indexFile, entryFile, bestFile, metaFile, synced>>
memory == <<meta, offsets, base, cs>>
vars   == <<files, state, op, memory, exits, flushed>>

NoMeta  == [tip |-> Genesis, indexSize |-> -1, entrySize |-> -1]
Metas   == [tip : Blocks, indexSize : -1 .. MaxEntries, entrySize : -1 .. MaxEntries]
Records == [index : Blocks, offset : Nat]

Idle == [pc |-> "idle", b |-> Genesis]

Init ==
  /\ indexFile = <<>> /\ entryFile = <<>> /\ bestFile = <<>> /\ metaFile = NoMeta
  /\ synced = [index |-> <<>>, entry |-> <<>>, best |-> <<>>]
  /\ state = "down" /\ op = Idle
  /\ meta = NoMeta /\ offsets = <<>> /\ base = Genesis /\ cs = Genesis
  /\ exits = 0
  /\ flushed = [tip |-> Genesis, blocks |-> {}]

Ready == state = "running" /\ op.pc = "idle"

-----------------------------------------------------------------------------
(* AddCheckpoint, ExtendBest and RewindBest, as the Manager calls them.    *)

\* Checkpoint(b) succeeds, or Manager and callers see ErrUnknownIndex.
Stored(b) == b \in DOMAIN offsets

\* AddCheckpoint begins: the entry goes to the end of the entry file.
WriteEntry(b) ==
  /\ Ready
  /\ b \in Children /\ Stored(Parent[b])
  /\ Len(entryFile) < MaxEntries
  /\ entryFile' = Append(entryFile, b)
  /\ op' = [pc |-> "index", b |-> b]
  /\ UNCHANGED <<indexFile, bestFile, metaFile, synced, state, memory, exits, flushed>>

\* (mutated: the index record is counted twice)
WriteIndex_CountedTwice ==
  /\ state = "running" /\ op.pc = "index"
  /\ LET offset == Len(entryFile) IN
     /\ indexFile' = Append(indexFile, [index |-> op.b, offset |-> offset])
     /\ offsets' = [b \in DOMAIN offsets \cup {op.b} |-> IF b = op.b THEN offset ELSE offsets[b]]
  /\ meta' = [meta EXCEPT !.entrySize = Len(entryFile), !.indexSize = @ + 2]
  /\ op' = Idle
  /\ UNCHANGED <<entryFile, bestFile, metaFile, synced, state, base, cs, exits, flushed>>

\* AddCheckpoint ends: a block that is added again has a new entry.
WriteIndex ==
  /\ state = "running" /\ op.pc = "index"
  /\ LET offset == Len(entryFile) IN
     /\ indexFile' = Append(indexFile, [index |-> op.b, offset |-> offset])
     /\ offsets' = [b \in DOMAIN offsets \cup {op.b} |-> IF b = op.b THEN offset ELSE offsets[b]]
  /\ meta' = [meta EXCEPT !.entrySize = Len(entryFile), !.indexSize = @ + 1]
  /\ op' = Idle
  /\ UNCHANGED <<entryFile, bestFile, metaFile, synced, state, base, cs, exits, flushed>>

ExtendBest(b) ==
  /\ Ready
  /\ b \in Children /\ Stored(b) /\ Parent[b] = cs
  /\ bestFile' = Append(bestFile, b)
  /\ meta' = [meta EXCEPT !.tip = b]
  /\ cs' = b
  /\ UNCHANGED <<indexFile, entryFile, metaFile, synced, state, op, offsets, base, exits, flushed>>

\* BestIndex(height) is ErrPruned below the base, and ErrUnknownIndex past
\* the end of the file.
HasBest(h)   == Height(base) <= h /\ h - Height(base) < Len(bestFile)
BestIndex(h) == bestFile[h - Height(base) + 1]

RewindBest ==
  /\ Ready
  /\ cs # Genesis /\ HasBest(Height(meta.tip) - 1)
  /\ bestFile' = SubSeq(bestFile, 1, Len(bestFile) - 1)
  /\ meta' = [meta EXCEPT !.tip = BestIndex(Height(meta.tip) - 1)]
  /\ cs' = Parent[cs]
  /\ UNCHANGED <<indexFile, entryFile, metaFile, synced, state, op, offsets, base, exits, flushed>>

-----------------------------------------------------------------------------
(* Flush: index.dat, entry.dat and best.dat are synced in turn, and only   *)
(* then is meta.dat replaced, by a rename that is taken to be durable (the *)
(* code's TODO about syncing the parent directory is not modelled).        *)

\* (mutated: the metadata is replaced before the files are synced)
StartFlush_MetaFirst ==
  /\ Ready
  /\ metaFile' = meta
  /\ flushed' = [tip |-> meta.tip, blocks |-> DOMAIN offsets]
  /\ op' = [Idle EXCEPT !.pc = "entry"]
  /\ UNCHANGED <<indexFile, entryFile, bestFile, synced, state, memory, exits>>

StartFlush ==
  /\ Ready
  /\ synced' = [synced EXCEPT !.index = indexFile]
  /\ op' = [Idle EXCEPT !.pc = "entry"]
  /\ UNCHANGED <<indexFile, entryFile, bestFile, metaFile, state, memory, exits, flushed>>

SyncEntry ==
  /\ state = "running" /\ op.pc = "entry"
  /\ synced' = [synced EXCEPT !.entry = entryFile]
  /\ op' = [Idle EXCEPT !.pc = "best"]
  /\ UNCHANGED <<indexFile, entryFile, bestFile, metaFile, state, memory, exits, flushed>>

SyncBest ==
  /\ state = "running" /\ op.pc = "best"
  /\ synced' = [synced EXCEPT !.best = bestFile]
  /\ op' = [Idle EXCEPT !.pc = "rename"]
  /\ UNCHANGED <<indexFile, entryFile, bestFile, metaFile, state, memory, exits, flushed>>

RenameMeta ==
  /\ state = "running" /\ op.pc = "rename"
  /\ metaFile' = meta
  /\ flushed' = [tip |-> meta.tip, blocks |-> DOMAIN offsets]
  /\ op' = Idle
  /\ UNCHANGED <<indexFile, entryFile, bestFile, synced, state, memory, exits>>

-----------------------------------------------------------------------------
(* The process ends: Close flushes nothing, so it leaves what a kill does. *)

MayEnd == state = "running" /\ exits < MaxExits /\ (EarlyExit \/ metaFile # NoMeta)

Forget ==
  /\ state' = "down" /\ op' = Idle
  /\ meta' = NoMeta /\ offsets' = <<>> /\ base' = Genesis /\ cs' = Genesis
  /\ exits' = exits + 1
  /\ UNCHANGED flushed

\* Close, or a kill: the operating system keeps what was written.
ProcessEnds ==
  /\ MayEnd
  /\ Forget
  /\ UNCHANGED files

\* An append-only file keeps some of what was appended since it was synced;
\* best.dat, which RewindBest also truncates, its old or its new content.
Survivors(file, was) == {SubSeq(file, 1, n) : n \in Len(was) .. Len(file)}

PowerFails ==
  /\ PowerLoss /\ MayEnd
  /\ indexFile' \in Survivors(indexFile, synced.index)
  /\ entryFile' \in Survivors(entryFile, synced.entry)
  /\ bestFile' \in {bestFile, synced.best}
  /\ synced' = [index |-> indexFile', entry |-> entryFile', best |-> bestFile']
  /\ Forget
  /\ UNCHANGED metaFile

-----------------------------------------------------------------------------
(* NewFlatStore.                                                           *)

\* (mutated: the metadata is not used to trim the files)
Trimmed_Not ==
  [index |-> indexFile, entry |-> entryFile, synced |-> synced,
   meta  |-> IF metaFile = NoMeta
             THEN [tip |-> Genesis, indexSize |-> 0, entrySize |-> 0] ELSE metaFile]

\* index.dat and entry.dat are cut to the sizes in the metadata; when there
\* is none they are left as they are, and the sizes start from zero.  (The
\* sizes are synced before the metadata, so no file is shorter than that.)
Cut(file, size) == SubSeq(file, 1, IF size < Len(file) THEN size ELSE Len(file))
Trimmed ==
  IF metaFile = NoMeta
  THEN [index  |-> indexFile, entry |-> entryFile, synced |-> synced,
        meta   |-> [tip |-> Genesis, indexSize |-> 0, entrySize |-> 0]]
  ELSE [index  |-> Cut(indexFile, metaFile.indexSize),
        entry  |-> Cut(entryFile, metaFile.entrySize),
        synced |-> [synced EXCEPT !.index = Cut(@, metaFile.indexSize),
                                  !.entry = Cut(@, metaFile.entrySize)],
        meta   |-> metaFile]

\* The offsets that index records give, the last record of a block winning.
Offsets(index) ==
  [b \in {index[i].index : i \in DOMAIN index} |->
     index[CHOOSE i \in DOMAIN index : /\ index[i].index = b
                                       /\ \A j \in i + 1 .. Len(index) : index[j].index # b].offset]

\* recoverBest follows the parents of the tip down to the first height that
\* best.dat has an index for, and returns there, whatever that index is.  It
\* fails if best.dat is empty or starts above the tip, or if it misses the
\* header of one of the blocks on its way.
RecoverFails(tip, stored) ==
  \/ bestFile = <<>>
  \/ Height(tip) < Height(Head(bestFile))
  \/ \E h \in Height(Head(bestFile)) + Len(bestFile) .. Height(tip) : IndexAt(tip, h) \notin stored

\* NewFlatStore on an empty store: best.dat is wiped, the base is written.
OpenEmpty ==
  /\ state = "down" /\ Trimmed.index = <<>>
  /\ entryFile' = Append(Trimmed.entry, Genesis)
  /\ indexFile' = <<[index |-> Genesis, offset |-> Len(entryFile')]>>
  /\ bestFile' = <<Genesis>>
  /\ synced' = [Trimmed.synced EXCEPT !.best = <<>>]
  /\ meta' = [tip |-> Genesis, indexSize |-> Trimmed.meta.indexSize + 1, entrySize |-> Len(entryFile')]
  /\ offsets' = Offsets(indexFile')
  /\ base' = Genesis /\ cs' = Genesis
  /\ state' = "running"
  /\ UNCHANGED <<metaFile, op, exits, flushed>>

\* NewFlatStore on what is on disk: the Manager starts from the tip of the
\* metadata.  recoverBest changes nothing in best.dat.
OpenExisting ==
  /\ state = "down" /\ Trimmed.index # <<>>
  /\ LET tip    == Trimmed.meta.tip
         stored == Offsets(Trimmed.index)
         opened == ~RecoverFails(tip, DOMAIN stored) /\ tip \in DOMAIN stored
     IN  /\ indexFile' = Trimmed.index /\ entryFile' = Trimmed.entry /\ synced' = Trimmed.synced
         /\ state'   = IF opened THEN "running" ELSE "refused"
         /\ meta'    = IF opened THEN Trimmed.meta ELSE meta
         /\ offsets' = IF opened THEN stored ELSE offsets
         /\ base'    = IF opened THEN Head(bestFile) ELSE base
         /\ cs'      = IF opened THEN tip ELSE cs
  /\ UNCHANGED <<bestFile, metaFile, op, exits, flushed>>

-----------------------------------------------------------------------------
Next ==
  \/ \E b \in Blocks : WriteEntry(b) \/ ExtendBest(b)
  \/ WriteIndex \/ RewindBest
  \/ StartFlush \/ SyncEntry \/ SyncBest \/ RenameMeta
  \/ ProcessEnds \/ PowerFails
  \/ OpenEmpty \/ OpenExisting

Spec == Init /\ [][Next]_vars
-----------------------------------------------------------------------------
(* Properties.                                                             *)

TypeOK ==
  /\ indexFile \in Seq(Records) /\ entryFile \in Seq(Blocks) /\ bestFile \in Seq(Blocks)
  /\ metaFile \in Metas
  /\ synced.index \in Seq(Records) /\ synced.entry \in Seq(Blocks) /\ synced.best \in Seq(Blocks)
  /\ state \in {"down", "running", "refused"}
  /\ op.pc \in {"idle", "index", "entry", "best", "rename"} /\ op.b \in Blocks
  /\ meta \in Metas
  /\ DOMAIN offsets \subseteq Blocks /\ \A b \in DOMAIN offsets : offsets[b] \in Nat
  /\ base \in Blocks /\ cs \in Blocks
  /\ exits \in 0 .. MaxExits
  /\ flushed \in [tip : Blocks, blocks : SUBSET Blocks]

\* "Checkpoint(index)": whatever was half written, trimmed or written twice,
\* the entry an offset leads to is the block's own.
CheckpointsReadBack ==
  \A b \in DOMAIN offsets : offsets[b] \in DOMAIN entryFile /\ entryFile[offsets[b]] = b

\* "A ManagerStore durably commits Manager-related data": whatever happens
\* after a Flush, even half of another one, the next start is at the tip that
\* was flushed last, with every block that was stored by then.
FlushedSurvives ==
  [][state = "down" /\ state' = "running" =>
       cs' = flushed.tip /\ flushed.blocks \subseteq DOMAIN offsets']_vars

\* Flushing what was opened loses nothing: while the process runs, the sizes
\* it would flush cover every block it has.
SizesCoverFiles ==
  state = "running" /\ op.pc # "index" =>
    meta.indexSize = Len(indexFile) /\ meta.entrySize = Len(entryFile)

\* Whatever exits, power losses and restarts came before, the store's types, its
\* sizes and its offsets fit its files.
StoreInv == TypeOK /\ CheckpointsReadBack /\ SizesCoverFiles

-----------------------------------------------------------------------------
(* What the code's comments and tests say and TLC refutes, without power   *)
(* loss as well.  With EarlyExit the properties above are refuted, too.    *)

\* "recover best chain by reading parents of tip": after a start, as before
\* it, best.dat holds the chain of the Manager's tip.
BestIsTipChain == Ready => bestFile = ChainOf[cs]

\* "reload fs; should recover to last good state": the store can be opened
\* again after its process ended.
OpensAgain == state # "refused"
=============================================================================
