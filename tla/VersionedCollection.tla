------------------------- MODULE VersionedCollection -------------------------
(***************************************************************************)
(* The sequenced collection behind a directory of the daemon:              *)
(* directory-sync/internal/versioned-collection.ts.  Every change of an    *)
(* entry gets the next number; only the latest value of an entry is kept,  *)
(* and a bounded number of tombstones of removed ones.  A reader who knows *)
(* everything up to some number asks for the rest.                         *)
(*                                                                         *)
(* One write is replace or remove for one entry, replaceAll for all.       *)
(***************************************************************************)
EXTENDS Integers, FiniteSets

CONSTANTS Ids, Values,
          Gone,          \* not in the collection
          MaxTombstones  \* tombstones kept (5000 in the code)

ASSUME CollectionAssumption ==
    /\ IsFiniteSet(Ids) /\ Gone \notin Values
    /\ MaxTombstones \in Nat \ {0}

VARIABLES
    values,   \* the entries
    seqs,     \* the number of an entry or of its tombstone; 0 when there is neither
    expired,  \* expiredThroughSeq: the last number whose tombstone was dropped
    headSeq,  \* the last number given
    contents  \* the entries after each number (history)

collectionVars == <<values, seqs, expired, headSeq, contents>>

Entries == [Ids -> Values \cup {Gone}]
NoEntries == [id \in Ids |-> Gone]

CollectionInit ==
    /\ values = NoEntries
    /\ seqs = [id \in Ids |-> 0]
    /\ expired = 0 /\ headSeq = 0
    /\ contents = [s \in 0..0 |-> NoEntries]

-----------------------------------------------------------------------------
\* replace and remove tell an unchanged entry and return null
Changed(updates) == {id \in DOMAIN updates : updates[id] # values[id]}

\* The numbers a write gives out: replaceAll removes after it has replaced
Orders(updates) ==
    LET changed == Changed(updates)
        last    == headSeq + Cardinality(changed)
    IN {order \in [changed -> headSeq + 1..last] :
           \A i, j \in changed :
              /\ i # j => order[i] # order[j]
              /\ updates[i] # Gone /\ updates[j] = Gone => order[i] < order[j]}

\* The tombstones trimTombstones drops: the oldest ones
Surplus(vals, numbers) ==
    LET tombs == {id \in Ids : vals[id] = Gone /\ numbers[id] # 0}
    IN {id \in tombs : Cardinality({j \in tombs : numbers[j] > numbers[id]}) >= MaxTombstones}

Numbered(updates, order) ==
    [id \in Ids |-> IF id \in Changed(updates) THEN order[id] ELSE seqs[id]]

Write(updates) ==
    \E order \in Orders(updates) :
      LET numbers == Numbered(updates, order)
          dropped == {numbers[id] : id \in Surplus(values', numbers)} \cup {expired}
      IN /\ values' = [id \in Ids |-> IF id \in Changed(updates) THEN updates[id] ELSE values[id]]
         /\ seqs' = [id \in Ids |-> IF id \in Surplus(values', numbers) THEN 0 ELSE numbers[id]]
         /\ headSeq' = headSeq + Cardinality(Changed(updates))
         /\ expired' \in {s \in dropped : \A r \in dropped : r <= s}
         /\ contents' = [s \in 0..headSeq' |->
               IF s <= headSeq THEN contents[s]
               ELSE [id \in Ids |-> IF id \in Changed(updates) /\ order[id] <= s
                                    THEN updates[id] ELSE values[id]]]

\* A new daemon starts an empty collection under a new generation
Forget ==
    /\ values' = NoEntries /\ seqs' = [id \in Ids |-> 0]
    /\ expired' = 0 /\ headSeq' = 0
    /\ contents' = [s \in 0..0 |-> NoEntries]

-----------------------------------------------------------------------------
(***************************************************************************)
(* Reading: the changes after a number, or the whole collection when the   *)
(* number is too old.  A reader without a number passes -1.                *)
(***************************************************************************)
\* Mutant: the tombstone right after the number may be gone
KnownWithGap(afterSeq) == expired <= afterSeq + 1 /\ afterSeq <= headSeq

Known(afterSeq) == expired <= afterSeq /\ afterSeq <= headSeq

ReadAfter(afterSeq) ==
    [mode     |-> IF Known(afterSeq) THEN "changes" ELSE "snapshot",
     entries  |-> {id \in Ids : values[id] # Gone /\ (Known(afterSeq) => seqs[id] > afterSeq)},
     removals |-> {id \in Ids : values[id] = Gone /\ Known(afterSeq) /\ seqs[id] > afterSeq},
     values   |-> values,
     headSeq  |-> headSeq]

\* What the reader makes of it (applyWorkspaceSnapshotPage): values counts for entries only
Caught(base, read) ==
    [id \in Ids |->
        IF id \in read.removals \/ (read.mode = "snapshot" /\ id \notin read.entries) THEN Gone
        ELSE IF id \in read.entries THEN read.values[id] ELSE base[id]]

CollectionNext ==
    \/ \E scope \in SUBSET Ids : \E updates \in [scope -> Values \cup {Gone}] : Write(updates)
    \/ Forget

CollectionSpec == CollectionInit /\ [][CollectionNext]_collectionVars

-----------------------------------------------------------------------------
(***************************************************************************)
(* A reader who had the collection as it was at a number has it as it is   *)
(* after one read, whatever was replaced, removed and forgotten since.     *)
(***************************************************************************)
CatchUpIsExact ==
    \A s \in 0..headSeq : Caught(contents[s], ReadAfter(s)) = values
==============================================================================
