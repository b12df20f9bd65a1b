---------------------------- MODULE StreamBuffer ----------------------------
(* The per-router live buffer of stream-buffer.ts: a sequence of database ids, *)
(* newest push first.  The other columns of a row play no part in what the     *)
(* buffer keeps, so a row is its id.                                           *)
EXTENDS Integers, SequencesExt

CONSTANT BufferMax     \* MAX, the rows kept for one router

ASSUME BufferMaxAssumption == BufferMax \in Nat \ {0}

CappedLate(rows) ==
    SubSeq(rows, 1, IF Len(rows) > BufferMax + 1 THEN BufferMax ELSE Len(rows))
Capped(rows) == SubSeq(rows, 1, IF Len(rows) > BufferMax THEN BufferMax ELSE Len(rows))

\* A row already at the head is not pushed again; no other position is looked at.
Pushed(cur, id) ==
    IF cur # <<>> /\ Head(cur) = id THEN cur ELSE Capped(<<id>> \o cur)

\* Rows read from the database fill an empty buffer only.
Seeded(cur, rows) == IF rows = <<>> \/ cur # <<>> THEN cur ELSE Capped(rows)

\* filter, by a set of ids: the fold, unlike SelectSeq, is a definition that can be
\* reasoned from.
Among(ids, S) == FoldLeft(LAMBDA kept, id : IF id \in S THEN Append(kept, id) ELSE kept, <<>>, ids)

\* afterId 0 stands for "no afterId".
ReadAfter(cur, afterId) ==
    IF afterId = 0 THEN cur ELSE Among(cur, {id \in ToSet(cur) : id > afterId})
=============================================================================
