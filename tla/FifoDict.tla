------------------------------- MODULE FifoDict -------------------------------
(***************************************************************************)
(* A Python dict as main.py uses its module-level ones (_proof_cache,      *)
(* _rate_buckets, _verify_rate_buckets): a mapping whose iteration order   *)
(* is insertion order, evicted first in, first out.  It is the sequence of *)
(* its entries, oldest first.  Storing under a key already present keeps   *)
(* the entry's place; deleting a key and storing it again moves it last.   *)
(***************************************************************************)
EXTENDS Integers, Sequences
SequenceOps == INSTANCE SequencesExt

Keys(d) == {d[i].key : i \in DOMAIN d}

Slot(d, k) == CHOOSE i \in DOMAIN d : d[i].key = k

Value(d, k) == d[Slot(d, k)].value

Oldest(d) == d[1].key

Store(d, k, v) ==
  LET entry == [key |-> k, value |-> v]
  IN  IF k \in Keys(d) THEN [d EXCEPT ![Slot(d, k)] = entry]
                       ELSE Append(d, entry)

Delete(d, k) == SequenceOps!RemoveAt(d, Slot(d, k))
===============================================================================
