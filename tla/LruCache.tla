------------------------------ MODULE LruCache ------------------------------
(* What the caches of Nuclex::Support::Collections promise: entries in the  *)
(* order of their last use, of which the oldest ones go first.              *)
EXTENDS Integers, Sequences, SequencesExt

CONSTANTS Key, Value, Capacity

VARIABLE entries   \* [key, value] records, the least recently used one first

Init == entries = <<>>

Matches(key) == {i \in DOMAIN entries : entries[i].key = key}

(* A new entry; the oldest one makes room for it. *)
Store(key, value) ==
  entries' = Append(IF Len(entries) = Capacity THEN Tail(entries) ELSE entries,
                    [key |-> key, value |-> value])

(* An entry is looked up, or overwritten, and becomes the youngest one. *)
Use(key, value) ==
  \E i \in Matches(key) :
    entries' = Append(RemoveAt(entries, i), [key |-> key, value |-> value])

LookUp(key) == \E i \in Matches(key) : Use(key, entries[i].value)

(* Removed or evicted by a policy: some entries are kept, in their order. *)
Keep(places) ==
  \E n \in 0..Len(entries) : \E place \in [1..n -> places] :
    /\ {place[i] : i \in 1..n} = places
    /\ \A i, j \in 1..n : i < j => place[i] < place[j]
    /\ entries' = [i \in 1..n |-> entries[place[i]]]

Delete(key) == Keep({i \in DOMAIN entries : entries[i].key # key})
EvictWhere(values) == Keep({i \in DOMAIN entries : entries[i].value \notin values})

(* Taken out, or the oldest ones evicted; to clear a cache evicts them all. *)
Take(key) == \E i \in Matches(key) : entries' = RemoveAt(entries, i)
EvictDownTo(count) ==
  count < Len(entries) /\
  entries' = SubSeq(entries, Len(entries) - count + 1, Len(entries))

Next ==
  \/ \E key \in Key : LookUp(key) \/ Take(key) \/ Delete(key)
  \/ \E key \in Key, value \in Value : Store(key, value) \/ Use(key, value)
  \/ \E values \in SUBSET Value : EvictWhere(values)
  \/ \E count \in 0..Capacity : EvictDownTo(count)

Spec == Init /\ [][Next]_entries
=============================================================================
