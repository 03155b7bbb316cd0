------------------------------ MODULE IclHash ------------------------------
(***************************************************************************)
(* The operations of lez7/es7/icl_hash.c that the programs use: a table of *)
(* buckets, each the list of its entries, newest first.  An entry is the   *)
(* pointer that is at the same time its key and its data; two keys are     *)
(* equal when the strings they point to are (string_compare).              *)
(***************************************************************************)
EXTENDS Integers, Sequences, SequencesExt

CONSTANTS NBUCKETS,     \* the number of buckets
          hash,         \* hash_function: a natural number for every string
          String(_)     \* the string that a key points to

buckets == 0 .. NBUCKETS - 1

icl_hash_create == [b \in buckets |-> <<>>]

bucket(key) == hash[String(key)] % NBUCKETS

\* Fault: only the first entry of the bucket is compared.
find_first(ht, key) ==
    /\ ht[bucket(key)] # <<>>
    /\ String(Head(ht[bucket(key)])) = String(key)

\* Whether icl_hash_find returns an entry.
icl_hash_find(ht, key) ==
    \E k \in DOMAIN ht[bucket(key)] : String(ht[bucket(key)][k]) = String(key)

\* The table after icl_hash_insert; an equal key is refused.
icl_hash_insert(ht, key) ==
    IF icl_hash_find(ht, key) THEN ht
    ELSE [ht EXCEPT ![bucket(key)] = <<key>> \o @]

\* The entries in the order of icl_hash_foreach.
icl_hash_foreach(ht) == FlattenSeq([b \in 1 .. NBUCKETS |-> ht[b - 1]])
=============================================================================
