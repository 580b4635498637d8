------------------------------ MODULE KeyValue ------------------------------
(***************************************************************************)
(* The key-value backends of li-storage: a table of records in the order   *)
(* of their keys, which are strings of digits, and atomic batches.  Both   *)
(* the memory backend and RocksDB behave so; there is one column family.   *)
(***************************************************************************)
EXTENDS Indexes, Integers, Sequences, FiniteSets

CONSTANTS
    Radix,   \* the values of a digit: 256 of a byte
    Digits   \* the digits of a version: 8 bytes of a u64

ASSUME KeyValueAssumption == Radix \in Nat \ {0, 1} /\ Digits \in Nat \ {0}

Put(key, value) == [kind |-> "Put", key |-> key, value |-> value]

(* apply_transaction, when it succeeds: all of the batch, in its order, so *)
(* that the last operation on a key decides.                               *)
ApplyTransaction(table, batch) ==
    LET touched == {batch[i].key : i \in DOMAIN batch}
        Last(k) == batch[Greatest({i \in DOMAIN batch : batch[i].key = k})]
        put == {k \in touched : Last(k).kind = "Put"}
    IN  [k \in (DOMAIN table \ touched) \cup put |->
            IF k \in put THEN Last(k).value ELSE table[k]]

\* The order of Vec<u8>, and of RocksDB's default comparator.
KeyBefore(a, b) ==
    \E n \in DOMAIN b :
        /\ \A m \in 1..(n - 1) : m \in DOMAIN a /\ a[m] = b[m]
        /\ n \in DOMAIN a => a[n] < b[n]

LedgerPrefix == <<0>>   \* "txn/"

Prefixed(key) == Len(key) >= 1 /\ key[1] = LedgerPrefix[1]

\* The keys there can be under the prefix, and the order of BTreeMap.
LedgerKeys == {LedgerPrefix \o d : d \in [1..Digits -> 0..(Radix - 1)]}
KeyRank == [k \in LedgerKeys |-> Cardinality({j \in LedgerKeys : KeyBefore(j, k)})]

(* prefix_scan for the ledger's prefix: the records in the order of their  *)
(* keys, the nth having n - 1 others before it.                            *)
PrefixScan(table) ==
    LET keys == DOMAIN table \cap LedgerKeys
        ranks == {KeyRank[k] : k \in keys}
        At(n) == CHOOSE k \in keys : Cardinality(ranks \cap 0..(KeyRank[k] - 1)) = n - 1
    IN  [n \in 1..Cardinality(keys) |->
            LET key == At(n) IN [key |-> key, value |-> table[key]]]

-----------------------------------------------------------------------------
\* The version shifted right by 0, 1, ..., Digits digits.
Shifted(version) ==
    LET shifted[k \in 0..Digits] == IF k = 0 THEN version ELSE shifted[k - 1] \div Radix
    IN  shifted

(* Fault: the bytes of the version in the machine's order. *)
LittleEndianKey(version) ==
    LedgerPrefix \o [n \in 1..Digits |-> Shifted(version)[n - 1] % Radix]

\* to_be_bytes
DurableKey(version) ==
    LedgerPrefix \o [n \in 1..Digits |-> Shifted(version)[Digits - n] % Radix]

\* from_be_bytes; no version for a key of another length or prefix: -1.
DecodeDurableKey(key) ==
    LET value[k \in 0..Digits] ==
            IF k = 0 THEN 0 ELSE Radix * value[k - 1] + key[Len(LedgerPrefix) + k]
    IN  IF Len(key) # Len(LedgerPrefix) + Digits \/ ~Prefixed(key) THEN -1 ELSE value[Digits]
============================================================================
