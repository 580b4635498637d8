--------------------------- MODULE DurableProofs ---------------------------
(***************************************************************************)
(* The durable ledger keeps what the memory ledger keeps, and implements   *)
(* the append-only log its clients are promised: the records the backend   *)
(* has taken are the log, through write failures, crashes and replays.     *)
(* Replay never fails, and rebuilds what a crash between commits lost.     *)
(***************************************************************************)
EXTENDS DurableLedger, LedgerViewProofs, FiniteSetTheorems

-----------------------------------------------------------------------------
(***************************************************************************)
(* Keys: the order of the keys is the order of the versions.               *)
(***************************************************************************)

(* Quotient and remainder.                                                 *)
LEMMA Division ==
    ASSUME NEW r \in Nat \ {0}, NEW a \in Nat
    PROVE  /\ a \div r \in Nat /\ a % r \in 0..(r - 1)
           /\ a = r * (a \div r) + (a % r)
OBVIOUS

(* Division keeps the order, and what it makes equal differs in the        *)
(* remainder.                                                              *)
LEMMA DivisionOrder ==
    ASSUME NEW r \in Nat \ {0}, NEW a \in Nat, NEW b \in Nat, a < b
    PROVE  /\ a \div r <= b \div r
           /\ a \div r = b \div r => a % r < b % r
<1> DEFINE p == a \div r
           q == b \div r
<1>1. /\ p \in Nat /\ q \in Nat /\ a % r \in 0..(r - 1) /\ b % r \in 0..(r - 1)
      /\ a = r * p + (a % r) /\ b = r * q + (b % r)
  BY Division
<1> HIDE DEF p, q
<1>2. p <= q
  <2> SUFFICES ASSUME q < p PROVE FALSE
    BY <1>1
  <2>1. PICK d \in Nat : p = q + 1 + d
    BY <1>1
  <2>2. r * p = r * q + r + r * d /\ r * d \in Nat /\ r * q \in Nat
    BY <1>1, <2>1
  <2> QED
    BY <1>1, <2>2
<1>3. p = q => a % r < b % r
  <2> SUFFICES ASSUME p = q PROVE a % r < b % r
    OBVIOUS
  <2>1. r * p = r * q /\ r * p \in Nat
    BY <1>1
  <2> QED
    BY <1>1, <2>1
<1> QED
  BY <1>2, <1>3 DEF p, q

(* A version shifted by one digit more is divided by the radix once more.  *)
LEMMA ShiftedSteps ==
    ASSUME NEW v \in Nat
    PROVE  /\ Shifted(v) \in [0..Digits -> Nat]
           /\ Shifted(v)[0] = v
           /\ \A k \in 1..Digits : Shifted(v)[k] = Shifted(v)[k - 1] \div Radix
<1> DEFINE Follows(f, m) ==
               f \in [0..m -> Nat] /\ f[0] = v /\ \A k \in 1..m : f[k] = f[k - 1] \div Radix
           missing == {m \in Nat : ~\E f : Follows(f, m)}
           Next1(f) == [k \in 0..Digits |-> IF k = 0 THEN v ELSE f[k - 1] \div Radix]
<1>1. Digits \in Nat /\ Radix \in Nat \ {0}
  BY KeyValueAssumption
<1>2. missing = {}
  <2> SUFFICES ASSUME missing # {} PROVE FALSE
    OBVIOUS
  <2>1. PICK m \in missing : \A n \in missing : m <= n
    BY LeastIsMember
  <2>2. m # 0
    <3>1. Follows([k \in 0..0 |-> v], 0)
      OBVIOUS
    <3> QED
      BY <2>1, <3>1
  <2>3. PICK p \in Nat : m = p + 1
    BY <2>2
  <2>4. p \notin missing
    <3> HIDE DEF missing
    <3> QED
      BY <2>1, <2>3
  <2>5. PICK f : Follows(f, p)
    BY <2>4
  <2> DEFINE g == [k \in 0..m |-> IF k = m THEN f[p] \div Radix ELSE f[k]]
  <2>6. f[p] \div Radix \in Nat
    <3>1. f[p] \in Nat
      BY <2>5
    <3> QED
      BY <1>1, <3>1, Division
  <2>7. Follows(g, m)
    <3>1. g \in [0..m -> Nat] /\ g[0] = v
      BY <2>3, <2>5, <2>6
    <3>2. ASSUME NEW k \in 1..m PROVE g[k] = g[k - 1] \div Radix
      <4>1. CASE k = m
        <5>1. g[k] = f[p] \div Radix /\ g[k - 1] = f[p]
          BY <2>3, <4>1
        <5> QED
          BY <5>1
      <4>2. CASE k # m
        <5>1. k \in 1..p /\ g[k] = f[k] /\ g[k - 1] = f[k - 1]
          BY <2>3, <4>2
        <5> QED
          BY <2>5, <5>1
      <4> QED
        BY <4>1, <4>2
    <3> QED
      BY <3>1, <3>2
  <2> QED
    BY <2>1, <2>7
<1>3. PICK f : Follows(f, Digits)
  BY <1>1, <1>2
<1>4. f = Next1(f)
  BY <1>1, <1>3
<1>5. Shifted(v) = Next1(Shifted(v))
  BY <1>4 DEF Shifted
<1> DEFINE s == Shifted(v)
           odd == {k \in 0..Digits : s[k] \notin Nat}
<1>6. /\ DOMAIN s = 0..Digits /\ s[0] = v
      /\ \A k \in 1..Digits : s[k] = s[k - 1] \div Radix
  <2> HIDE DEF s
  <2> SUFFICES ASSUME s = Next1(s)
               PROVE  /\ DOMAIN s = 0..Digits /\ s[0] = v
                      /\ \A k \in 1..Digits : s[k] = s[k - 1] \div Radix
    BY <1>5 DEF s
  <2> QED
    BY <1>1
<1>7. odd = {}
  <2> SUFFICES ASSUME odd # {} PROVE FALSE
    OBVIOUS
  <2> HIDE DEF s
  <2>1. odd \in SUBSET Nat
    BY <1>1
  <2>2. PICK m \in odd : \A n \in odd : m <= n
    BY <2>1, LeastIsMember
  <2>3. m # 0 /\ m \in 1..Digits /\ m - 1 \in 0..Digits
    BY <1>1, <1>6, <2>2
  <2>4. s[m - 1] \in Nat
    BY <1>1, <2>2, <2>3
  <2> QED
    BY <1>1, <1>6, <2>2, <2>3, <2>4, Division
<1> HIDE DEF s
<1>8. s = [k \in 0..Digits |-> s[k]]
  <2> SUFFICES ASSUME s = Next1(s) PROVE s = [k \in 0..Digits |-> s[k]]
    BY <1>5 DEF s
  <2> QED
    OBVIOUS
<1>9. s \in [0..Digits -> Nat]
  BY <1>7, <1>8
<1> QED
  BY <1>6, <1>9 DEF s

(* Shifting keeps the order, up to the last digit, where nothing is left.  *)
LEMMA ShiftedOrder ==
    ASSUME NEW a \in 0..MaxVersion, NEW b \in 0..MaxVersion, a < b
    PROVE  /\ \A k \in 0..Digits : Shifted(a)[k] <= Shifted(b)[k]
           /\ Shifted(a)[Digits] = 0 /\ Shifted(b)[Digits] = 0
<1>1. ASSUME NEW c \in Nat, NEW d \in Nat, c <= d
      PROVE  \A k \in 0..Digits : Shifted(c)[k] <= Shifted(d)[k]
  <2> DEFINE wrong == {k \in 0..Digits : ~(Shifted(c)[k] <= Shifted(d)[k])}
  <2> SUFFICES ASSUME wrong # {} PROVE FALSE
    OBVIOUS
  <2>1. wrong \in SUBSET Nat
    BY KeyValueAssumption
  <2>2. PICK m \in wrong : \A n \in wrong : m <= n
    BY <2>1, LeastIsMember
  <2>3. m # 0 /\ m \in 1..Digits /\ m - 1 \in 0..Digits
    <3>1. Shifted(c)[0] = c /\ Shifted(d)[0] = d
      BY ShiftedSteps
    <3>2. m # 0
      BY <1>1, <2>2, <3>1
    <3> QED
      BY <2>2, <3>2, KeyValueAssumption
  <2>4. Shifted(c)[m - 1] <= Shifted(d)[m - 1]
    BY <2>2, <2>3, KeyValueAssumption
  <2>5. Shifted(c)[m - 1] \in Nat /\ Shifted(d)[m - 1] \in Nat
    BY <2>3, ShiftedSteps
  <2>6. /\ Shifted(c)[m] = Shifted(c)[m - 1] \div Radix
        /\ Shifted(d)[m] = Shifted(d)[m - 1] \div Radix
    BY <2>3, ShiftedSteps
  <2>7. Shifted(c)[m - 1] \div Radix <= Shifted(d)[m - 1] \div Radix
    <3>1. CASE Shifted(c)[m - 1] = Shifted(d)[m - 1]
      <4>1. Shifted(d)[m - 1] \div Radix \in Nat
        BY <2>5, Division, KeyValueAssumption
      <4> QED
        BY <3>1, <4>1
    <3>2. CASE Shifted(c)[m - 1] < Shifted(d)[m - 1]
      <4>1. Radix \in Nat \ {0}
        BY KeyValueAssumption
      <4> QED
        BY <2>5, <3>2, <4>1, DivisionOrder
    <3> QED
      BY <2>4, <2>5, <3>1, <3>2
  <2> QED
    BY <2>2, <2>6, <2>7
<1>2. a \in Nat /\ b \in Nat /\ MaxVersion \in Nat /\ Digits \in 0..Digits
  BY LedgerAssumption, KeyValueAssumption
<1>3. /\ Shifted(a)[Digits] <= Shifted(MaxVersion)[Digits] /\ Shifted(a)[Digits] \in Nat
      /\ Shifted(b)[Digits] <= Shifted(MaxVersion)[Digits] /\ Shifted(b)[Digits] \in Nat
  BY <1>1, <1>2, ShiftedSteps
<1>4. \A k \in 0..Digits : Shifted(a)[k] <= Shifted(b)[k]
  BY <1>1, <1>2
<1> QED
  BY <1>3, <1>4, KeysAssumption

(* The keys of two versions are keys of the ledger, and the key of the     *)
(* smaller version comes first: the greatest digit in which they differ    *)
(* decides, since big-endian it is the first.                              *)
LEMMA KeysAreOrdered ==
    ASSUME NEW a \in 0..MaxVersion, NEW b \in 0..MaxVersion, a < b
    PROVE  KeyBefore(DurableKey(a), DurableKey(b))
<1> DEFINE s == Shifted(a)
           t == Shifted(b)
           differ == {k \in 0..Digits : s[Digits - k] # t[Digits - k]}
<1>1. /\ a \in Nat /\ b \in Nat /\ MaxVersion \in Nat
      /\ Digits \in Nat \ {0} /\ Radix \in Nat \ {0}
  BY LedgerAssumption, KeyValueAssumption
<1>2. /\ s \in [0..Digits -> Nat] /\ t \in [0..Digits -> Nat]
      /\ s[0] = a /\ t[0] = b
      /\ \A k \in 1..Digits : s[k] = s[k - 1] \div Radix /\ t[k] = t[k - 1] \div Radix
  BY <1>1, ShiftedSteps
<1>3. /\ \A k \in 0..Digits : s[k] <= t[k]
      /\ s[Digits] = 0 /\ t[Digits] = 0
  BY ShiftedOrder
<1> HIDE DEF s, t
<1>4. Digits \in differ
  BY <1>1, <1>2
<1>5. PICK n \in differ : \A k \in differ : n <= k
  <2>1. differ \in SUBSET Nat /\ differ # {}
    BY <1>1, <1>4
  <2> HIDE DEF differ
  <2> QED
    BY <2>1, LeastIsMember
<1>6. n \in Nat /\ n \in 1..Digits /\ Digits - n \in 0..Digits /\ Digits - n + 1 \in 1..Digits
  BY <1>1, <1>3, <1>5
<1>7. s[Digits - n + 1] = t[Digits - n + 1]
  <2>1. n - 1 \in 0..Digits /\ n - 1 < n /\ Digits - (n - 1) = Digits - n + 1
    BY <1>1, <1>6
  <2> QED
    BY <1>5, <2>1
<1>8. s[Digits - n] % Radix < t[Digits - n] % Radix
  <2> DEFINE x == s[Digits - n]
             y == t[Digits - n]
  <2>1. x \in Nat /\ y \in Nat /\ x < y
    BY <1>2, <1>3, <1>5, <1>6
  <2>2. x \div Radix = y \div Radix
    BY <1>2, <1>6, <1>7
  <2> HIDE DEF x, y
  <2>3. x % Radix < y % Radix
    BY <1>1, <2>1, <2>2, DivisionOrder
  <2> QED
    BY <2>3 DEF x, y
<1>9. \A k \in 1..(n - 1) : s[Digits - k] % Radix = t[Digits - k] % Radix
  <2> SUFFICES ASSUME NEW k \in 1..(n - 1) PROVE s[Digits - k] = t[Digits - k]
    OBVIOUS
  <2>1. k \in 0..Digits /\ k < n
    BY <1>1, <1>6
  <2> QED
    BY <1>5, <1>6, <2>1
<1> DEFINE p == DurableKey(a)
           q == DurableKey(b)
<1>10. /\ DOMAIN p = 1..(Digits + 1) /\ DOMAIN q = 1..(Digits + 1)
       /\ p[1] = 0 /\ q[1] = 0
       /\ \A k \in 1..Digits : /\ p[k + 1] = s[Digits - k] % Radix
                               /\ q[k + 1] = t[Digits - k] % Radix
  BY <1>1 DEF DurableKey, LedgerPrefix, s, t
<1> HIDE DEF p, q
<1>11. \A m \in 1..n : m \in DOMAIN p /\ p[m] = q[m]
  <2> SUFFICES ASSUME NEW m \in 1..n PROVE m \in DOMAIN p /\ p[m] = q[m]
    OBVIOUS
  <2>1. CASE m = 1
    BY <1>1, <1>10, <2>1
  <2>2. CASE m # 1
    <3>1. PICK k \in 1..(n - 1) : m = k + 1
      BY <1>6, <2>2
    <3>2. k \in 1..Digits /\ k + 1 \in 1..(Digits + 1)
      BY <1>1, <1>6
    <3> QED
      BY <1>9, <1>10, <3>1, <3>2
  <2> QED
    BY <2>1, <2>2
<1>12. n + 1 \in DOMAIN q /\ p[n + 1] < q[n + 1]
  BY <1>1, <1>6, <1>8, <1>10
<1>13. KeyBefore(p, q)
  BY <1>6, <1>11, <1>12 DEF KeyBefore
<1> QED
  BY <1>13 DEF p, q

(* There are finitely many keys.                                           *)
LEMMA KeysAreFinite == IsFiniteSet(LedgerKeys)
<1> DEFINE S == 0..(Radix - 1)
           bad == {k \in Nat : ~IsFiniteSet([1..k -> S])}
<1>1. Digits \in Nat /\ Radix \in Nat
  BY KeyValueAssumption
<1>2. IsFiniteSet(S)
  BY <1>1, FS_Interval
<1> HIDE DEF S
<1>3. bad = {}
  <2> SUFFICES ASSUME bad # {} PROVE FALSE
    OBVIOUS
  <2>1. PICK m \in bad : \A n \in bad : m <= n
    BY LeastIsMember
  <2>2. CASE m = 0
    <3> DEFINE none == [k \in 1..0 |-> 0]
    <3>1. none \in [1..0 -> S] /\ \A d \in [1..0 -> S] : d = none
      OBVIOUS
    <3> HIDE DEF none
    <3>2. [1..0 -> S] = {none}
      BY <3>1
    <3>3. IsFiniteSet([1..0 -> S])
      BY <3>2, FS_Singleton
    <3> QED
      BY <2>1, <2>2, <3>3
  <2>3. CASE m # 0
    <3>1. PICK p \in Nat : m = p + 1
      BY <2>1, <2>3
    <3>2. p \notin bad
      <4> HIDE DEF bad
      <4> QED
        BY <2>1, <3>1
    <3>3. IsFiniteSet([1..p -> S] \X S)
      BY <1>2, <3>2, FS_Product
    <3> DEFINE f == [g \in [1..m -> S] |-> <<[k \in 1..p |-> g[k]], g[m]>>]
    <3>4. f \in [[1..m -> S] -> [1..p -> S] \X S]
      <4>1. m \in 1..m /\ \A k \in 1..p : k \in 1..m
        BY <3>1
      <4> QED
        BY <4>1
    <3>5. ASSUME NEW g \in [1..m -> S], NEW h \in [1..m -> S], f[g] = f[h] PROVE g = h
      <4>1. g[m] = h[m] /\ \A k \in 1..p : g[k] = h[k]
        BY <3>5
      <4>2. \A k \in 1..m : k \in 1..p \/ k = m
        BY <3>1
      <4> QED
        BY <4>1, <4>2
    <3>6. f \in Injection([1..m -> S], [1..p -> S] \X S)
      BY <3>4, <3>5 DEF Injection, IsInjective
    <3> HIDE DEF f
    <3> QED
      BY <2>1, <3>3, <3>6, FS_Injection
  <2> QED
    BY <2>2, <2>3
<1>4. IsFiniteSet([1..Digits -> S])
  BY <1>1, <1>3
<1> DEFINE f == [key \in LedgerKeys |-> [k \in 1..Digits |-> key[k + 1]]]
<1>5. ASSUME NEW key \in LedgerKeys
      PROVE  \E d \in [1..Digits -> S] : f[key] = d /\ key = LedgerPrefix \o d
  <2>1. PICK d \in [1..Digits -> S] : key = LedgerPrefix \o d
    BY DEF LedgerKeys, S
  <2>2. \A k \in 1..Digits : key[k + 1] = d[k]
    BY <1>1, <2>1 DEF LedgerPrefix
  <2>3. f[key] = d
    BY <2>2
  <2> QED
    BY <2>1, <2>3
<1>6. f \in Injection(LedgerKeys, [1..Digits -> S])
  BY <1>5 DEF Injection, IsInjective
<1> HIDE DEF f
<1> QED
  BY <1>4, <1>6, FS_Injection

(* The keys of the ledger are strings of one length.                       *)
LEMMA KeyDigits ==
    ASSUME NEW key \in LedgerKeys
    PROVE  key \in [1..(Digits + 1) -> Nat]
<1>1. PICK d \in [1..Digits -> 0..(Radix - 1)] : key = LedgerPrefix \o d
  BY DEF LedgerKeys
<1>2. d \in Seq(Nat) /\ Len(d) = Digits /\ Digits \in Nat
  BY <1>1, KeyValueAssumption
<1>3. key \in Seq(Nat) /\ Len(key) = Digits + 1
  BY <1>1, <1>2 DEF LedgerPrefix
<1> QED
  BY <1>3

(* The order of the keys is strict.                                        *)
LEMMA KeyOrder ==
    ASSUME NEW a \in LedgerKeys
    PROVE  /\ ~KeyBefore(a, a)
           /\ \A b, c \in LedgerKeys : KeyBefore(a, b) /\ KeyBefore(b, c) => KeyBefore(a, c)
<1>1. \A key \in LedgerKeys : key \in [1..(Digits + 1) -> Nat]
  BY KeyDigits
<1>2. ~KeyBefore(a, a)
  <2>1. a \in [1..(Digits + 1) -> Nat]
    BY <1>1
  <2>2. ASSUME NEW n \in DOMAIN a PROVE ~(a[n] < a[n])
    <3>1. a[n] \in Nat
      BY <2>1
    <3> QED
      BY <3>1
  <2> QED
    BY <2>1, <2>2 DEF KeyBefore
<1>3. ASSUME NEW b \in LedgerKeys, NEW c \in LedgerKeys, KeyBefore(a, b), KeyBefore(b, c)
      PROVE  KeyBefore(a, c)
  <2>1. PICK i \in 1..(Digits + 1) : a[i] < b[i] /\ \A m \in 1..(i - 1) : a[m] = b[m]
    BY <1>1, <1>3 DEF KeyBefore
  <2>2. PICK j \in 1..(Digits + 1) : b[j] < c[j] /\ \A m \in 1..(j - 1) : b[m] = c[m]
    BY <1>1, <1>3 DEF KeyBefore
  <2>3. PICK n \in {i, j} : n <= i /\ n <= j
    BY KeyValueAssumption
  <2>4. \A m \in 1..(n - 1) : m \in 1..(i - 1) /\ m \in 1..(j - 1) /\ m \in 1..(Digits + 1)
    BY <2>3, KeyValueAssumption
  <2>5. a[n] < c[n]
    <3>1. n = i \/ n \in 1..(i - 1)
      BY <2>3, KeyValueAssumption
    <3>2. n = j \/ n \in 1..(j - 1)
      BY <2>3, KeyValueAssumption
    <3>3. a[n] \in Nat /\ b[n] \in Nat /\ c[n] \in Nat
      BY <1>1, <2>3
    <3> QED
      BY <2>1, <2>2, <2>3, <3>1, <3>2, <3>3
  <2>6. n \in DOMAIN c /\ n \in DOMAIN a /\ \A m \in 1..(n - 1) : m \in DOMAIN a /\ a[m] = c[m]
    BY <1>1, <2>1, <2>2, <2>3, <2>4
  <2> QED
    BY <2>5, <2>6 DEF KeyBefore
<1> QED
  BY <1>2, <1>3

(* A key before another has the smaller rank.                              *)
LEMMA RankFollowsOrder ==
    ASSUME NEW a \in LedgerKeys, NEW b \in LedgerKeys, KeyBefore(a, b)
    PROVE  KeyRank[a] \in Nat /\ KeyRank[b] \in Nat /\ KeyRank[a] < KeyRank[b]
<1> DEFINE A == {j \in LedgerKeys : KeyBefore(j, a)}
           B == {j \in LedgerKeys : KeyBefore(j, b)}
<1>1. KeyRank[a] = Cardinality(A) /\ KeyRank[b] = Cardinality(B)
  BY DEF KeyRank
<1>2. A \in SUBSET B /\ a \in B /\ a \notin A
  BY KeyOrder
<1>3. IsFiniteSet(B)
  BY KeysAreFinite, FS_Subset
<1> HIDE DEF A, B
<1>4. /\ IsFiniteSet(A) /\ Cardinality(A) \in Nat /\ Cardinality(B) \in Nat
      /\ Cardinality(A) <= Cardinality(B) /\ Cardinality(A) # Cardinality(B)
  BY <1>2, <1>3, FS_Subset, FS_CardinalityType
<1> QED
  BY <1>1, <1>4

(* What is numbered without repetition from 1 to n has n elements.         *)
LEMMA Numbered ==
    ASSUME NEW n \in Nat, NEW f, DOMAIN f = 1..n,
           \A i, j \in 1..n : i < j => f[i] # f[j]
    PROVE  Cardinality({f[i] : i \in 1..n}) = n
<1> DEFINE T == {f[i] : i \in 1..n}
           g == [i \in 1..n |-> f[i]]
<1>1. g \in [1..n -> T] /\ \A t \in T : \E i \in 1..n : g[i] = t
  OBVIOUS
<1>2. \A i, j \in 1..n : g[i] = g[j] => i = j
  OBVIOUS
<1>3. g \in Surjection(1..n, T) /\ g \in Injection(1..n, T)
  BY <1>1, <1>2 DEF Surjection, Injection, IsInjective
<1>4. IsFiniteSet(1..n) /\ Cardinality(1..n) = n
  BY FS_Interval
<1> HIDE DEF T, g
<1> QED
  BY <1>3, <1>4, FS_Surjection DEF T

(* The keys of the versions are keys of the ledger, and their ranks follow *)
(* the versions.                                                           *)
LEMMA VersionsAreRanked ==
    ASSUME NEW a \in 0..MaxVersion
    PROVE  /\ DurableKey(a) \in LedgerKeys /\ KeyRank[DurableKey(a)] \in Nat
           /\ \A b \in 0..MaxVersion : a < b => KeyRank[DurableKey(a)] < KeyRank[DurableKey(b)]
<1>1. Digits \in Nat \ {0} /\ Radix \in Nat \ {0} /\ MaxVersion \in Nat
  BY KeyValueAssumption, LedgerAssumption
<1>2. \A b \in 0..MaxVersion : DurableKey(b) \in LedgerKeys
  <2> SUFFICES ASSUME NEW b \in 0..MaxVersion PROVE DurableKey(b) \in LedgerKeys
    OBVIOUS
  <2> DEFINE s == Shifted(b)
             d == [n \in 1..Digits |-> s[Digits - n] % Radix]
  <2>1. b \in Nat
    BY <1>1
  <2>2. s \in [0..Digits -> Nat]
    BY <2>1, ShiftedSteps
  <2> HIDE DEF s
  <2>3. d \in [1..Digits -> 0..(Radix - 1)]
    <3> SUFFICES ASSUME NEW n \in 1..Digits PROVE s[Digits - n] % Radix \in 0..(Radix - 1)
      OBVIOUS
    <3>1. s[Digits - n] \in Nat
      BY <1>1, <2>2
    <3> QED
      BY <1>1, <3>1, Division
  <2>4. DurableKey(b) = LedgerPrefix \o d
    BY DEF DurableKey, s
  <2> HIDE DEF d
  <2> QED
    BY <2>3, <2>4 DEF LedgerKeys
<1>3. \A b \in 0..MaxVersion : a < b => KeyRank[DurableKey(a)] < KeyRank[DurableKey(b)]
  BY <1>2, KeysAreOrdered, RankFollowsOrder
<1>4. KeyRank[DurableKey(a)] \in Nat
  <2> DEFINE A == {j \in LedgerKeys : KeyBefore(j, DurableKey(a))}
  <2>1. KeyRank[DurableKey(a)] = Cardinality(A)
    BY <1>2 DEF KeyRank
  <2>2. IsFiniteSet(A)
    BY KeysAreFinite, FS_Subset
  <2> QED
    BY <2>1, <2>2, FS_CardinalityType
<1> QED
  BY <1>2, <1>3, <1>4

(* A table that holds the versions from 1 to m is scanned in the order of  *)
(* the versions.                                                           *)
LEMMA ScanInOrder ==
    ASSUME NEW table, NEW m \in 0..MaxVersion,
           DOMAIN table = {DurableKey(n) : n \in 1..m}
    PROVE  PrefixScan(table) =
               [n \in 1..m |-> [key |-> DurableKey(n), value |-> table[DurableKey(n)]]]
<1> DEFINE keys == DOMAIN table \cap LedgerKeys
           ranks == {KeyRank[k] : k \in keys}
           rank == [n \in 1..m |-> KeyRank[DurableKey(n)]]
           At(n) == CHOOSE k \in keys : Cardinality(ranks \cap 0..(KeyRank[k] - 1)) = n - 1
<1>1. m \in Nat /\ 1..m \subseteq 0..MaxVersion
  BY LedgerAssumption
<1>2. /\ \A n \in 1..m : rank[n] = KeyRank[DurableKey(n)] /\ rank[n] \in Nat
      /\ \A i, j \in 1..m : i < j => rank[i] < rank[j]
  BY <1>1, VersionsAreRanked
<1>3. keys = {DurableKey(n) : n \in 1..m}
  BY <1>1, VersionsAreRanked
<1>4. ranks = {rank[n] : n \in 1..m}
  BY <1>3
<1>5. Cardinality(keys) = m
  <2> DEFINE f == [n \in 1..m |-> DurableKey(n)]
  <2>1. DOMAIN f = 1..m /\ \A i, j \in 1..m : i < j => f[i] # f[j]
    BY <1>2
  <2>2. keys = {f[n] : n \in 1..m}
    BY <1>3
  <2> HIDE DEF keys, f
  <2> QED
    BY <1>1, <2>1, <2>2, Numbered
<1> HIDE DEF keys, ranks, rank
<1>6. ASSUME NEW n \in 1..m PROVE Cardinality(ranks \cap 0..(rank[n] - 1)) = n - 1
  <2> DEFINE f == [i \in 1..(n - 1) |-> rank[i]]
  <2>1. n - 1 \in Nat /\ 1..(n - 1) \subseteq 1..m
    BY <1>1
  <2>2. \A i, j \in 1..(n - 1) : i < j => f[i] # f[j]
    BY <1>2, <2>1
  <2>3. ranks \cap 0..(rank[n] - 1) = {f[i] : i \in 1..(n - 1)}
    <3>1. ASSUME NEW i \in 1..(n - 1) PROVE f[i] \in ranks \cap 0..(rank[n] - 1)
      <4>1. i \in 1..m /\ i < n
        BY <2>1
      <4> QED
        BY <1>2, <1>4, <4>1
    <3>2. ASSUME NEW r \in ranks \cap 0..(rank[n] - 1) PROVE \E i \in 1..(n - 1) : f[i] = r
      <4>1. PICK i \in 1..m : r = rank[i]
        BY <1>4
      <4>2. rank[i] < rank[n]
        BY <1>2, <4>1
      <4>3. i < n
        <5>1. ~(n < i) /\ n # i
          BY <1>2, <4>2
        <5> QED
          BY <5>1
      <4> QED
        BY <4>1, <4>3
    <3> HIDE DEF f
    <3> QED
      BY <3>1, <3>2
  <2> DEFINE c == n - 1
  <2> HIDE DEF f, c
  <2>4. c \in Nat /\ DOMAIN f = 1..c /\ \A i, j \in 1..c : i < j => f[i] # f[j]
    BY <2>1, <2>2 DEF f, c
  <2>5. Cardinality({f[i] : i \in 1..c}) = c
    BY <2>4, Numbered
  <2> QED
    BY <2>3, <2>5 DEF c
<1>7. ASSUME NEW n \in 1..m PROVE At(n) = DurableKey(n)
  <2>1. DurableKey(n) \in keys /\ Cardinality(ranks \cap 0..(KeyRank[DurableKey(n)] - 1)) = n - 1
    BY <1>2, <1>3, <1>6
  <2>2. ASSUME NEW k \in keys, Cardinality(ranks \cap 0..(KeyRank[k] - 1)) = n - 1
        PROVE  k = DurableKey(n)
    <3>1. PICK i \in 1..m : k = DurableKey(i)
      BY <1>3
    <3>2. i - 1 = n - 1
      BY <1>2, <1>6, <2>2, <3>1
    <3> QED
      BY <3>1, <3>2
  <2> QED
    BY <2>1, <2>2
<1>8. PrefixScan(table) =
          [n \in 1..Cardinality(keys) |-> [key |-> At(n), value |-> table[At(n)]]]
  BY DEF PrefixScan, keys, ranks
<1> HIDE DEF At
<1> QED
  BY <1>5, <1>7, <1>8

-----------------------------------------------------------------------------
(***************************************************************************)
(* The tables: a step of the durable ledger is a step of the memory        *)
(* ledger's tables, or leaves them empty.                                  *)
(***************************************************************************)

(* The versions from 1 to m are stored: those of the log, the one that is  *)
(* being applied, and while the store is opened the ones still to be read. *)
StoredTo(m) ==
    /\ DOMAIN disk = {DurableKey(n) : n \in 1..m}
    /\ \A n \in 1..m : disk[DurableKey(n)] \in Envelope
    /\ Now <= m
    /\ \A n \in 1..Now : disk[DurableKey(n)] = EnvelopeAt(n)
    /\ mode = "running" => m = Now

(* What waits for its write is valid and will be the next to be applied.   *)
StageHolds ==
    staged # None =>
        staged \in Envelope /\ mode = "running" /\ inflight = None /\ Valid(staged)

DiskInv == StageHolds /\ \E m \in 0..MaxVersion : StoredTo(m)

(* A new store is empty.                                                   *)
LEMMA InitDisk == DurableInit => DiskInv
<1> SUFFICES ASSUME DurableInit PROVE DiskInv
  OBVIOUS
<1>1. staged = None /\ disk = EmptyMap /\ version = 0 /\ inflight = None
  BY DEF DurableInit, Init, Empty
<1>2. Now = 0 /\ 0 \in 0..MaxVersion
  BY <1>1, LedgerAssumption DEF Now
<1>3. StoredTo(0)
  BY <1>1, <1>2 DEF StoredTo, EmptyMap
<1> QED
  BY <1>1, <1>2, <1>3 DEF DiskInv, StageHolds

(* The records of a scan, in the order they are replayed in.               *)
LEMMA RecordsInOrder ==
    ASSUME NEW m \in 0..MaxVersion, StoredTo(m)
    PROVE  /\ Len(Records) = m /\ DOMAIN Records = 1..m /\ m \in Nat
           /\ \A n \in 1..m : Records[n].value = disk[DurableKey(n)]
           /\ Stored = [n \in 1..m |-> disk[DurableKey(n)]]
           /\ Stored \in Seq(Envelope) /\ Len(Stored) = m
<1>1. m \in Nat
  BY LedgerAssumption
<1>2. Records = [n \in 1..m |-> [key |-> DurableKey(n), value |-> disk[DurableKey(n)]]]
  BY ScanInOrder DEF Records, StoredTo
<1>3. Len(Records) = m /\ DOMAIN Records = 1..m
  BY <1>1, <1>2
<1>4. Stored = [n \in 1..m |-> disk[DurableKey(n)]]
  BY <1>2 DEF Stored
<1>5. Stored \in Seq(Envelope) /\ Len(Stored) = m
  BY <1>1, <1>4 DEF StoredTo
<1> QED
  BY <1>1, <1>2, <1>3, <1>4, <1>5

(* Nothing is in flight while an envelope waits for its write.             *)
LEMMA NotStaged ==
    ASSUME LedgerInv, DiskInv, inflight # None \/ targets # {}
    PROVE  staged = None
BY DEF DiskInv, StageHolds, LedgerInv, ValidationHolds

(* Every step of the durable ledger, the write and the replay included, is *)
(* one the memory ledger's tables know, or a crash that empties them.      *)
LEMMA DurableTables ==
    LedgerInv /\ DiskInv /\ [DurableNext]_durablevars => TableStep \/ Init'
<1> SUFFICES ASSUME LedgerInv, DiskInv, [DurableNext]_durablevars PROVE TableStep \/ Init'
  OBVIOUS
<1>1. outcome \in AnswerType
  BY DEF LedgerInv, TypeOK, ControlTypeOK, AnswerType
<1>2. CASE Respond
  BY <1>2, NextIsStep DEF Respond, Next
<1>3. ASSUME NEW e \in Envelope, Stage(e) PROVE TableStep
  BY <1>3, LedgerAssumption DEF Stage, TableStep, Quiet, Answer, AnswerType, Result
<1>4. CASE ApplyStep
  BY <1>4, NextIsStep DEF ApplyStep, Next
<1>5. CASE Return
  BY <1>5, NextIsStep DEF Return, Next
<1>6. CASE PutSucceeds
  <2>1. staged \in CommandEnvelope /\ Start(staged) /\ outcome' = outcome
    BY <1>6, LedgerAssumption DEF PutSucceeds, DiskInv, StageHolds, Start
  <2> QED
    BY <1>1, <2>1 DEF TableStep
<1>7. CASE PutFails
  BY <1>7, LedgerAssumption DEF PutFails, TableStep, Quiet, Answer, AnswerType, Result
<1>8. CASE ReplayRecord
  <2>1. PICK m \in 0..MaxVersion : StoredTo(m)
    BY DEF DiskInv
  <2>2. NextRecord \in 1..m
    <3>1. version \in Nat
      BY DEF LedgerInv, TypeOK, LogTypeOK
    <3> QED
      BY <1>8, <2>1, <3>1, RecordsInOrder DEF ReplayRecord, Unread, NextRecord
  <2> DEFINE e == Records[NextRecord].value
  <2>3. e \in CommandEnvelope
    BY <2>1, <2>2, RecordsInOrder, LedgerAssumption DEF StoredTo
  <2>4. Start(e) /\ outcome' = outcome
    BY <1>8 DEF ReplayRecord, Replayable, Start, Settled
  <2> QED
    BY <1>1, <2>3, <2>4 DEF TableStep
<1>9. CASE ReplayReturn
  BY <1>1, <1>9 DEF ReplayReturn, TableStep
<1>10. CASE Crash
  BY <1>10 DEF Crash, Forget, Init, Empty
<1>11. CASE Opened \/ Reopen \/ ScanFails \/ UNCHANGED durablevars
  <2>1. UNCHANGED vars
    BY <1>11 DEF Opened, Reopen, ScanFails, durablevars
  <2> QED
    BY <1>1, <2>1 DEF vars, control, TableStep, Quiet
<1> QED
  BY <1>2, <1>3, <1>4, <1>5, <1>6, <1>7, <1>8, <1>9, <1>10, <1>11
     DEF DurableNext, Running, Opening

(* Validity depends on the tables only.                                    *)
LEMMA ValidKept ==
    ASSUME NEW e \in CommandEnvelope, Valid(e), UNCHANGED state
    PROVE  Valid(e)'
<1>1. UNCHANGED <<observations, inferences, decisions, identities, merges, outbox, version,
                  transactions, transaction_indexes, dependents, idempotency>>
  BY DEF state, evidence, lineage, identity_index, delivery, log
<1>2. DependenciesActive(e)' /\ VersionLeft' /\ FreshKey(e)' /\ SnapshotCurrent(e)'
      /\ NewTransaction(e)'
  BY <1>1 DEF Valid, DependenciesActive, IsActive, VersionLeft, FreshKey, SnapshotCurrent,
              NewTransaction
<1>3. ASSUME NEW i \in DOMAIN e.commands PROVE ValidCommand(e, i)'
  <2>1. ValidCommand(e, i)
    BY DEF Valid, CommandsValid
  <2>2. ValidPersist(e, i)' <=> ValidPersist(e, i)
    BY <1>1 DEF ValidPersist, KnownObservation, PendingObservations, Earlier
  <2>3. \A id : OverlayStatus(e, i, id)' = OverlayStatus(e, i, id)
    BY <1>1 DEF OverlayStatus, Writes, Lookup
  <2>4. ValidResolution(e, i)' <=> ValidResolution(e, i)
    <3>1. ValidAction(e, i)' <=> ValidAction(e, i)
      BY <2>3 DEF ValidAction
    <3> QED
      BY <1>1, <3>1 DEF ValidResolution, KnownObservation, PendingObservations, PendingInferences,
                        PendingDecisions, Earlier, next_version
  <2>5. ValidMerge(e, i)' <=> ValidMerge(e, i)
    BY <1>1, <2>3 DEF ValidMerge, KnownDecision, PendingDecisions, Earlier
  <2>6. ValidSplit(e, i)' <=> ValidSplit(e, i)
    BY <1>1, <2>3 DEF ValidSplit, KnownObservation, PendingObservations, Earlier, IsOpen, Open
  <2>7. ValidRevert(e, i)' <=> ValidRevert(e, i)
    BY <1>1 DEF ValidRevert, IsActive, ActiveDependents, Lookup
  <2>8. ValidEnqueue(e, i)' <=> ValidEnqueue(e, i)
    BY <1>1 DEF ValidEnqueue, KnownDecision, PendingDecisions, PendingMaterializations, Earlier
  <2>9. ValidReceipt(e, i)' <=> ValidReceipt(e, i)
    BY <1>1 DEF ValidReceipt
  <2>10. OverlayStatus(e, i, e.commands[i].identity)' = OverlayStatus(e, i, e.commands[i].identity)
    BY <2>3
  <2>11. ValidCommand(e, i)' <=> ValidCommand(e, i)
    <3>1. e.commands[i] \in Command
      BY EnvelopeFields
    <3> QED
      BY <2>2, <2>4, <2>5, <2>6, <2>7, <2>8, <2>9, <2>10, <3>1 DEF ValidCommand, Command
  <2> QED
    BY <2>1, <2>11
<1> QED
  BY <1>2, <1>3 DEF Valid, CommandsValid

(* What is applied, and the log's envelopes, change only when an envelope  *)
(* is begun.                                                               *)
LEMMA AppliedKept ==
    ASSUME LedgerInv, LogConsistent, Quiet \/ Apply \/ Record
    PROVE  Now' = Now /\ \A n \in 1..Now : EnvelopeAt(n)' = EnvelopeAt(n)
<1>1. version \in Nat /\ DOMAIN transactions = 1..version /\ Len(transactions) = version
  BY VersionsOfLog
<1>2. CASE Record
  <2>1. /\ inflight # None /\ version' = version + 1 /\ inflight' = None
        /\ DOMAIN transactions' = 1..(version + 1)
        /\ transactions'[version + 1].envelope = inflight
        /\ \A n \in 1..version : transactions'[n] = transactions[n]
    BY <1>1, <1>2, AppendedLog DEF Record, next_version, LedgerInv
  <2>2. Now = version + 1 /\ Now' = version + 1
    BY <2>1 DEF Now, next_version
  <2>3. ASSUME NEW n \in 1..(version + 1)
        PROVE  transactions'[n].envelope =
                   IF n \in 1..version THEN transactions[n].envelope ELSE inflight
    BY <1>1, <2>1
  <2> QED
    BY <1>1, <2>1, <2>2, <2>3 DEF EnvelopeAt
<1>3. CASE ~Record
  <2>1. /\ UNCHANGED <<version, inflight>> /\ DOMAIN transactions' = DOMAIN transactions
        /\ \A n \in DOMAIN transactions : transactions'[n].envelope = transactions[n].envelope
    <3>1. CASE \E t \in targets : Deactivate(t)
      BY <3>1, DeactivateLog DEF Deactivate
    <3>2. CASE ~\E t \in targets : Deactivate(t)
      BY <1>3, <3>2 DEF Quiet, Apply, PersistObservation, CommitResolution, CreateIdentity,
         Promote, ChangeStatus, Merge, Split, Revert, EnqueueMaterialization, Materialized, Advance,
         state, log
    <3> QED
      BY <3>1, <3>2
  <2> QED
    BY <2>1 DEF Now, EnvelopeAt, next_version
<1> QED
  BY <1>2, <1>3

(* Beginning an envelope puts it at the next version.                      *)
LEMMA AppliedBegun ==
    ASSUME LedgerInv, LogConsistent, NEW e \in CommandEnvelope, Start(e)
    PROVE  /\ Now = version /\ Now' = version + 1 /\ version \in Nat
           /\ \A n \in 1..version : EnvelopeAt(n)' = EnvelopeAt(n)
           /\ \A n : n = version + 1 => EnvelopeAt(n)' = e
<1>1. version \in Nat /\ DOMAIN transactions = 1..version
  BY VersionsOfLog
<1>2. inflight = None /\ inflight' = e /\ e # None /\ UNCHANGED <<version, transactions>>
  BY EnvelopeFields DEF Start, state, log
<1> QED
  BY <1>1, <1>2 DEF Now, EnvelopeAt, next_version

(* A batch of one write puts one record.                                   *)
LEMMA OneWrite ==
    ASSUME NEW table, NEW key, NEW value
    PROVE  ApplyTransaction(table, <<Put(key, value)>>) = Insert(table, key, value)
<1> DEFINE batch == <<Put(key, value)>>
           Last(k) == batch[Greatest({i \in DOMAIN batch : batch[i].key = k})]
<1>1. DOMAIN batch = {1} /\ batch[1] = Put(key, value) /\ Put(key, value).key = key
      /\ Put(key, value).kind = "Put" /\ Put(key, value).value = value
  BY DEF Put
<1> HIDE DEF batch
<1>2. {i \in DOMAIN batch : batch[i].key = key} = {1} /\ {batch[i].key : i \in DOMAIN batch} = {key}
  BY <1>1
<1>3. Greatest({1}) = 1
  BY DEF Greatest
<1>4. Last(key) = Put(key, value)
  BY <1>1, <1>2, <1>3
<1>5. {k \in {key} : Last(k).kind = "Put"} = {key}
  BY <1>1, <1>4
<1> QED
  BY <1>1, <1>2, <1>4, <1>5 DEF ApplyTransaction, Insert, batch

(* The key of the next version is new.                                     *)
LEMMA NextKey ==
    ASSUME NEW m \in 0..MaxVersion, NEW n \in 0..MaxVersion, n > m
    PROVE  DurableKey(n) \notin {DurableKey(k) : k \in 1..m}
<1>1. \A k \in 1..m : k \in 0..MaxVersion /\ k < n
  BY LedgerAssumption
<1> QED
  BY <1>1, VersionsAreRanked

(* A write adds the record of the version after the stored ones.           *)
LEMMA WriteAppends ==
    ASSUME LedgerInv, LogConsistent, DiskInv, PutSucceeds
    PROVE  /\ version < MaxVersion /\ version + 1 \in 0..MaxVersion /\ StoredTo(version)
           /\ Start(staged) /\ staged \in Envelope
           /\ DOMAIN disk' = {DurableKey(n) : n \in 1..(version + 1)}
           /\ disk'[DurableKey(version + 1)] = staged
           /\ \A n \in 1..version : disk'[DurableKey(n)] = disk[DurableKey(n)]
<1>1. staged \in Envelope /\ mode = "running" /\ inflight = None /\ Start(staged)
  BY DEF PutSucceeds, DiskInv, StageHolds, Start
<1>2. version \in Nat /\ version < MaxVersion /\ MaxVersion \in Nat
  BY <1>1, VersionsOfLog, LedgerAssumption
     DEF Start, Valid, VersionLeft, LedgerInv, TypeOK, LogTypeOK
<1>3. StoredTo(version)
  <2>1. PICK m \in 0..MaxVersion : StoredTo(m)
    BY DEF DiskInv
  <2>2. m = version
    BY <1>1, <2>1 DEF StoredTo, Now
  <2> QED
    BY <2>1, <2>2
<1>4. disk' = Insert(disk, DurableKey(version + 1), staged)
  BY OneWrite DEF PutSucceeds, next_version
<1>5. DOMAIN disk' = DOMAIN disk \cup {DurableKey(version + 1)}
      /\ disk'[DurableKey(version + 1)] = staged
      /\ \A k \in DOMAIN disk : k # DurableKey(version + 1) => disk'[k] = disk[k]
  BY <1>4 DEF Insert
<1>6. DOMAIN disk = {DurableKey(n) : n \in 1..version}
  BY <1>3 DEF StoredTo
<1>7. DurableKey(version + 1) \notin DOMAIN disk
  BY <1>2, <1>6, NextKey
<1>8. {DurableKey(n) : n \in 1..(version + 1)} = DOMAIN disk \cup {DurableKey(version + 1)}
  <2>1. 1..(version + 1) = 1..version \cup {version + 1}
    BY <1>2
  <2> QED
    BY <1>6, <2>1
<1> QED
  BY <1>1, <1>2, <1>3, <1>5, <1>6, <1>7, <1>8

(* Every step keeps what waits valid, and the store in order.              *)
LEMMA DiskInvStep ==
    LedgerInv /\ LogConsistent /\ DiskInv /\ [DurableNext]_durablevars => DiskInv'
<1> SUFFICES ASSUME LedgerInv, LogConsistent, DiskInv, [DurableNext]_durablevars PROVE DiskInv'
  OBVIOUS
<1>1. PICK m \in 0..MaxVersion : StoredTo(m)
  BY DEF DiskInv
<1>2. m \in Nat /\ version \in Nat
  BY LedgerAssumption DEF LedgerInv, TypeOK, LogTypeOK
<1>3. ASSUME Quiet \/ Apply \/ Record, disk' = disk, mode' = "running" => m = Now
      PROVE  StoredTo(m)'
  <2>1. Now' = Now /\ \A n \in 1..Now : EnvelopeAt(n)' = EnvelopeAt(n)
    BY <1>3, AppliedKept
  <2> QED
    BY <1>1, <1>3, <2>1 DEF StoredTo
<1>4. staged = None /\ staged' = staged => StageHolds'
  BY DEF StageHolds
<1>5. CASE Respond
  <2>1. Quiet /\ UNCHANGED storage /\ staged = None
    BY <1>5 DEF Respond, Waiting, Quiet, Prepare, Answered, Refuse, Replay, IdempotencyCollision,
       VersionConflict, DuplicateTransaction, VersionExhausted, MissingDependency, InvalidCommand
  <2>2. StoredTo(m)'
    BY <1>1, <1>3, <2>1 DEF storage, StoredTo
  <2> QED
    BY <1>1, <1>4, <2>1, <2>2 DEF DiskInv, storage
<1>6. ASSUME NEW e \in Envelope, Stage(e) PROVE DiskInv'
  <2>1. Quiet /\ disk' = disk /\ mode' = mode /\ mode = "running" /\ inflight = None
    BY <1>6 DEF Stage, Waiting, Settled, Quiet
  <2>2. StoredTo(m)'
    BY <1>1, <1>3, <2>1 DEF StoredTo
  <2>3. staged' = e /\ Valid(e)' /\ inflight' = None
    BY <1>6, <2>1, ValidKept, LedgerAssumption DEF Stage, Quiet
  <2>4. StageHolds'
    BY <2>1, <2>3, <1>6 DEF StageHolds
  <2> QED
    BY <1>1, <2>2, <2>4 DEF DiskInv
<1>7. CASE PutSucceeds
  <2>1. /\ version + 1 \in 0..MaxVersion /\ StoredTo(version) /\ staged \in Envelope
        /\ DOMAIN disk' = {DurableKey(n) : n \in 1..(version + 1)}
        /\ disk'[DurableKey(version + 1)] = staged
        /\ \A n \in 1..version : disk'[DurableKey(n)] = disk[DurableKey(n)]
    BY <1>7, WriteAppends
  <2>2. /\ Now = version /\ Now' = version + 1
        /\ \A n \in 1..version : EnvelopeAt(n)' = EnvelopeAt(n)
        /\ \A n : n = version + 1 => EnvelopeAt(n)' = staged
    BY <1>7, WriteAppends, AppliedBegun, LedgerAssumption
  <2>3. ASSUME NEW n \in 1..(version + 1)
        PROVE  disk'[DurableKey(n)] = EnvelopeAt(n)' /\ disk'[DurableKey(n)] \in Envelope
    <3>1. n = version + 1 \/ n \in 1..version
      BY <1>2
    <3>2. CASE n \in 1..version
      BY <2>1, <2>2, <3>2 DEF StoredTo
    <3> QED
      BY <2>1, <2>2, <3>1, <3>2
  <2>4. PICK k \in 0..MaxVersion : k = version + 1
    BY <2>1
  <2>5. StoredTo(k)'
    BY <1>2, <2>1, <2>2, <2>3, <2>4 DEF StoredTo
  <2>6. StageHolds'
    BY <1>7 DEF PutSucceeds, StageHolds
  <2> QED
    BY <2>5, <2>6 DEF DiskInv
<1>8. CASE PutFails
  <2>1. Quiet /\ disk' = disk /\ mode' = mode /\ staged' = None
    BY <1>8 DEF PutFails, Quiet
  <2>2. StoredTo(m)'
    BY <1>1, <1>3, <2>1 DEF StoredTo
  <2> QED
    BY <1>1, <2>1, <2>2 DEF DiskInv, StageHolds
<1>9. CASE ApplyStep \/ Return \/ ReplayReturn
  <2>1. (Apply \/ Record) /\ UNCHANGED storage
    BY <1>9 DEF ApplyStep, Return, Publish, ReplayReturn
  <2>2. inflight # None \/ targets # {}
    BY <2>1 DEF Apply, Record, Applying, PersistObservation, CommitResolution, CreateIdentity,
       Promote, ChangeStatus, Merge, Split, Revert, Deactivate, EnqueueMaterialization, Materialized
  <2>3. StoredTo(m)'
    BY <1>1, <1>3, <2>1 DEF storage, StoredTo
  <2> QED
    BY <1>1, <1>4, <2>1, <2>2, <2>3, NotStaged DEF DiskInv, storage
<1>10. CASE ReplayRecord
  <2>1. mode = "opening" /\ inflight = None /\ UNCHANGED <<staged, disk, mode>> /\ staged = None
    BY <1>10 DEF ReplayRecord, Settled, storage, DiskInv, StageHolds
  <2> DEFINE e == Records[NextRecord].value
  <2>2. version + 1 \in 1..m /\ e = disk[DurableKey(version + 1)] /\ e \in Envelope
    <3>1. NextRecord = version + 1 /\ NextRecord <= m
      BY <1>1, <1>10, RecordsInOrder DEF ReplayRecord, Unread, NextRecord
    <3>2. version + 1 \in 1..m
      BY <1>2, <3>1
    <3> QED
      BY <1>1, <3>1, <3>2, RecordsInOrder DEF StoredTo
  <2>3. Start(e)
    BY <1>10 DEF ReplayRecord, Replayable, Start, Settled
  <2> HIDE DEF e
  <2>4. /\ Now = version /\ Now' = version + 1
        /\ \A n \in 1..version : EnvelopeAt(n)' = EnvelopeAt(n)
        /\ \A n : n = version + 1 => EnvelopeAt(n)' = e
    BY <2>2, <2>3, AppliedBegun, LedgerAssumption
  <2>5. \A n \in 1..(version + 1) : disk'[DurableKey(n)] = EnvelopeAt(n)'
    <3> SUFFICES ASSUME NEW n \in 1..(version + 1) PROVE disk'[DurableKey(n)] = EnvelopeAt(n)'
      OBVIOUS
    <3>1. n = version + 1 \/ n \in 1..version
      BY <1>2
    <3> QED
      BY <1>1, <2>1, <2>2, <2>4, <3>1 DEF StoredTo
  <2>6. StoredTo(m)'
    BY <1>1, <1>2, <2>1, <2>2, <2>4, <2>5 DEF StoredTo
  <2> QED
    BY <1>1, <1>4, <2>1, <2>6 DEF DiskInv
<1>11. CASE Crash
  <2>1. disk' = disk /\ mode' = "down" /\ staged' = None /\ Now' = 0
    BY <1>11 DEF Crash, Forget, Now
  <2>2. StoredTo(m)'
    BY <1>1, <1>2, <2>1 DEF StoredTo
  <2> QED
    BY <1>1, <2>1, <2>2 DEF DiskInv, StageHolds
<1>12. CASE Opened
  <2>1. UNCHANGED <<vars, staged, disk>> /\ mode = "opening" /\ inflight = None /\ staged = None
    BY <1>12 DEF Opened, Settled, DiskInv, StageHolds
  <2>2. Now = version /\ Now <= m
    BY <1>1, <2>1 DEF Now, StoredTo
  <2>3. mode' = "running" => m = Now
    <3> SUFFICES ASSUME mode' = "running" PROVE m = Now
      OBVIOUS
    <3>1. ~(version + 1 <= m)
      BY <1>1, <1>12, RecordsInOrder DEF Opened, Unread, NextRecord
    <3> QED
      BY <1>2, <2>2, <3>1
  <2>4. Quiet
    BY <2>1 DEF vars, control, Quiet
  <2>5. StoredTo(m)'
    BY <1>3, <2>1, <2>3, <2>4
  <2> QED
    BY <1>1, <1>4, <2>1, <2>5 DEF DiskInv
<1>13. CASE Reopen \/ ScanFails
  <2>1. Quiet /\ UNCHANGED <<staged, disk>> /\ mode' # "running" /\ mode # "running"
    BY <1>13 DEF Reopen, ScanFails, vars, control, Quiet
  <2>2. StoredTo(m)'
    BY <1>3, <2>1
  <2> QED
    BY <1>1, <1>4, <2>1, <2>2 DEF DiskInv, StageHolds
<1>14. CASE UNCHANGED durablevars
  <2>1. Quiet /\ UNCHANGED <<staged, disk, mode, state, inflight>>
    BY <1>14 DEF durablevars, storage, vars, control, Quiet
  <2>2. StoredTo(m)'
    BY <1>1, <1>3, <2>1 DEF StoredTo
  <2>3. StageHolds'
    BY <2>1, ValidKept, LedgerAssumption DEF StageHolds, DiskInv
  <2> QED
    BY <1>1, <2>2, <2>3 DEF DiskInv
<1> QED
  BY <1>5, <1>6, <1>7, <1>8, <1>9, <1>10, <1>11, <1>12, <1>13, <1>14
     DEF DurableNext, Running, Opening

-----------------------------------------------------------------------------
(***************************************************************************)
(* The stored records as a log: the refinement mapping of DurableContract. *)
(***************************************************************************)

(* The empty store is the empty log.                                       *)
LEMMA DurableContractInit == DurableInit => DurableContract!Init
<1> SUFFICES ASSUME DurableInit PROVE DurableContract!Init
  OBVIOUS
<1>1. disk = EmptyMap /\ outcome = Answer("None", 0, None)
  BY DEF DurableInit, Init
<1>2. DOMAIN disk = {DurableKey(n) : n \in 1..0} /\ 0 \in 0..MaxVersion
  BY <1>1, LedgerAssumption DEF EmptyMap
<1>3. Records = [n \in 1..0 |-> [key |-> DurableKey(n), value |-> disk[DurableKey(n)]]]
  BY <1>2, ScanInOrder DEF Records
<1>4. Stored = <<>>
  BY <1>3 DEF Stored
<1> QED
  BY <1>1, <1>4 DEF DurableContract!Init, DurableContract!Reply, Answer, Stored

(* What is committed is stored: the log is a prefix of the records, and    *)
(* what is being applied follows it.                                       *)
LEMMA LogIsStored ==
    ASSUME LedgerInv, LogConsistent, DiskInv
    PROVE  /\ DOMAIN transactions \subseteq DOMAIN Stored
           /\ \A n \in DOMAIN transactions : Stored[n] = transactions[n].envelope
           /\ inflight # None =>
                  next_version \in DOMAIN Stored /\ Stored[next_version] = inflight
<1>1. PICK m \in 0..MaxVersion : StoredTo(m)
  BY DEF DiskInv
<1>2. Stored = [n \in 1..m |-> disk[DurableKey(n)]] /\ m \in Nat
  BY <1>1, RecordsInOrder
<1>3. /\ version \in Nat /\ next_version = version + 1 /\ DOMAIN transactions = 1..version
      /\ EnvelopeAt(next_version) = inflight
      /\ \A n \in 1..version : EnvelopeAt(n) = transactions[n].envelope
  BY VersionsOfLog
<1>4. Now \in {version, version + 1} /\ (inflight # None => Now = version + 1) /\ Now <= m
  BY <1>1, <1>3 DEF Now, StoredTo
<1>5. \A n \in 1..Now : n \in 1..m /\ Stored[n] = EnvelopeAt(n)
  BY <1>1, <1>2, <1>3, <1>4 DEF StoredTo
<1>6. DOMAIN Stored = 1..m
  BY <1>2
<1>7. \A n \in 1..version : n \in 1..Now
  BY <1>3, <1>4
<1>8. inflight # None => next_version \in 1..Now
  BY <1>3, <1>4
<1> QED
  BY <1>3, <1>5, <1>6, <1>7, <1>8

(* A write adds the record after those that are stored.                    *)
LEMMA WriteStored ==
    ASSUME LedgerInv, LogConsistent, DiskInv, PutSucceeds
    PROVE  Stored' = Append(Stored, staged)
<1>1. /\ version + 1 \in 0..MaxVersion /\ StoredTo(version) /\ staged \in Envelope
      /\ DOMAIN disk' = {DurableKey(n) : n \in 1..(version + 1)}
      /\ disk'[DurableKey(version + 1)] = staged
      /\ \A n \in 1..version : disk'[DurableKey(n)] = disk[DurableKey(n)]
  BY WriteAppends
<1>2. PICK e \in Envelope : e = staged
  BY <1>1
<1>3. version \in Nat /\ version \in 0..MaxVersion
  BY DEF LedgerInv, TypeOK, LogTypeOK
<1>4. /\ Stored = [n \in 1..version |-> disk[DurableKey(n)]]
      /\ Stored \in Seq(Envelope) /\ Len(Stored) = version
  BY <1>1, <1>3, RecordsInOrder
<1>5. Stored' = Append(Stored, e)
  <2> DEFINE n == version + 1
  <2>1. PrefixScan(disk') =
            [k \in 1..n |-> [key |-> DurableKey(k), value |-> disk'[DurableKey(k)]]]
    BY <1>1, ScanInOrder
  <2>2. Stored' = [k \in 1..n |-> disk'[DurableKey(k)]]
    BY <2>1 DEF Stored, Records
  <2>3. /\ Append(Stored, e) \in Seq(Envelope) /\ Len(Append(Stored, e)) = n
        /\ Append(Stored, e)[n] = e
        /\ \A k \in 1..version : Append(Stored, e)[k] = disk[DurableKey(k)]
    BY <1>2, <1>3, <1>4
  <2>4. ASSUME NEW k \in 1..n
        PROVE  disk'[DurableKey(k)] = Append(Stored, e)[k] /\ disk'[DurableKey(k)] \in Envelope
    <3>1. k = n \/ k \in 1..version
      BY <1>3
    <3>2. CASE k \in 1..version
      BY <1>1, <2>3, <3>2 DEF StoredTo
    <3> QED
      BY <1>1, <1>2, <2>3, <3>1, <3>2
  <2>5. n \in Nat
    BY <1>3
  <2> HIDE DEF n
  <2>6. Stored' \in Seq(Envelope) /\ Len(Stored') = n
    BY <2>2, <2>4, <2>5
  <2>7. \A k \in 1..n : Stored'[k] = Append(Stored, e)[k]
    BY <2>2, <2>4
  <2> QED
    BY <2>3, <2>6, <2>7, SeqEqual
<1> QED
  BY <1>2, <1>5

(* A write that succeeds adds the entry, whose key and transaction are new *)
(* and whose dependencies are there; the caller does not know yet.         *)
LEMMA WriteIsAdd ==
    ASSUME LedgerInv, LogConsistent, DiskInv, PutSucceeds
    PROVE  DurableContract!Next
<1>1. /\ version < MaxVersion /\ version + 1 \in 0..MaxVersion /\ StoredTo(version)
      /\ staged \in Envelope /\ Start(staged)
      /\ DOMAIN disk' = {DurableKey(n) : n \in 1..(version + 1)}
      /\ disk'[DurableKey(version + 1)] = staged
      /\ \A n \in 1..version : disk'[DurableKey(n)] = disk[DurableKey(n)]
  BY WriteAppends
<1>2. PICK e \in Envelope : e = staged
  BY <1>1
<1>3. /\ version \in Nat /\ DOMAIN transactions = 1..version
      /\ version \in 0..MaxVersion /\ MaxVersion \in Nat
  BY VersionsOfLog, LedgerAssumption DEF LedgerInv, TypeOK, LogTypeOK
<1>4. /\ Stored = [n \in 1..version |-> disk[DurableKey(n)]]
      /\ Stored \in Seq(Envelope) /\ Len(Stored) = version
  BY <1>1, <1>3, RecordsInOrder
<1>5. \A n \in 1..version : Stored[n] = transactions[n].envelope
  BY <1>3, LogIsStored
<1>6. e.expected_version = version /\ Valid(e)
  BY <1>1, <1>2 DEF Start, Valid, SnapshotCurrent
<1>7. \A n \in 1..version : Stored[n].idempotency # e.idempotency
                            /\ Stored[n].transaction # e.transaction
  <2>1. \A n \in 1..version : /\ transactions[n].envelope.idempotency \in DOMAIN idempotency
                              /\ transactions[n].envelope.transaction \in DOMAIN transaction_indexes
    BY <1>3 DEF LogConsistent
  <2>2. e.idempotency \notin DOMAIN idempotency /\ e.transaction \notin DOMAIN transaction_indexes
    BY <1>6 DEF Valid, FreshKey, NewTransaction
  <2> QED
    BY <1>5, <2>1, <2>2
<1>8. \A t \in e.depends_on : \E n \in 1..version : Stored[n].transaction = t
  <2> SUFFICES ASSUME NEW t \in e.depends_on
               PROVE  \E n \in 1..version : Stored[n].transaction = t
    OBVIOUS
  <2>1. t \in DOMAIN transaction_indexes
    BY <1>6 DEF Valid, DependenciesActive, IsActive
  <2>2. transaction_indexes[t] \in 1..version /\ Committed(t).transaction = t
    BY <1>3, <2>1 DEF LogConsistent, LedgerInv, TypeOK, LogTypeOK
  <2> QED
    BY <1>5, <2>2 DEF Committed
<1>9. Stored' = Append(Stored, e)
  BY <1>2, WriteStored
<1>10. outcome' = outcome
  BY DEF PutSucceeds
<1>11. DOMAIN Stored = 1..version
  BY <1>4
<1>12. DurableContract!Add(e)
  BY <1>1, <1>4, <1>6, <1>7, <1>8, <1>9, <1>10, <1>11 DEF DurableContract!Add, Stored
<1> QED
  BY <1>12 DEF DurableContract!Next

(* An answer that grants a stored entry, or nothing, while the store stays *)
(* as it is.                                                               *)
LEMMA AnswerOfStore ==
    ASSUME disk' = disk,
           \/ \E n \in DOMAIN Stored : \E result \in {"Committed", "Replayed"} :
                  outcome' = Answer(result, n, Stored[n])
           \/ outcome'.result \notin {"Committed", "Replayed"}
           \/ outcome' = outcome
    PROVE  DurableContract!Next \/ (Stored' = Stored /\ outcome' = outcome)
<1>1. Stored' = Stored
  BY DEF Stored, Records
<1>2. CASE outcome'.result \notin {"Committed", "Replayed"}
  BY <1>1, <1>2 DEF DurableContract!Next, DurableContract!NoGrant, DurableContract!Granted, Stored
<1>3. ASSUME NEW n \in DOMAIN Stored, NEW result \in {"Committed", "Replayed"},
             outcome' = Answer(result, n, Stored[n])
      PROVE  DurableContract!Next
  <2>1. DurableContract!Grant(n)
    BY <1>1, <1>3 DEF DurableContract!Grant, DurableContract!Granted, DurableContract!Reply, Answer,
       Stored
  <2> QED
    BY <1>3, <2>1 DEF DurableContract!Next, Stored
<1> QED
  BY <1>1, <1>2, <1>3

(* Every step of the durable ledger is a step of the log, or none.         *)
LEMMA DurableContractStep ==
    LedgerInv /\ LogConsistent /\ DiskInv /\ [DurableNext]_durablevars =>
        [DurableContract!Next]_DurableContract!logvars
<1> SUFFICES ASSUME LedgerInv, LogConsistent, DiskInv, [DurableNext]_durablevars
             PROVE  DurableContract!Next \/ (Stored' = Stored /\ outcome' = outcome)
  BY DEF DurableContract!logvars, Stored
<1>1. CASE Respond
  <2>1. disk' = disk /\ \E e \in CommandEnvelope : Answered(e)
    BY <1>1, LedgerAssumption DEF Respond, Prepare, storage
  <2>2. \/ \E n \in DOMAIN Stored : outcome' = Answer("Replayed", n, Stored[n])
        \/ outcome'.result \notin {"Committed", "Replayed"}
    BY <2>1, PrepareAnswers, LogIsStored
  <2> QED
    BY <2>1, <2>2, AnswerOfStore
<1>2. ASSUME NEW e \in Envelope, Stage(e)
      PROVE  DurableContract!Next \/ (Stored' = Stored /\ outcome' = outcome)
  BY <1>2, AnswerOfStore DEF Stage, Answer
<1>3. CASE PutSucceeds
  BY <1>3, WriteIsAdd
<1>4. CASE PutFails
  BY <1>4, AnswerOfStore DEF PutFails, Answer
<1>5. CASE Return
  <2>1. disk' = disk /\ inflight # None /\ outcome' = Answer("Committed", next_version, inflight)
    BY <1>5 DEF Return, Publish, Record, storage
  <2> QED
    BY <2>1, LogIsStored, AnswerOfStore
<1>6. CASE Crash
  BY <1>6, AnswerOfStore DEF Crash, Answer
<1>7. CASE ApplyStep
  <2>1. disk' = disk /\ outcome' = outcome
    BY <1>7 DEF ApplyStep, storage, Apply, PersistObservation, CommitResolution, CreateIdentity,
       Promote, ChangeStatus, Merge, Split, Revert, Deactivate, EnqueueMaterialization,
       Materialized, Advance
  <2> QED
    BY <2>1, AnswerOfStore
<1>8. CASE ReplayRecord \/ ReplayReturn \/ Opened \/ Reopen \/ ScanFails \/ UNCHANGED durablevars
  BY <1>8, AnswerOfStore DEF ReplayRecord, ReplayReturn, Opened, Reopen, ScanFails, durablevars,
     storage, vars, control
<1> QED
  BY <1>1, <1>2, <1>3, <1>4, <1>5, <1>6, <1>7, <1>8 DEF DurableNext, Running, Opening

-----------------------------------------------------------------------------
(* The durable ledger keeps the invariants of the memory ledger: its steps *)
(* keep them, and a crash starts again from the empty tables.              *)
DurableInv == LedgerInv /\ LogConsistent /\ ReceiptsInv /\ DiskInv

(* A new durable ledger is an empty one.                                   *)
LEMMA InitDurable == DurableInit => DurableInv
BY InitInv, InitCurrent, InitReceipts, InitDisk DEF DurableInv, DurableInit

(* The invariant holds throughout.                                         *)
THEOREM DurableInvHolds == DurableSpec => []DurableInv
<1>1. LedgerInv /\ LogConsistent /\ ReceiptsInv /\ TableStep =>
          (LedgerInv /\ LogConsistent /\ ReceiptsInv)'
  BY StepInv, LogStep, ReceiptsInvStep
<1> QED
  BY <1>1, InitInv, InitCurrent, InitReceipts, InitDurable, DurableTables, DiskInvStep, PTL
     DEF DurableSpec, DurableInv

(* Through crashes, replays and failed writes: between commits an outbox   *)
(* entry stands for the command of the active transaction that was         *)
(* committed at the entry's version, after its decision.                   *)
THEOREM DurableOutboxIsJustified == DurableSpec => []OutboxJustified
<1>1. DurableInv => OutboxJustified
  BY OutboxFromLog DEF DurableInv, ReceiptsInv
<1> QED
  BY <1>1, DurableInvHolds, PTL

(* ... and completion and receipts agree.                                  *)
THEOREM DurableReceiptsMatch == DurableSpec => []ReceiptsMatch
<1>1. DurableInv => ReceiptsMatch
  BY ReceiptsFromLog DEF DurableInv, ReceiptsInv
<1> QED
  BY <1>1, DurableInvHolds, PTL

(* The durable ledger implements the append-only log: what the backend has *)
(* taken is never lost, added twice or reordered, and every answer is true *)
(* of it.                                                                  *)
THEOREM DurableImplementsLog == DurableSpec => ImplementsDurableLog
BY DurableInvHolds, DurableContractInit, DurableContractStep, PTL
   DEF DurableSpec, DurableInv, ImplementsDurableLog, DurableContract!Spec

-----------------------------------------------------------------------------
(***************************************************************************)
(* Replay is deterministic.  A memory is the value of the ledger's tables  *)
(* and of the commit under way; At(s) reads the ledger at the memory s.    *)
(***************************************************************************)
Memory ==
    [observations |-> observations, observation_commits |-> observation_commits,
     inferences |-> inferences, decisions |-> decisions,
     current_inference |-> current_inference, current_decision |-> current_decision,
     identities |-> identities, promotions |-> promotions, merges |-> merges,
     canonical |-> canonical, outbox |-> outbox, receipts |-> receipts,
     version |-> version, transactions |-> transactions,
     transaction_indexes |-> transaction_indexes, dependents |-> dependents,
     idempotency |-> idempotency, inflight |-> inflight, cursor |-> cursor,
     targets |-> targets]

At(s) == INSTANCE Ledger WITH
    observations <- s.observations, observation_commits <- s.observation_commits,
    inferences <- s.inferences, decisions <- s.decisions,
    current_inference <- s.current_inference, current_decision <- s.current_decision,
    identities <- s.identities, promotions <- s.promotions, merges <- s.merges,
    canonical <- s.canonical, outbox <- s.outbox, receipts <- s.receipts,
    version <- s.version, transactions <- s.transactions,
    transaction_indexes <- s.transaction_indexes, dependents <- s.dependents,
    idempotency <- s.idempotency, inflight <- s.inflight, cursor <- s.cursor,
    targets <- s.targets, outcome <- None

(* The memory s with the tables of u in the place of its own.              *)
Updated(s, u) == [f \in DOMAIN s |-> IF f \in DOMAIN u THEN u[f] ELSE s[f]]

(***************************************************************************)
(* What one step of a replay makes of a memory: the arms of apply.         *)
(***************************************************************************)
Began(s, e) == Updated(s, [inflight |-> e, cursor |-> 1])

Persisted(s, c) ==
    Updated(s, [observations |-> Insert(s.observations, c.observation, c.supersedes),
                observation_commits |->
                    Insert(s.observation_commits, c.observation, s.version + 1),
                cursor |-> s.cursor + 1])

ResolutionAdded(s, c) ==
    LET o == c.inference.observation
        i == c.inference.id
    IN  Updated(s,
            [inferences |-> Insert(At(s)!CloseCurrent(s.inferences, s.current_inference, {o}), i,
                [observation |-> o, validity |-> Current(c.inference.begin)]),
             decisions |-> Insert(At(s)!CloseCurrent(s.decisions, s.current_decision, {o}),
                c.decision.id, [inference |-> i, validity |-> Current(c.decision.begin)]),
             current_inference |-> Insert(s.current_inference, o, i),
             current_decision |-> Insert(s.current_decision, o, c.decision.id),
             identities |-> IF c.created = None THEN s.identities
                            ELSE Insert(s.identities, c.created, "Active"),
             canonical |-> IF c.created = None THEN s.canonical
                           ELSE At(s)!InsertCanonical(c.created),
             cursor |-> s.cursor + 1])

Created(s, c) ==
    Updated(s, [identities |-> Insert(s.identities, c.identity, "Active"),
                canonical |-> At(s)!InsertCanonical(c.identity),
                cursor |-> s.cursor + 1])

Promoted(s, c) ==
    Updated(s, [identities |-> Insert(s.identities, c.identity, "Resolved"),
                promotions |-> Insert(s.promotions, c.identity, c.target),
                cursor |-> s.cursor + 1])

StatusChanged(s, c) ==
    Updated(s, [identities |-> Insert(s.identities, c.identity, WrittenStatus(c.kind)),
                cursor |-> s.cursor + 1])

Joined(s, c) ==
    LET left == s.canonical[c.left]
        right == s.canonical[c.right]
    IN  Updated(s,
            [merges |-> Insert(s.merges, c.decision,
                [left |-> c.left, right |-> c.right, validity |-> Current(s.version + 1),
                 transaction |-> s.inflight.transaction]),
             canonical |-> Union(s.canonical, c.left, c.right),
             identities |-> IF left = right THEN s.identities
                            ELSE UnionStatuses(s.identities, Least({left, right}),
                                               Greatest({left, right})),
             cursor |-> s.cursor + 1])

Divided(s, c) ==
    LET named == {p.identity : p \in c.partitions}
        statuses == [id \in DOMAIN s.identities |->
                        IF id \in named THEN "Active" ELSE s.identities[id]]
        merged == At(s)!CloseMerges(c.close_merges)
        classes == At(s)!RebuildClasses(merged)
    IN  Updated(s, [merges |-> merged, canonical |-> classes,
                    identities |-> RebuildStatuses(statuses, classes),
                    cursor |-> s.cursor + 1])

Reverting(s, c) ==
    IF c.mode = "Compensating"
    THEN Updated(s, [cursor |-> s.cursor + 1])
    ELSE Updated(s, [targets |-> At(s)!RevertTargets(c.transaction, c.mode)])

Deactivated(s, t) ==
    LET withdrawn == At(s)!Withdrawn(t)
        merged == At(s)!CloseMerges(At(s)!OpenMergesOf(t))
        classes == At(s)!RebuildClasses(merged)
    IN  Updated(s,
            [transactions |->
                [s.transactions EXCEPT ![s.transaction_indexes[t]] = Inactive(@)],
             inferences |-> At(s)!CloseCurrent(s.inferences, s.current_inference, withdrawn),
             decisions |-> At(s)!EndDecisions(
                At(s)!CloseCurrent(s.decisions, s.current_decision, withdrawn), At(s)!Decided(t)),
             current_inference |-> Remove(s.current_inference, withdrawn),
             current_decision |-> Remove(s.current_decision, withdrawn),
             merges |-> merged, canonical |-> classes,
             identities |-> RebuildStatuses(s.identities, classes),
             outbox |-> Remove(s.outbox, At(s)!Enqueued(t)),
             targets |-> s.targets \ {t},
             cursor |-> IF s.targets \ {t} = {} THEN s.cursor + 1 ELSE s.cursor])

Queued(s, c) ==
    Updated(s, [outbox |-> Insert(s.outbox, c.materialization,
                    [decision |-> c.decision, relation |-> c.relation,
                     commit |-> s.version + 1, completed |-> FALSE]),
                cursor |-> s.cursor + 1])

Delivered(s, c) ==
    Updated(s, [outbox |-> At(s)!Complete(c.materialization),
                receipts |-> Append(s.receipts,
                    [materialization |-> c.materialization, decision |-> c.decision,
                     commit |-> s.version + 1]),
                cursor |-> s.cursor + 1])

Logged(s, e) ==
    Updated(s, [dependents |-> At(s)!RecordDependents(e),
                transactions |-> Append(s.transactions,
                    [version |-> s.version + 1, envelope |-> e, active |-> TRUE]),
                transaction_indexes |->
                    Insert(s.transaction_indexes, e.transaction, Len(s.transactions) + 1),
                idempotency |-> Insert(s.idempotency, e.idempotency,
                    [version |-> s.version + 1, transaction |-> e.transaction]),
                version |-> s.version + 1, inflight |-> None, cursor |-> 0])

Applied(s, c) ==
    CASE c.kind = "PersistObservation"                   -> Persisted(s, c)
      [] c.kind = "CommitResolution"                     -> ResolutionAdded(s, c)
      [] c.kind = "CreateIdentity"                       -> Created(s, c)
      [] c.kind = "Promote"                              -> Promoted(s, c)
      [] c.kind = "Merge"                                -> Joined(s, c)
      [] c.kind = "Split"                                -> Divided(s, c)
      [] c.kind = "Revert"                               -> Reverting(s, c)
      [] c.kind = "EnqueueMaterialization"               -> Queued(s, c)
      [] c.kind = "Materialized"                         -> Delivered(s, c)
      [] c.kind \in {"Dormant", "Reactivate", "Retire"}  -> StatusChanged(s, c)

(* The step that follows the memory s when the records E are replayed.     *)
Step(s, E) ==
    IF s.inflight = None THEN Began(s, E[s.version + 1])
    ELSE IF s.targets # {} THEN Deactivated(s, At(s)!NextTarget)
    ELSE IF s.cursor = Len(s.inflight.commands) + 1 THEN Logged(s, s.inflight)
    ELSE Applied(s, s.inflight.commands[s.cursor])

-----------------------------------------------------------------------------
(* The ledger at the memory of the process is the ledger.                  *)
LEMMA ReadAtMemory ==
    /\ \A R, cur, S : At(Memory)!CloseCurrent(R, cur, S) = CloseCurrent(R, cur, S)
    /\ \A id : At(Memory)!InsertCanonical(id) = InsertCanonical(id)
    /\ \A S : At(Memory)!CloseMerges(S) = CloseMerges(S)
    /\ \A R : At(Memory)!RebuildClasses(R) = RebuildClasses(R)
    /\ \A t, m : At(Memory)!RevertTargets(t, m) = RevertTargets(t, m)
    /\ At(Memory)!NextTarget = NextTarget
    /\ \A t : At(Memory)!Withdrawn(t) = Withdrawn(t)
    /\ \A t : At(Memory)!OpenMergesOf(t) = OpenMergesOf(t)
    /\ \A t : At(Memory)!Decided(t) = Decided(t)
    /\ \A t : At(Memory)!Enqueued(t) = Enqueued(t)
    /\ \A R, S : At(Memory)!EndDecisions(R, S) = EndDecisions(R, S)
    /\ \A m : At(Memory)!Complete(m) = Complete(m)
    /\ \A e : At(Memory)!RecordDependents(e) = RecordDependents(e)
<1>1. \A R, cur, S : At(Memory)!CloseCurrent(R, cur, S) = CloseCurrent(R, cur, S)
  BY DEF CloseCurrent, At!CloseCurrent, next_version, At!next_version, EndAt, At!EndAt, Memory
<1>2. \A id : At(Memory)!InsertCanonical(id) = InsertCanonical(id)
  BY DEF InsertCanonical, At!InsertCanonical, Insert, At!Insert, Memory
<1>3. \A S : At(Memory)!CloseMerges(S) = CloseMerges(S)
  BY DEF CloseMerges, At!CloseMerges, next_version, At!next_version, EndAt, At!EndAt, Memory
<1>4. \A R : At(Memory)!RebuildClasses(R) = RebuildClasses(R)
  BY DEF RebuildClasses, At!RebuildClasses, Least, At!Least, Reachable, At!Reachable,
     OpenEdges, At!OpenEdges, IsOpen, At!IsOpen, Open, At!Open, Memory
<1>5. \A t, m : At(Memory)!RevertTargets(t, m) = RevertTargets(t, m)
  BY DEF RevertTargets, At!RevertTargets, Reachable, At!Reachable, Dependence, At!Dependence, Memory
<1>6. At(Memory)!NextTarget = NextTarget
  <2>1. ASSUME NEW x, NEW successors, NEW place, NEW n
        PROVE  At(Memory)!BreadthFirst(x, successors, place, n) = BreadthFirst(x, successors, place, n)
    BY Zenon DEF BreadthFirst, At!BreadthFirst, Least, At!Least, Lookup, At!Lookup
  <2>2. \A S : At(Memory)!Least(S) = Least(S)
    BY DEF Least, At!Least
  <2> DEFINE order == BreadthFirst(command.transaction, dependents, transaction_indexes,
                                   Len(transactions))
             there == At(Memory)!BreadthFirst(command.transaction, dependents,
                                              transaction_indexes, Len(transactions))
  <2>3. At(Memory)!NextTarget = there[At(Memory)!Least({n \in DOMAIN there : there[n] \in targets})]
    BY SMT DEF At!NextTarget, command, At!command, Memory
  <2>4. NextTarget = order[Least({n \in DOMAIN order : order[n] \in targets})]
    BY DEF NextTarget
  <2>5. there = order
    BY <2>1
  <2> HIDE DEF order, there
  <2> QED
    BY <2>2, <2>3, <2>4, <2>5
<1>7. \A t, k : At(Memory)!Commands(t, k) = Commands(t, k)
  BY DEF Commands, At!Commands, Memory
<1>8. \A t : At(Memory)!Withdrawn(t) = Withdrawn(t)
  BY <1>7, SMT DEF Withdrawn, At!Withdrawn, Memory
<1>9. \A t : At(Memory)!OpenMergesOf(t) = OpenMergesOf(t)
  BY <1>7, SMT DEF OpenMergesOf, At!OpenMergesOf, IsOpen, At!IsOpen, Open, At!Open, Memory
<1>10. \A t : At(Memory)!Decided(t) = Decided(t)
  BY <1>7, SMT DEF Decided, At!Decided
<1>11. \A t : At(Memory)!Enqueued(t) = Enqueued(t)
  BY <1>7, SMT DEF Enqueued, At!Enqueued
<1>12. \A R, S : At(Memory)!EndDecisions(R, S) = EndDecisions(R, S)
  BY DEF EndDecisions, At!EndDecisions, next_version, At!next_version, EndAt, At!EndAt, Memory
<1>13. \A m : At(Memory)!Complete(m) = Complete(m)
  BY DEF Complete, At!Complete, Memory
<1>14. \A e : At(Memory)!RecordDependents(e) = RecordDependents(e)
  BY DEF At!RecordDependents, RecordDependents, Lookup, At!Lookup, Memory
<1> QED
  BY <1>1, <1>2, <1>3, <1>4, <1>5, <1>6, <1>8, <1>9, <1>10, <1>11, <1>12, <1>13, <1>14, SMT

(* An observation is persisted.                                            *)
LEMMA PersistObservationStep == PersistObservation => Memory' = Persisted(Memory, command)
<1> SUFFICES ASSUME PersistObservation PROVE Memory' = Persisted(Memory, command)
  OBVIOUS
<1> DEFINE u == [observations |-> Insert(observations, command.observation, command.supersedes),
                 observation_commits |-> Insert(observation_commits, command.observation, version + 1),
                 cursor |-> cursor + 1]
<1>1. Persisted(Memory, command) = Updated(Memory, u)
  BY SMT DEF Persisted, Memory
<1>2. /\ u.observations = observations'
      /\ u.observation_commits = observation_commits'
      /\ u.cursor = cursor'
  BY DEF PersistObservation, Advance, next_version
<1>3. DOMAIN u = {"observations", "observation_commits", "cursor"}
  OBVIOUS
<1>4. UNCHANGED <<inferences, decisions, current_inference, current_decision, identities,
                 promotions, merges, canonical, outbox, receipts, version, transactions,
                 transaction_indexes, dependents, idempotency, inflight, targets>>
  BY DEF PersistObservation, Advance, evidence, lineage, identity_index, delivery, log
<1> HIDE DEF u
<1> QED
  BY <1>1, <1>2, <1>3, <1>4 DEF Updated, Memory

(* A resolution is committed.                                              *)
LEMMA CommitResolutionStep == CommitResolution => Memory' = ResolutionAdded(Memory, command)
<1> SUFFICES ASSUME CommitResolution PROVE Memory' = ResolutionAdded(Memory, command)
  OBVIOUS
<1> DEFINE o == command.inference.observation
           i == command.inference.id
           id == command.created
           u == [inferences |-> Insert(CloseCurrent(inferences, current_inference, {o}), i,
                    [observation |-> o, validity |-> Current(command.inference.begin)]),
                 decisions |-> Insert(CloseCurrent(decisions, current_decision, {o}),
                    command.decision.id,
                    [inference |-> i, validity |-> Current(command.decision.begin)]),
                 current_inference |-> Insert(current_inference, o, i),
                 current_decision |-> Insert(current_decision, o, command.decision.id),
                 identities |-> IF id = None THEN identities ELSE Insert(identities, id, "Active"),
                 canonical |-> IF id = None THEN canonical ELSE InsertCanonical(id),
                 cursor |-> cursor + 1]
<1>1. /\ At(Memory)!CloseCurrent(inferences, current_inference, {o}) =
              CloseCurrent(inferences, current_inference, {o})
      /\ At(Memory)!CloseCurrent(decisions, current_decision, {o}) =
              CloseCurrent(decisions, current_decision, {o})
      /\ At(Memory)!InsertCanonical(id) = InsertCanonical(id)
  BY ReadAtMemory, SMT
<1>2. ResolutionAdded(Memory, command) = Updated(Memory, u)
  BY <1>1, SMT DEF ResolutionAdded, Memory
<1>3. /\ u.inferences = inferences'
      /\ u.decisions = decisions'
      /\ u.current_inference = current_inference'
      /\ u.current_decision = current_decision'
      /\ u.identities = identities'
      /\ u.canonical = canonical'
      /\ u.cursor = cursor'
  BY DEF CommitResolution, Advance
<1>4. DOMAIN u = {"inferences", "decisions", "current_inference", "current_decision",
                  "identities", "canonical", "cursor"}
  OBVIOUS
<1>5. UNCHANGED <<observations, observation_commits, promotions, merges, outbox, receipts,
                 version, transactions, transaction_indexes, dependents, idempotency,
                 inflight, targets>>
  BY DEF CommitResolution, Advance, evidence, lineage, identity_index, delivery, log
<1> HIDE DEF u
<1> QED
  BY <1>2, <1>3, <1>4, <1>5 DEF Updated, Memory

(* An identity is created.                                                 *)
LEMMA CreateIdentityStep == CreateIdentity => Memory' = Created(Memory, command)
<1> SUFFICES ASSUME CreateIdentity PROVE Memory' = Created(Memory, command)
  OBVIOUS
<1> DEFINE id == command.identity
           u == [identities |-> Insert(identities, id, "Active"),
                 canonical |-> InsertCanonical(id),
                 cursor |-> cursor + 1]
<1>1. At(Memory)!InsertCanonical(id) = InsertCanonical(id)
  BY ReadAtMemory, SMT
<1>2. Created(Memory, command) = Updated(Memory, u)
  BY <1>1, SMT DEF Created, Memory
<1>3. /\ u.identities = identities'
      /\ u.canonical = canonical'
      /\ u.cursor = cursor'
  BY DEF CreateIdentity, Advance
<1>4. DOMAIN u = {"identities", "canonical", "cursor"}
  OBVIOUS
<1>5. UNCHANGED <<observations, observation_commits, inferences, decisions, current_inference,
                 current_decision, promotions, merges, outbox, receipts, version,
                 transactions, transaction_indexes, dependents, idempotency, inflight,
                 targets>>
  BY DEF CreateIdentity, Advance, evidence, lineage, identity_index, delivery, log
<1> HIDE DEF u
<1> QED
  BY <1>2, <1>3, <1>4, <1>5 DEF Updated, Memory

(* An identity is promoted.                                                *)
LEMMA PromoteStep == Promote => Memory' = Promoted(Memory, command)
<1> SUFFICES ASSUME Promote PROVE Memory' = Promoted(Memory, command)
  OBVIOUS
<1> DEFINE u == [identities |-> Insert(identities, command.identity, "Resolved"),
                 promotions |-> Insert(promotions, command.identity, command.target),
                 cursor |-> cursor + 1]
<1>1. Promoted(Memory, command) = Updated(Memory, u)
  BY SMT DEF Promoted, Memory
<1>2. /\ u.identities = identities'
      /\ u.promotions = promotions'
      /\ u.cursor = cursor'
  BY DEF Promote, Advance
<1>3. DOMAIN u = {"identities", "promotions", "cursor"}
  OBVIOUS
<1>4. UNCHANGED <<observations, observation_commits, inferences, decisions, current_inference,
                 current_decision, merges, canonical, outbox, receipts, version,
                 transactions, transaction_indexes, dependents, idempotency, inflight,
                 targets>>
  BY DEF Promote, Advance, evidence, lineage, identity_index, delivery, log
<1> HIDE DEF u
<1> QED
  BY <1>1, <1>2, <1>3, <1>4 DEF Updated, Memory

(* Two identities are merged.                                              *)
LEMMA MergeStep == Merge => Memory' = Joined(Memory, command)
<1> SUFFICES ASSUME Merge PROVE Memory' = Joined(Memory, command)
  OBVIOUS
<1> DEFINE left == canonical[command.left]
           right == canonical[command.right]
           u == [merges |-> Insert(merges, command.decision,
                    [left |-> command.left, right |-> command.right,
                     validity |-> Current(version + 1), transaction |-> inflight.transaction]),
                 canonical |-> Union(canonical, command.left, command.right),
                 identities |-> IF left = right THEN identities
                    ELSE UnionStatuses(identities, Least({left, right}), Greatest({left, right})),
                 cursor |-> cursor + 1]
<1>1. Joined(Memory, command) = Updated(Memory, u)
  BY SMT DEF Joined, Memory
<1>2. /\ u.merges = merges'
      /\ u.canonical = canonical'
      /\ u.identities = identities'
      /\ u.cursor = cursor'
  BY DEF Merge, Advance, next_version
<1>3. DOMAIN u = {"merges", "canonical", "identities", "cursor"}
  OBVIOUS
<1>4. UNCHANGED <<observations, observation_commits, inferences, decisions, current_inference,
                 current_decision, promotions, outbox, receipts, version, transactions,
                 transaction_indexes, dependents, idempotency, inflight, targets>>
  BY DEF Merge, Advance, evidence, lineage, identity_index, delivery, log
<1> HIDE DEF u
<1> QED
  BY <1>1, <1>2, <1>3, <1>4 DEF Updated, Memory

(* Merges are closed and identities divided.                               *)
LEMMA SplitStep == Split => Memory' = Divided(Memory, command)
<1> SUFFICES ASSUME Split PROVE Memory' = Divided(Memory, command)
  OBVIOUS
<1> DEFINE named == {p.identity : p \in command.partitions}
           statuses == [id \in DOMAIN identities |->
                            IF id \in named THEN "Active" ELSE identities[id]]
           merged == CloseMerges(command.close_merges)
           classes == RebuildClasses(merged)
           u == [merges |-> merged,
                 canonical |-> classes,
                 identities |-> RebuildStatuses(statuses, classes),
                 cursor |-> cursor + 1]
<1>1. /\ At(Memory)!CloseMerges(command.close_merges) = merged
      /\ At(Memory)!RebuildClasses(merged) = classes
  BY ReadAtMemory, SMT
<1>2. Divided(Memory, command) = Updated(Memory, u)
  BY <1>1, SMT DEF Divided, Memory
<1>3. /\ u.merges = merges'
      /\ u.canonical = canonical'
      /\ u.identities = identities'
      /\ u.cursor = cursor'
  BY DEF Split, Advance
<1>4. DOMAIN u = {"merges", "canonical", "identities", "cursor"}
  OBVIOUS
<1>5. UNCHANGED <<observations, observation_commits, inferences, decisions, current_inference,
                 current_decision, promotions, outbox, receipts, version, transactions,
                 transaction_indexes, dependents, idempotency, inflight, targets>>
  BY DEF Split, Advance, evidence, lineage, identity_index, delivery, log
<1> HIDE DEF u
<1> QED
  BY <1>2, <1>3, <1>4, <1>5 DEF Updated, Memory

(* A materialization is queued.                                            *)
LEMMA EnqueueStep == EnqueueMaterialization => Memory' = Queued(Memory, command)
<1> SUFFICES ASSUME EnqueueMaterialization PROVE Memory' = Queued(Memory, command)
  OBVIOUS
<1> DEFINE u == [outbox |-> Insert(outbox, command.materialization,
                    [decision |-> command.decision, relation |-> command.relation,
                     commit |-> version + 1, completed |-> FALSE]),
                 cursor |-> cursor + 1]
<1>1. Queued(Memory, command) = Updated(Memory, u)
  BY SMT DEF Queued, Memory
<1>2. /\ u.outbox = outbox'
      /\ u.cursor = cursor'
  BY DEF EnqueueMaterialization, Advance, next_version
<1>3. DOMAIN u = {"outbox", "cursor"}
  OBVIOUS
<1>4. UNCHANGED <<observations, observation_commits, inferences, decisions, current_inference,
                 current_decision, identities, promotions, merges, canonical, receipts,
                 version, transactions, transaction_indexes, dependents, idempotency,
                 inflight, targets>>
  BY DEF EnqueueMaterialization, Advance, evidence, lineage, identity_index, delivery, log
<1> HIDE DEF u
<1> QED
  BY <1>1, <1>2, <1>3, <1>4 DEF Updated, Memory

(* A receipt arrives.                                                      *)
LEMMA MaterializedStep == Materialized => Memory' = Delivered(Memory, command)
<1> SUFFICES ASSUME Materialized PROVE Memory' = Delivered(Memory, command)
  OBVIOUS
<1> DEFINE u == [outbox |-> Complete(command.materialization),
                 receipts |-> Append(receipts,
                    [materialization |-> command.materialization, decision |-> command.decision,
                     commit |-> version + 1]),
                 cursor |-> cursor + 1]
<1>1. At(Memory)!Complete(command.materialization) = Complete(command.materialization)
  BY ReadAtMemory, SMT
<1>2. Delivered(Memory, command) = Updated(Memory, u)
  BY <1>1, SMT DEF Delivered, Memory
<1>3. /\ u.outbox = outbox'
      /\ u.receipts = receipts'
      /\ u.cursor = cursor'
  BY DEF Materialized, Advance, next_version
<1>4. DOMAIN u = {"outbox", "receipts", "cursor"}
  OBVIOUS
<1>5. UNCHANGED <<observations, observation_commits, inferences, decisions, current_inference,
                 current_decision, identities, promotions, merges, canonical, version,
                 transactions, transaction_indexes, dependents, idempotency, inflight,
                 targets>>
  BY DEF Materialized, Advance, evidence, lineage, identity_index, delivery, log
<1> HIDE DEF u
<1> QED
  BY <1>2, <1>3, <1>4, <1>5 DEF Updated, Memory

(* The transaction is recorded.                                            *)
LEMMA RecordStep == Record => Memory' = Logged(Memory, inflight)
<1> SUFFICES ASSUME Record PROVE Memory' = Logged(Memory, inflight)
  OBVIOUS
<1> DEFINE u == [dependents |-> RecordDependents(inflight),
                 transactions |-> Append(transactions,
                    [version |-> version + 1, envelope |-> inflight, active |-> TRUE]),
                 transaction_indexes |-> Insert(transaction_indexes, inflight.transaction, Len(transactions) + 1),
                 idempotency |-> Insert(idempotency, inflight.idempotency,
                    [version |-> version + 1, transaction |-> inflight.transaction]),
                 version |-> version + 1,
                 inflight |-> None,
                 cursor |-> 0]
<1>1. At(Memory)!RecordDependents(inflight) = RecordDependents(inflight)
  BY ReadAtMemory, SMT
<1>2. Logged(Memory, inflight) = Updated(Memory, u)
  BY <1>1, SMT DEF Logged, Memory
<1>3. /\ u.dependents = dependents'
      /\ u.transactions = transactions'
      /\ u.transaction_indexes = transaction_indexes'
      /\ u.idempotency = idempotency'
      /\ u.version = version'
      /\ u.inflight = inflight'
      /\ u.cursor = cursor'
  BY DEF Record, next_version
<1>4. DOMAIN u = {"dependents", "transactions", "transaction_indexes", "idempotency",
                  "version", "inflight", "cursor"}
  OBVIOUS
<1>5. UNCHANGED <<observations, observation_commits, inferences, decisions, current_inference,
                 current_decision, identities, promotions, merges, canonical, outbox,
                 receipts, targets>>
  BY DEF Record, evidence, lineage, identity_index, delivery, log
<1> HIDE DEF u
<1> QED
  BY <1>2, <1>3, <1>4, <1>5 DEF Updated, Memory

(* A target is deactivated.                                                *)
LEMMA DeactivateStep == \A t : Deactivate(t) => Memory' = Deactivated(Memory, t)
<1> SUFFICES ASSUME NEW t, Deactivate(t) PROVE Memory' = Deactivated(Memory, t)
  OBVIOUS
<1> DEFINE withdrawn == Withdrawn(t)
           merged == CloseMerges(OpenMergesOf(t))
           classes == RebuildClasses(merged)
           u == [transactions |-> [transactions EXCEPT ![transaction_indexes[t]] = Inactive(@)],
                 inferences |-> CloseCurrent(inferences, current_inference, withdrawn),
                 decisions |-> EndDecisions(CloseCurrent(decisions, current_decision, withdrawn), Decided(t)),
                 current_inference |-> Remove(current_inference, withdrawn),
                 current_decision |-> Remove(current_decision, withdrawn),
                 merges |-> merged,
                 canonical |-> classes,
                 identities |-> RebuildStatuses(identities, classes),
                 outbox |-> Remove(outbox, Enqueued(t)),
                 targets |-> targets \ {t},
                 cursor |-> IF targets \ {t} = {} THEN cursor + 1 ELSE cursor]
<1>1. /\ At(Memory)!Withdrawn(t) = withdrawn
      /\ At(Memory)!OpenMergesOf(t) = OpenMergesOf(t)
      /\ At(Memory)!CloseMerges(OpenMergesOf(t)) = merged
      /\ At(Memory)!RebuildClasses(merged) = classes
      /\ At(Memory)!CloseCurrent(inferences, current_inference, withdrawn) =
              CloseCurrent(inferences, current_inference, withdrawn)
      /\ At(Memory)!CloseCurrent(decisions, current_decision, withdrawn) =
              CloseCurrent(decisions, current_decision, withdrawn)
      /\ At(Memory)!EndDecisions(CloseCurrent(decisions, current_decision, withdrawn), Decided(t)) =
              EndDecisions(CloseCurrent(decisions, current_decision, withdrawn), Decided(t))
      /\ At(Memory)!Decided(t) = Decided(t)
      /\ At(Memory)!Enqueued(t) = Enqueued(t)
  BY ReadAtMemory, SMT
<1>2. Deactivated(Memory, t) = Updated(Memory, u)
  BY <1>1, SMT DEF Deactivated, Memory
<1>3. /\ u.transactions = transactions'
      /\ u.inferences = inferences'
      /\ u.decisions = decisions'
      /\ u.current_inference = current_inference'
      /\ u.current_decision = current_decision'
      /\ u.merges = merges'
      /\ u.canonical = canonical'
      /\ u.identities = identities'
      /\ u.outbox = outbox'
      /\ u.targets = targets'
      /\ u.cursor = cursor'
  BY DEF Deactivate
<1>4. DOMAIN u = {"transactions", "inferences", "decisions", "current_inference",
                  "current_decision", "merges", "canonical", "identities", "outbox",
                  "targets", "cursor"}
  OBVIOUS
<1>5. UNCHANGED <<observations, observation_commits, promotions, receipts, version,
                 transaction_indexes, dependents, idempotency, inflight>>
  BY DEF Deactivate, evidence, lineage, identity_index, delivery, log
<1> HIDE DEF u
<1> QED
  BY <1>2, <1>3, <1>4, <1>5 DEF Updated, Memory

(* An identity becomes dormant, active again or retired.                   *)
LEMMA ChangeStatusStep ==
    \A kind : ChangeStatus(kind) => Memory' = StatusChanged(Memory, command)
<1> SUFFICES ASSUME NEW kind, ChangeStatus(kind) PROVE Memory' = StatusChanged(Memory, command)
  OBVIOUS
<1> DEFINE u == [identities |-> Insert(identities, command.identity, WrittenStatus(command.kind)),
                 cursor |-> cursor + 1]
<1>1. StatusChanged(Memory, command) = Updated(Memory, u)
  BY SMT DEF StatusChanged, Memory
<1>2. command.kind = kind
  BY DEF ChangeStatus, Applying
<1>3. u.identities = identities' /\ u.cursor = cursor'
  BY <1>2 DEF ChangeStatus, Advance
<1>4. DOMAIN u = {"identities", "cursor"}
  OBVIOUS
<1> HIDE DEF u
<1> QED
  BY <1>1, <1>3, <1>4 DEF Updated, Memory, ChangeStatus, Advance, evidence, lineage,
     delivery, log

(* A revert begins.                                                        *)
LEMMA RevertStep == Revert => Memory' = Reverting(Memory, command)
<1> SUFFICES ASSUME Revert PROVE Memory' = Reverting(Memory, command)
  OBVIOUS
<1> DEFINE reached == RevertTargets(command.transaction, command.mode)
<1>1. At(Memory)!RevertTargets(command.transaction, command.mode) = reached
  BY ReadAtMemory, SMT
<1> HIDE DEF reached
<1>2. /\ UNCHANGED <<inflight, observations, observation_commits, inferences, decisions,
                     current_inference, current_decision, identities, promotions, merges,
                     canonical, outbox, receipts, version, transactions, transaction_indexes,
                     dependents, idempotency>>
      /\ command.mode = "Compensating" => targets' = targets /\ cursor' = cursor + 1
      /\ command.mode # "Compensating" => targets' = reached /\ cursor' = cursor
  BY DEF Revert, Advance, state, evidence, lineage, identity_index, delivery, log, reached
<1>3. CASE command.mode = "Compensating"
  <2>1. Reverting(Memory, command) = Updated(Memory, [cursor |-> cursor + 1])
    BY <1>3, SMT DEF Reverting, Memory
  <2> QED
    BY <1>2, <1>3, <2>1 DEF Updated, Memory
<1>4. CASE command.mode # "Compensating"
  <2>1. Reverting(Memory, command) = Updated(Memory, [targets |-> reached])
    BY <1>1, <1>4, SMT DEF Reverting, Memory
  <2> QED
    BY <1>2, <1>4, <2>1 DEF Updated, Memory
<1> QED
  BY <1>3, <1>4

(* The arms of apply are one function of the memory and the command.       *)
LEMMA ApplyIsStep ==
    ASSUME LedgerInv, Apply, NEW E
    PROVE  Memory' = Step(Memory, E) /\ inflight # None /\ inflight' = inflight /\ version' = version
<1>1. /\ Memory.inflight = inflight /\ Memory.targets = targets /\ Memory.cursor = cursor
      /\ command = inflight.commands[cursor]
  BY DEF Memory, command
<1>2. inflight # None /\ inflight' = inflight /\ version' = version
  BY DEF Apply, PersistObservation, CommitResolution, CreateIdentity, Promote, ChangeStatus, Merge,
     Split, Revert, Deactivate, EnqueueMaterialization, Materialized, Applying, Advance, state, log,
     LedgerInv, ValidationHolds
<1>3. ASSUME targets = {}, cursor \in DOMAIN inflight.commands
      PROVE  Step(Memory, E) = Applied(Memory, command)
  <2>1. inflight \in CommandEnvelope
    BY <1>2 DEF LedgerInv, TypeOK, ControlTypeOK
  <2>2. cursor # Len(inflight.commands) + 1
    BY <1>3, <2>1, EnvelopeFields
  <2> QED
    BY <1>1, <1>2, <1>3, <2>2, SMT DEF Step
<1>4. \A kind : Applying(kind) => command.kind = kind /\ Step(Memory, E) = Applied(Memory, command)
  BY <1>3 DEF Applying
<1>5. CASE PersistObservation
  <2>1. command.kind = "PersistObservation" /\ Step(Memory, E) = Applied(Memory, command)
    BY <1>4, <1>5 DEF PersistObservation
  <2> QED
    BY <1>2, <1>5, <2>1, PersistObservationStep DEF Applied
<1>6. CASE CommitResolution
  <2>1. command.kind = "CommitResolution" /\ Step(Memory, E) = Applied(Memory, command)
    BY <1>4, <1>6 DEF CommitResolution
  <2> QED
    BY <1>2, <1>6, <2>1, CommitResolutionStep DEF Applied
<1>7. CASE CreateIdentity
  <2>1. command.kind = "CreateIdentity" /\ Step(Memory, E) = Applied(Memory, command)
    BY <1>4, <1>7 DEF CreateIdentity
  <2> QED
    BY <1>2, <1>7, <2>1, CreateIdentityStep DEF Applied
<1>8. CASE Promote
  <2>1. command.kind = "Promote" /\ Step(Memory, E) = Applied(Memory, command)
    BY <1>4, <1>8 DEF Promote
  <2> QED
    BY <1>2, <1>8, <2>1, PromoteStep DEF Applied
<1>9. ASSUME NEW kind \in {"Dormant", "Reactivate", "Retire"}, ChangeStatus(kind)
      PROVE  Memory' = Step(Memory, E)
  <2>1. command.kind = kind /\ Step(Memory, E) = Applied(Memory, command)
    BY <1>4, <1>9 DEF ChangeStatus
  <2> QED
    BY <1>9, <2>1, ChangeStatusStep DEF Applied
<1>10. CASE Merge
  <2>1. command.kind = "Merge" /\ Step(Memory, E) = Applied(Memory, command)
    BY <1>4, <1>10 DEF Merge
  <2> QED
    BY <1>2, <1>10, <2>1, MergeStep DEF Applied
<1>11. CASE Split
  <2>1. command.kind = "Split" /\ Step(Memory, E) = Applied(Memory, command)
    BY <1>4, <1>11 DEF Split
  <2> QED
    BY <1>2, <1>11, <2>1, SplitStep DEF Applied
<1>12. CASE Revert
  <2>1. command.kind = "Revert" /\ Step(Memory, E) = Applied(Memory, command)
    BY <1>4, <1>12 DEF Revert
  <2> QED
    BY <1>2, <1>12, <2>1, RevertStep DEF Applied
<1>13. ASSUME NEW t \in targets, Deactivate(t) PROVE Memory' = Step(Memory, E)
  <2>1. t = NextTarget /\ targets # {} /\ At(Memory)!NextTarget = NextTarget
    BY <1>13, ReadAtMemory, SMT DEF Deactivate
  <2>2. Step(Memory, E) = Deactivated(Memory, t)
    BY <1>1, <1>2, <2>1, SMT DEF Step
  <2> QED
    BY <1>13, <2>2, DeactivateStep
<1>14. CASE EnqueueMaterialization
  <2>1. command.kind = "EnqueueMaterialization" /\ Step(Memory, E) = Applied(Memory, command)
    BY <1>4, <1>14 DEF EnqueueMaterialization
  <2> QED
    BY <1>2, <1>14, <2>1, EnqueueStep DEF Applied
<1>15. CASE Materialized
  <2>1. command.kind = "Materialized" /\ Step(Memory, E) = Applied(Memory, command)
    BY <1>4, <1>15 DEF Materialized
  <2> QED
    BY <1>2, <1>15, <2>1, MaterializedStep DEF Applied
<1> QED
  BY <1>2, <1>5, <1>6, <1>7, <1>8, <1>9, <1>10, <1>11, <1>12, <1>13, <1>14, <1>15 DEF Apply

(* So is the end of a commit ...                                           *)
LEMMA RecordIsStep ==
    ASSUME LedgerInv, Record, NEW E
    PROVE  Memory' = Step(Memory, E)
<1>1. inflight # None /\ targets = {} /\ cursor = Len(inflight.commands) + 1
  BY DEF Record
<1>2. Step(Memory, E) = Logged(Memory, inflight)
  BY <1>1, SMT DEF Step, Memory
<1> QED
  BY <1>2, RecordStep

(* ... and its beginning.                                                  *)
LEMMA StartIsStep ==
    ASSUME NEW E, NEW e, Start(e), E[version + 1] = e
    PROVE  Memory' = Step(Memory, E)
<1>1. Step(Memory, E) = Began(Memory, e)
  BY SMT DEF Step, Memory, Start
<1> QED
  BY <1>1 DEF Began, Updated, Memory, Start, state, evidence, lineage, identity_index, delivery, log

(* What a memory makes valid is what the ledger with its tables accepts.   *)
LEMMA ValidAtMemory == ASSUME NEW e \in CommandEnvelope PROVE At(Memory)!Valid(e) <=> Valid(e)
<1>1. /\ At(Memory)!FreshKey(e) <=> FreshKey(e)
      /\ At(Memory)!SnapshotCurrent(e) <=> SnapshotCurrent(e)
      /\ At(Memory)!NewTransaction(e) <=> NewTransaction(e)
      /\ At(Memory)!VersionLeft <=> VersionLeft
      /\ At(Memory)!next_version = next_version
  BY DEF At!FreshKey, FreshKey, At!SnapshotCurrent, SnapshotCurrent, At!NewTransaction,
         NewTransaction, At!VersionLeft, VersionLeft, At!next_version, next_version, Memory
<1>2. \A t : At(Memory)!IsActive(t) <=> IsActive(t)
  BY DEF At!IsActive, IsActive, Memory
<1>3. At(Memory)!DependenciesActive(e) <=> DependenciesActive(e)
  BY <1>2, SMT DEF At!DependenciesActive, DependenciesActive
<1>4. ASSUME NEW i \in DOMAIN e.commands
      PROVE  At(Memory)!ValidCommand(e, i) <=> ValidCommand(e, i)
  <2>1. /\ At(Memory)!PendingObservations(e, i) = PendingObservations(e, i)
        /\ At(Memory)!PendingInferences(e, i) = PendingInferences(e, i)
        /\ At(Memory)!PendingDecisions(e, i) = PendingDecisions(e, i)
        /\ At(Memory)!PendingMaterializations(e, i) = PendingMaterializations(e, i)
    BY DEF At!PendingObservations, PendingObservations, At!PendingInferences, PendingInferences,
           At!PendingDecisions, PendingDecisions, At!PendingMaterializations,
           PendingMaterializations, At!Earlier, Earlier
  <2>2. \A o : At(Memory)!KnownObservation(e, i, o) <=> KnownObservation(e, i, o)
    BY <2>1, SMT DEF At!KnownObservation, KnownObservation, Memory
  <2>3. \A d : At(Memory)!KnownDecision(e, i, d) <=> KnownDecision(e, i, d)
    BY <2>1, SMT DEF At!KnownDecision, KnownDecision, Memory
  <2>4. \A id : At(Memory)!OverlayStatus(e, i, id) = OverlayStatus(e, i, id)
    <3>1. \A c, id : At(Memory)!Writes(c, id) <=> Writes(c, id)
      BY DEF At!Writes, Writes
    <3>2. \A kind : At(Memory)!WrittenStatus(kind) = WrittenStatus(kind)
      BY DEF At!WrittenStatus, WrittenStatus
    <3>3. \A S : At(Memory)!Greatest(S) = Greatest(S)
      BY DEF At!Greatest, Greatest
    <3>4. \A id : At(Memory)!Lookup(Memory.identities, id, "Absent") =
                       Lookup(identities, id, "Absent")
      BY DEF At!Lookup, Lookup, Memory
    <3> QED
      BY <3>1, <3>2, <3>3, <3>4, SMT DEF At!OverlayStatus, OverlayStatus
  <2>5. At(Memory)!ValidPersist(e, i) <=> ValidPersist(e, i)
    BY <2>2, SMT DEF At!ValidPersist, ValidPersist
  <2>6. At(Memory)!ValidAction(e, i) <=> ValidAction(e, i)
    BY <2>4, SMT DEF At!ValidAction, ValidAction
  <2>7. At(Memory)!ValidResolution(e, i) <=> ValidResolution(e, i)
    <3>1. Memory.inferences = inferences /\ Memory.decisions = decisions
      BY DEF Memory
    <3> QED
      BY <1>1, <2>1, <2>2, <2>6, <3>1, SMT DEF At!ValidResolution, ValidResolution
  <2>8. At(Memory)!ValidMerge(e, i) <=> ValidMerge(e, i)
    <3>1. Memory.merges = merges /\ Memory.decisions = decisions
      BY DEF Memory
    <3> QED
      BY <2>1, <2>3, <2>4, <3>1, SMT DEF At!ValidMerge, ValidMerge
  <2>9. At(Memory)!ValidSplit(e, i) <=> ValidSplit(e, i)
    <3>1. Memory.merges = merges
      BY DEF Memory
    <3>2. \A validity : At(Memory)!IsOpen(validity) <=> IsOpen(validity)
      BY DEF At!IsOpen, IsOpen, At!Open, Open
    <3> QED
      BY <2>2, <2>4, <3>1, <3>2, SMT DEF At!ValidSplit, ValidSplit
  <2>10. At(Memory)!ValidRevert(e, i) <=> ValidRevert(e, i)
    <3>1. \A t : At(Memory)!ActiveDependents(t) = ActiveDependents(t)
      BY DEF At!ActiveDependents, ActiveDependents, At!IsActive, IsActive, At!Lookup, Lookup, Memory
    <3> QED
      BY <1>2, <3>1, SMT DEF At!ValidRevert, ValidRevert
  <2>11. At(Memory)!ValidEnqueue(e, i) <=> ValidEnqueue(e, i)
    <3>1. Memory.outbox = outbox
      BY DEF Memory
    <3> QED
      BY <2>1, <2>3, <3>1, SMT DEF At!ValidEnqueue, ValidEnqueue
  <2>12. At(Memory)!ValidReceipt(e, i) <=> ValidReceipt(e, i)
    BY DEF At!ValidReceipt, ValidReceipt, Memory
  <2>13. e.commands[i] \in Command
    BY EnvelopeFields
  <2> QED
    BY <2>4, <2>5, <2>7, <2>8, <2>9, <2>10, <2>11, <2>12, <2>13, SMT
       DEF At!ValidCommand, ValidCommand, Command
<1>5. At(Memory)!CommandsValid(e) <=> CommandsValid(e)
  BY <1>4, SMT DEF At!CommandsValid, CommandsValid
<1> QED
  BY <1>1, <1>3, <1>5, SMT DEF At!Valid, Valid

-----------------------------------------------------------------------------
(***************************************************************************)
(* Runs: a restart starts from the blank memory and follows the records.   *)
(***************************************************************************)
Blank ==
    [observations |-> EmptyMap, observation_commits |-> EmptyMap,
     inferences |-> EmptyMap, decisions |-> EmptyMap,
     current_inference |-> EmptyMap, current_decision |-> EmptyMap,
     identities |-> EmptyMap, promotions |-> EmptyMap, merges |-> EmptyMap,
     canonical |-> EmptyMap, outbox |-> EmptyMap, receipts |-> <<>>,
     version |-> 0, transactions |-> <<>>, transaction_indexes |-> EmptyMap,
     dependents |-> EmptyMap, idempotency |-> EmptyMap, inflight |-> None,
     cursor |-> 0, targets |-> {}]

(* r takes k steps on the records E, of which it has read what it needs.   *)
Run(r, k, E) ==
    /\ r[0] = Blank
    /\ \A j \in 0..(k - 1) :
          /\ r[j + 1] = Step(r[j], E)
          /\ r[j].inflight = None => r[j].version + 1 \in DOMAIN E

(* The run that comes to the memory s is the first at which s's version is *)
(* recorded.                                                               *)
Foremost(r, k, s) ==
    /\ r[k] = s
    /\ \A j \in 0..(k - 1) :
          /\ r[j].version \in 0..s.version
          /\ r[j].inflight = None /\ s.inflight = None => r[j].version < s.version

(* Replaying the records E leads to the memory s.                          *)
Leads(E, s) == \E k \in Nat : \E r : Run(r, k, E) /\ Foremost(r, k, s)

(* Two runs on the same records are the same as far as they go.            *)
LEMMA RunsAgree ==
    ASSUME NEW E, NEW k \in Nat, NEW l \in Nat, k <= l, NEW r, NEW q,
           Run(r, k, E), Run(q, l, E)
    PROVE  \A j \in 0..k : r[j] = q[j]
<1> DEFINE differ == {j \in 0..k : r[j] # q[j]}
<1> SUFFICES ASSUME differ # {} PROVE FALSE
  OBVIOUS
<1>1. PICK m \in differ : \A n \in differ : m <= n
  <2>1. differ \in SUBSET Nat
    OBVIOUS
  <2> HIDE DEF differ
  <2> QED
    BY <2>1, LeastIsMember
<1>2. m # 0
  BY <1>1 DEF Run
<1>3. m - 1 \in 0..k /\ m - 1 \in 0..(k - 1) /\ m - 1 \in 0..(l - 1) /\ (m - 1) + 1 = m
  BY <1>1, <1>2
<1>4. r[m - 1] = q[m - 1]
  BY <1>1, <1>3
<1>5. r[m] = Step(r[m - 1], E) /\ q[m] = Step(q[m - 1], E)
  BY <1>3 DEF Run
<1> QED
  BY <1>1, <1>4, <1>5

(* Between two commits there is one memory for a version.                  *)
LEMMA OneMemory ==
    ASSUME NEW E, NEW s, NEW t, Leads(E, s), Leads(E, t),
           s.inflight = None, t.inflight = None, s.version = t.version, s.version \in Nat
    PROVE  s = t
<1>1. PICK k, r : k \in Nat /\ Run(r, k, E) /\ Foremost(r, k, s)
  BY DEF Leads
<1> k \in Nat
  BY <1>1
<1>2. PICK l, q : l \in Nat /\ Run(q, l, E) /\ Foremost(q, l, t)
  BY DEF Leads
<1> l \in Nat
  BY <1>2
<1>3. CASE k <= l
  <2>1. r[k] = q[k]
    BY <1>1, <1>2, <1>3, RunsAgree
  <2>2. ~(k < l)
    <3> SUFFICES ASSUME k < l PROVE FALSE
      OBVIOUS
    <3>1. k \in 0..(l - 1)
      OBVIOUS
    <3>2. q[k] = s
      BY <1>1, <2>1 DEF Foremost
    <3> QED
      BY <1>2, <3>1, <3>2 DEF Foremost
  <2> QED
    BY <1>1, <1>2, <1>3, <2>1, <2>2 DEF Foremost
<1>4. CASE l <= k
  <2>1. q[l] = r[l]
    BY <1>1, <1>2, <1>4, RunsAgree
  <2>2. ~(l < k)
    <3> SUFFICES ASSUME l < k PROVE FALSE
      OBVIOUS
    <3>1. l \in 0..(k - 1)
      OBVIOUS
    <3>2. r[l] = t
      BY <1>2, <2>1 DEF Foremost
    <3> QED
      BY <1>1, <3>1, <3>2 DEF Foremost
  <2> QED
    BY <1>1, <1>2, <1>4, <2>1, <2>2 DEF Foremost
<1> QED
  BY <1>3, <1>4

(* A step depends on the next record only.                                 *)
LEMMA StepReads ==
    ASSUME NEW s, NEW E, NEW F, s.inflight = None => E[s.version + 1] = F[s.version + 1]
    PROVE  Step(s, E) = Step(s, F)
BY SMT DEF Step

(* Records that are added later do not matter.                             *)
LEMMA LeadsAppended ==
    ASSUME NEW E, NEW F, DOMAIN E \subseteq DOMAIN F, \A n \in DOMAIN E : F[n] = E[n],
           NEW s, Leads(E, s)
    PROVE  Leads(F, s)
<1>1. PICK k, r : k \in Nat /\ Run(r, k, E) /\ Foremost(r, k, s)
  BY DEF Leads
<1> k \in Nat
  BY <1>1
<1>2. ASSUME NEW j \in 0..(k - 1)
      PROVE  /\ r[j + 1] = Step(r[j], F)
             /\ r[j].inflight = None => r[j].version + 1 \in DOMAIN F
  <2>1. r[j + 1] = Step(r[j], E) /\ (r[j].inflight = None => r[j].version + 1 \in DOMAIN E)
    BY <1>1 DEF Run
  <2> QED
    BY <2>1, StepReads
<1>3. Run(r, k, F)
  BY <1>1, <1>2 DEF Run
<1> QED
  BY <1>1, <1>3 DEF Leads

(* The blank memory is where a replay begins.                              *)
LEMMA LeadsToBlank == ASSUME NEW E PROVE Leads(E, Blank)
<1> DEFINE r == [j \in 0..0 |-> Blank]
<1>1. r[0] = Blank /\ 0..(0 - 1) = {}
  OBVIOUS
<1> HIDE DEF r
<1>2. Run(r, 0, E) /\ Foremost(r, 0, Blank)
  BY <1>1 DEF Run, Foremost
<1> QED
  BY <1>2 DEF Leads

(* A memory leads to the one a step makes of it, unless its version is     *)
(* recorded twice.                                                         *)
LEMMA LeadsOn ==
    ASSUME NEW E, NEW s, NEW t, Leads(E, s), t = Step(s, E),
           s.inflight = None => s.version + 1 \in DOMAIN E,
           s.version \in Nat, t.version \in Nat, s.version <= t.version,
           t.inflight = None => s.version < t.version
    PROVE  Leads(E, t)
<1>1. PICK k, r : k \in Nat /\ Run(r, k, E) /\ Foremost(r, k, s)
  BY DEF Leads
<1> k \in Nat
  BY <1>1
<1> DEFINE q == [j \in 0..(k + 1) |-> IF j = k + 1 THEN t ELSE r[j]]
<1>2. q[k + 1] = t /\ \A j \in 0..k : q[j] = r[j]
  BY <1>1
<1> HIDE DEF q
<1>3. r[k] = s
  BY <1>1 DEF Foremost
<1>4. ASSUME NEW j \in 0..k
      PROVE  /\ q[j + 1] = Step(q[j], E)
             /\ q[j].inflight = None => q[j].version + 1 \in DOMAIN E
  <2>1. CASE j = k
    BY <1>2, <1>3, <2>1
  <2>2. CASE j # k
    <3>1. j \in 0..(k - 1) /\ j + 1 \in 0..k
      BY <2>2
    <3> QED
      BY <1>1, <1>2, <3>1 DEF Run
  <2> QED
    BY <2>1, <2>2
<1>5. Run(q, k + 1, E)
  <2>1. q[0] = Blank /\ (k + 1) - 1 = k
    BY <1>1, <1>2 DEF Run
  <2> QED
    BY <1>4, <2>1 DEF Run
<1>6. ASSUME NEW j \in 0..k
      PROVE  /\ q[j].version \in 0..t.version
             /\ q[j].inflight = None /\ t.inflight = None => q[j].version < t.version
  <2>1. CASE j = k
    BY <1>2, <1>3, <2>1
  <2>2. CASE j # k
    <3>1. j \in 0..(k - 1)
      BY <2>2
    <3>2. q[j] = r[j] /\ r[j].version \in 0..s.version
      BY <1>1, <1>2, <3>1 DEF Foremost
    <3> QED
      BY <3>2
  <2> QED
    BY <2>1, <2>2
<1>7. Foremost(q, k + 1, t)
  <2>1. (k + 1) - 1 = k
    OBVIOUS
  <2> QED
    BY <1>2, <1>6, <2>1 DEF Foremost
<1>8. k + 1 \in Nat
  OBVIOUS
<1> QED
  BY <1>5, <1>7, <1>8 DEF Leads

(* The key of a version is read back as that version.                      *)
LEMMA KeyIsDecoded ==
    ASSUME NEW v \in 0..MaxVersion
    PROVE  DecodeDurableKey(DurableKey(v)) = v
<1> DEFINE key == DurableKey(v)
           s == Shifted(v)
           Follow(f) == [k \in 0..Digits |->
                            IF k = 0 THEN 0 ELSE Radix * f[k - 1] + key[Len(LedgerPrefix) + k]]
           value == CHOOSE f : f = Follow(f)
           g == [k \in 0..Digits |-> s[Digits - k]]
<1>1. v \in Nat /\ Digits \in Nat \ {0} /\ Radix \in Nat \ {0} /\ Len(LedgerPrefix) = 1
  BY LedgerAssumption, KeyValueAssumption DEF LedgerPrefix
<1>2. /\ s \in [0..Digits -> Nat] /\ s[0] = v
      /\ \A k \in 1..Digits : s[k] = s[k - 1] \div Radix
  BY <1>1, ShiftedSteps
<1>3. s[Digits] = 0
  <2>1. CASE v < MaxVersion
    BY <2>1, <1>1, ShiftedOrder, LedgerAssumption
  <2>2. CASE v = MaxVersion
    BY <2>2, KeysAssumption
  <2> QED
    BY <2>1, <2>2, LedgerAssumption
<1> HIDE DEF s
<1>4. /\ Len(key) = 1 + Digits /\ key[1] = 0
      /\ \A k \in 1..Digits : key[1 + k] = s[Digits - k] % Radix
  BY <1>1 DEF DurableKey, LedgerPrefix, s
<1>5. DecodeDurableKey(key) = value[Digits]
  <2>1. DecodeDurableKey(key) =
            IF Len(key) # Len(LedgerPrefix) + Digits \/ ~Prefixed(key) THEN -1 ELSE value[Digits]
    BY DEF DecodeDurableKey
  <2>2. Prefixed(key)
    BY <1>1, <1>4 DEF Prefixed, LedgerPrefix
  <2> HIDE DEF key, value
  <2> QED
    BY <1>1, <1>4, <2>1, <2>2
<1> HIDE DEF key
<1>6. \A k \in 1..Digits : g[k] = Radix * g[k - 1] + key[1 + k]
  <2> SUFFICES ASSUME NEW k \in 1..Digits PROVE g[k] = Radix * g[k - 1] + key[1 + k]
    OBVIOUS
  <2> DEFINE d == s[Digits - k]
             q == s[Digits - k + 1]
  <2>1. d \in Nat /\ q = d \div Radix
    <3>1. Digits - k \in 0..Digits /\ Digits - k + 1 \in 1..Digits
      BY <1>1
    <3> QED
      BY <1>1, <1>2, <3>1
  <2>2. g[k] = d /\ g[k - 1] = q /\ key[1 + k] = d % Radix
    <3>1. Digits - (k - 1) = Digits - k + 1 /\ k - 1 \in 0..Digits
      BY <1>1
    <3> QED
      BY <1>4, <3>1
  <2> HIDE DEF d, q, g
  <2> QED
    BY <1>1, <2>1, <2>2, Division
<1>7. g = Follow(g)
  <2>1. g[0] = 0
    BY <1>1, <1>3
  <2>2. ASSUME NEW k \in 0..Digits
        PROVE  g[k] = IF k = 0 THEN 0 ELSE Radix * g[k - 1] + key[Len(LedgerPrefix) + k]
    <3>1. k = 0 \/ k \in 1..Digits
      BY <1>1
    <3> HIDE DEF g
    <3> QED
      BY <1>1, <1>6, <2>1, <3>1
  <2>3. DOMAIN g = 0..Digits /\ g = [k \in 0..Digits |-> g[k]]
    OBVIOUS
  <2> HIDE DEF g
  <2> QED
    BY <2>2, <2>3
<1>8. value = Follow(value)
  <2> HIDE DEF g, Follow
  <2> QED
    BY <1>7
<1> DEFINE differ == {k \in 0..Digits : value[k] # g[k]}
<1>9. differ = {}
  <2> SUFFICES ASSUME differ # {} PROVE FALSE
    OBVIOUS
  <2> HIDE DEF value
  <2>1. PICK m \in differ : \A n \in differ : m <= n
    <3>1. differ \in SUBSET Nat
      BY <1>1
    <3> HIDE DEF differ
    <3> QED
      BY <3>1, LeastIsMember
  <2> HIDE DEF g
  <2>2. ASSUME NEW f, f = Follow(f), NEW k \in 0..Digits
        PROVE  f[k] = IF k = 0 THEN 0 ELSE Radix * f[k - 1] + key[1 + k]
    <3>1. Follow(f)[k] = IF k = 0 THEN 0 ELSE Radix * f[k - 1] + key[1 + k]
      BY <1>1
    <3> HIDE DEF Follow
    <3> QED
      BY <2>2, <3>1
  <2> HIDE DEF Follow
  <2>3. m \in 0..Digits /\ value[m] # g[m]
    BY <2>1
  <2>4. m # 0
    BY <1>1, <1>7, <1>8, <2>2, <2>3
  <2>5. m - 1 \in 0..Digits /\ ~(m <= m - 1)
    BY <1>1, <2>3, <2>4
  <2>6. value[m - 1] = g[m - 1]
    BY <2>1, <2>5
  <2>7. /\ value[m] = Radix * value[m - 1] + key[1 + m]
        /\ g[m] = Radix * g[m - 1] + key[1 + m]
    BY <1>7, <1>8, <2>2, <2>3, <2>4
  <2> QED
    BY <2>3, <2>6, <2>7
<1>10. value[Digits] = s[0]
  <2> HIDE DEF value
  <2>1. value[Digits] = g[Digits]
    <3> HIDE DEF g
    <3> QED
      BY <1>1, <1>9
  <2>2. g[Digits] = s[0]
    <3>1. Digits \in 0..Digits /\ Digits - Digits = 0
      BY <1>1
    <3> QED
      BY <3>1
  <2> QED
    BY <2>1, <2>2
<1> QED
  BY <1>2, <1>5, <1>10 DEF key

-----------------------------------------------------------------------------
(***************************************************************************)
(* The memory of the process is where a replay of the stored records leads *)
(* to, and every record is valid at the memory of the records before it.   *)
(***************************************************************************)

(* Between two commits: the memory s of version v.                         *)
Between(s, v) == s.inflight = None /\ s.version = v

RecordsValid ==
    \A n \in DOMAIN Stored :
        \E s : Leads(Stored, s) /\ Between(s, n - 1) /\ At(s)!Valid(Stored[n])

(* What a crash between two commits lost is what the records lead to.      *)
LostIsStored ==
    before # None =>
        \E s : Leads(Stored, s) /\ Between(s, Len(Stored)) /\ before = At(s)!state

LostUntilStaged ==
    before # None /\ mode = "running" => staged = None /\ inflight = None

ReplayInv ==
    /\ Leads(Stored, Memory)
    /\ RecordsValid
    /\ LostIsStored
    /\ LostUntilStaged
    /\ mode # "corrupt"

(* The first memory is blank.                                              *)
LEMMA MemoryIsBlank == Empty => Memory = Blank
BY DEF Empty, Memory, Blank

(* An empty store and a blank memory.                                      *)
LEMMA InitReplay == DurableInit => ReplayInv
<1> SUFFICES ASSUME DurableInit PROVE ReplayInv
  OBVIOUS
<1>1. before = None /\ mode = "running" /\ Empty
  BY DEF DurableInit, Init
<1>2. Leads(Stored, Memory)
  BY <1>1, MemoryIsBlank, LeadsToBlank
<1>3. Stored = <<>>
  BY DurableContractInit DEF DurableContract!Init, Stored
<1>4. RecordsValid
  BY <1>3, SMT DEF RecordsValid
<1> QED
  BY <1>1, <1>2, <1>4, SMT DEF ReplayInv, LostIsStored, LostUntilStaged

(* The stored records with their number, and what is settled.              *)
LEMMA StoreAndMemory ==
    ASSUME LedgerInv, LogConsistent, DiskInv
    PROVE  /\ version \in Nat /\ Len(Stored) \in Nat /\ DOMAIN Stored = 1..Len(Stored)
           /\ Stored \in Seq(Envelope)
           /\ Memory.version = version /\ Memory.inflight = inflight
           /\ Settled => Between(Memory, version)
           /\ Settled /\ mode = "running" => Len(Stored) = version
<1>1. PICK m \in 0..MaxVersion : StoredTo(m)
  BY DEF DiskInv
<1>2. Stored \in Seq(Envelope) /\ Len(Stored) = m /\ m \in Nat
  BY <1>1, RecordsInOrder
<1>3. version \in Nat
  BY VersionsOfLog
<1>4. Memory.version = version /\ Memory.inflight = inflight
  BY DEF Memory
<1>5. Settled /\ mode = "running" => Len(Stored) = version
  BY <1>1, <1>2 DEF Settled, StoredTo, Now
<1> QED
  BY <1>2, <1>3, <1>4, <1>5 DEF Between, Settled

(* A record that is not read yet can be replayed: its key is its number's, *)
(* and it is valid at the memory of its predecessors, which is this one.   *)
LEMMA UnreadIsReplayable ==
    ASSUME LedgerInv, LogConsistent, DiskInv, ReplayInv, Settled, Unread
    PROVE  Replayable
<1>1. PICK m \in 0..MaxVersion : StoredTo(m)
  BY DEF DiskInv
<1>2. /\ Len(Records) = m /\ m \in Nat
      /\ \A n \in 1..m : Records[n].value = disk[DurableKey(n)]
      /\ Stored = [n \in 1..m |-> disk[DurableKey(n)]] /\ Stored \in Seq(Envelope)
  BY <1>1, RecordsInOrder
<1>3. Records = [n \in 1..m |-> [key |-> DurableKey(n), value |-> disk[DurableKey(n)]]]
  BY <1>1, ScanInOrder DEF Records, StoredTo
<1>4. version \in Nat /\ NextRecord = version + 1 /\ NextRecord \in 1..m
  <2>1. version \in Nat
    BY VersionsOfLog
  <2> QED
    BY <1>2, <2>1 DEF Unread, NextRecord
<1> DEFINE n == NextRecord
<1> HIDE DEF n
<1>5. n \in 1..m /\ n \in DOMAIN Stored /\ n - 1 = version /\ n \in 0..MaxVersion
  BY <1>2, <1>4, LedgerAssumption DEF n
<1>6. Records[n].key = DurableKey(n) /\ Records[n].value = Stored[n] /\ Stored[n] \in Envelope
  BY <1>2, <1>3, <1>5
<1>7. DecodeDurableKey(Records[n].key) = n
  BY <1>5, <1>6, KeyIsDecoded
<1>8. PICK s : Leads(Stored, s) /\ Between(s, n - 1) /\ At(s)!Valid(Stored[n])
  BY <1>5, SMT DEF ReplayInv, RecordsValid
<1>9. s = Memory
  BY <1>4, <1>5, <1>8, StoreAndMemory, OneMemory DEF ReplayInv, Between
<1>10. Valid(Stored[n])
  BY <1>6, <1>8, <1>9, ValidAtMemory, LedgerAssumption, SMT
<1> QED
  BY <1>6, <1>7, <1>10 DEF Replayable, n

(* A step that leaves the memory and the store as they are.                *)
LEMMA ReplayKept ==
    ASSUME ReplayInv, UNCHANGED <<state, inflight, cursor, targets, disk>>
    PROVE  Leads(Stored, Memory)' /\ RecordsValid' /\ (before' = before => LostIsStored')
<1>1. Memory' = Memory
  BY DEF Memory, state, evidence, lineage, identity_index, delivery, log
<1>2. Stored' = Stored
  BY DEF Stored, Records
<1>3. Leads(Stored, Memory)'
  BY <1>1, <1>2, SMT DEF ReplayInv, Leads
<1>4. RecordsValid'
  BY <1>2, SMT DEF ReplayInv, RecordsValid
<1>5. before' = before => LostIsStored'
  BY <1>2, SMT DEF ReplayInv, LostIsStored
<1> QED
  BY <1>3, <1>4, <1>5

(* A step of the commit under way follows the records.                     *)
LEMMA ReplayMoves ==
    ASSUME LedgerInv, LogConsistent, DiskInv, ReplayInv, Apply \/ Record, UNCHANGED storage
    PROVE  ReplayInv'
<1>1. Stored' = Stored
  BY DEF Stored, Records, storage
<1>2. /\ version \in Nat /\ Memory.version = version /\ Memory.inflight = inflight
      /\ Memory'.version = version' /\ Memory'.inflight = inflight'
  BY StoreAndMemory DEF Memory
<1>3. /\ inflight # None /\ Memory' = Step(Memory, Stored)
      /\ version' \in Nat /\ version <= version' /\ (inflight' = None => version < version')
  <2>1. CASE Apply
    BY <1>2, <2>1, ApplyIsStep
  <2>2. CASE Record
    BY <1>2, <2>2, RecordIsStep DEF Record, next_version
  <2> QED
    BY <2>1, <2>2
<1>4. Leads(Stored, Memory')
  BY <1>2, <1>3, LeadsOn DEF ReplayInv
<1>5. Leads(Stored, Memory)'
  BY <1>1, <1>4
<1>6. RecordsValid' /\ LostIsStored'
  BY <1>1, SMT DEF ReplayInv, RecordsValid, LostIsStored, storage
<1>7. before # None => mode # "running"
  BY <1>3 DEF ReplayInv, LostUntilStaged
<1> QED
  BY <1>5, <1>6, <1>7 DEF ReplayInv, LostUntilStaged, storage

(* So does the next record of an opening.                                  *)
LEMMA ReplayBegins ==
    ASSUME LedgerInv, LogConsistent, DiskInv, ReplayInv, ReplayRecord
    PROVE  ReplayInv'
<1>1. Stored' = Stored /\ mode = "opening" /\ UNCHANGED storage
  BY DEF Stored, Records, storage, ReplayRecord
<1>2. PICK m \in 0..MaxVersion : StoredTo(m)
  BY DEF DiskInv
<1>3. /\ version \in Nat /\ Memory.version = version /\ Memory.inflight = inflight
      /\ Memory'.version = version' /\ Memory'.inflight = inflight'
      /\ DOMAIN Stored = 1..Len(Stored)
  BY StoreAndMemory DEF Memory
<1>4. /\ version + 1 \in DOMAIN Stored
      /\ Records[version + 1].value = Stored[version + 1] /\ Stored[version + 1] \in Envelope
  <2>1. NextRecord = version + 1 /\ NextRecord \in 1..m
    <3>1. Len(Records) = m /\ m \in Nat
      BY <1>2, RecordsInOrder
    <3>2. NextRecord <= Len(Records)
      BY DEF ReplayRecord, Unread
    <3> QED
      BY <1>3, <3>1, <3>2 DEF NextRecord
  <2>2. /\ Stored = [n \in 1..m |-> disk[DurableKey(n)]] /\ Stored \in Seq(Envelope)
        /\ \A n \in 1..m : Records[n].value = disk[DurableKey(n)]
    BY <1>2, RecordsInOrder
  <2>3. DOMAIN Stored = 1..m
    BY <2>2
  <2> QED
    BY <2>1, <2>2, <2>3
<1> DEFINE e == Stored[version + 1]
<1>5. Start(e)
  BY <1>4 DEF ReplayRecord, Replayable, NextRecord, Start, Settled
<1>6. e # None
  BY <1>4, LedgerAssumption
<1>7. Memory' = Step(Memory, Stored)
  BY <1>5, StartIsStep
<1>8. version' = version /\ inflight' # None
  BY <1>5, <1>6 DEF Start, state, log
<1>9. Leads(Stored, Memory')
  BY <1>3, <1>4, <1>7, <1>8, LeadsOn DEF ReplayInv
<1>10. Leads(Stored, Memory)'
  BY <1>1, <1>9
<1>11. RecordsValid' /\ LostIsStored'
  BY <1>1, SMT DEF ReplayInv, RecordsValid, LostIsStored, storage
<1> QED
  BY <1>1, <1>10, <1>11 DEF ReplayInv, LostUntilStaged, storage

(* A write adds a record that is valid at the memory it is added at.       *)
LEMMA ReplayWritten ==
    ASSUME LedgerInv, LogConsistent, DiskInv, ReplayInv, PutSucceeds
    PROVE  ReplayInv'
<1>1. /\ mode = "running" /\ inflight = None /\ before = None
      /\ mode' = mode /\ before' = before /\ staged' = None
  BY DEF PutSucceeds, DiskInv, StageHolds, ReplayInv, LostUntilStaged
<1>2. /\ version \in Nat /\ Memory.version = version /\ Memory.inflight = inflight
      /\ Memory'.version = version' /\ Memory'.inflight = inflight'
      /\ DOMAIN Stored = 1..version /\ Stored \in Seq(Envelope) /\ Len(Stored) = version
      /\ Between(Memory, version)
  BY <1>1, StoreAndMemory DEF Memory, Settled
<1>3. staged \in Envelope /\ Start(staged)
  BY WriteAppends
<1>4. Stored' = Append(Stored, staged)
  BY WriteStored
<1>5. /\ DOMAIN Stored' = 1..(version + 1) /\ Stored'[version + 1] = staged
      /\ \A n \in 1..version : Stored'[n] = Stored[n]
  BY <1>2, <1>3, <1>4
<1>6. \A s : Leads(Stored, s) => Leads(Stored', s)
  <2>1. DOMAIN Stored \subseteq DOMAIN Stored' /\ \A n \in DOMAIN Stored : Stored'[n] = Stored[n]
    BY <1>2, <1>5
  <2> QED
    BY <2>1, LeadsAppended
<1>7. Memory' = Step(Memory, Stored')
  BY <1>3, <1>5, StartIsStep
<1>8. version' = version /\ inflight' # None
  BY <1>3, LedgerAssumption DEF Start, state, log
<1>9. version + 1 \in DOMAIN Stored'
  BY <1>2, <1>5
<1>10. Leads(Stored', Memory')
  BY <1>2, <1>6, <1>7, <1>8, <1>9, LeadsOn DEF ReplayInv
<1>11. RecordsValid'
  <2> SUFFICES ASSUME NEW n \in DOMAIN Stored'
               PROVE  \E s : Leads(Stored', s) /\ Between(s, n - 1) /\ At(s)!Valid(Stored'[n])
    BY SMT DEF RecordsValid
  <2>1. CASE n \in 1..version
    BY <1>2, <1>5, <1>6, <2>1, SMT DEF ReplayInv, RecordsValid
  <2>2. CASE n = version + 1
    <3>1. Valid(staged)
      BY <1>3 DEF Start
    <3>2. At(Memory)!Valid(staged)
      BY <1>3, <3>1, ValidAtMemory, LedgerAssumption
    <3>3. Leads(Stored', Memory) /\ Between(Memory, n - 1) /\ Stored'[n] = staged
      BY <1>2, <1>5, <1>6, <2>2 DEF ReplayInv
    <3> QED
      BY <3>2, <3>3, SMT
  <2> QED
    BY <1>2, <1>5, <2>1, <2>2
<1> QED
  BY <1>1, <1>10, <1>11 DEF ReplayInv, LostIsStored, LostUntilStaged

(* A crash keeps what it loses, and starts from the blank memory again.    *)
LEMMA ReplayCrashed ==
    ASSUME LedgerInv, LogConsistent, DiskInv, ReplayInv, Crash
    PROVE  ReplayInv'
<1>1. Stored' = Stored /\ mode' = "down"
  BY DEF Stored, Records, Crash
<1>2. Memory' = Blank
  BY DEF Crash, Forget, Memory, Blank
<1>3. Leads(Stored, Memory)'
  BY <1>2, LeadsToBlank
<1>4. RecordsValid'
  BY <1>1, SMT DEF ReplayInv, RecordsValid
<1>5. LostIsStored'
  <2>1. CASE before' = before
    BY <1>1, <2>1, SMT DEF ReplayInv, LostIsStored
  <2>2. CASE mode = "running" /\ Settled /\ before' = state
    <3>1. Leads(Stored, Memory) /\ Between(Memory, Len(Stored))
      BY <2>2, StoreAndMemory DEF ReplayInv
    <3>2. At(Memory)!state = state
      BY DEF At!state, At!evidence, At!lineage, At!identity_index, At!delivery, At!log,
             state, evidence, lineage, identity_index, delivery, log, Memory
    <3> QED
      BY <1>1, <2>2, <3>1, <3>2, SMT DEF LostIsStored
  <2>3. CASE before' = None
    BY <2>3 DEF LostIsStored
  <2> QED
    BY <2>1, <2>2, <2>3 DEF Crash
<1> QED
  BY <1>1, <1>3, <1>4, <1>5 DEF ReplayInv, LostUntilStaged

(* Every step keeps the memory where the records lead to.                  *)
LEMMA ReplayInvStep ==
    LedgerInv /\ LogConsistent /\ DiskInv /\ ReplayInv /\ [DurableNext]_durablevars => ReplayInv'
<1> SUFFICES ASSUME LedgerInv, LogConsistent, DiskInv, ReplayInv, [DurableNext]_durablevars
             PROVE  ReplayInv'
  OBVIOUS
<1>1. ASSUME UNCHANGED <<state, inflight, cursor, targets, staged, disk, mode, before>>
      PROVE  ReplayInv'
  BY <1>1, ReplayKept DEF ReplayInv, LostUntilStaged
<1>2. CASE Respond \/ UNCHANGED durablevars
  BY <1>1, <1>2 DEF Respond, Prepare, Answered, Refuse, Replay, IdempotencyCollision,
     VersionConflict, DuplicateTransaction, VersionExhausted, MissingDependency, InvalidCommand,
     storage, durablevars, vars, control
<1>3. ASSUME NEW e \in Envelope, Stage(e) PROVE ReplayInv'
  <2>1. /\ UNCHANGED <<state, inflight, cursor, targets, disk>>
        /\ before' = None /\ mode' = mode
    BY <1>3 DEF Stage
  <2> QED
    BY <2>1, ReplayKept DEF ReplayInv, LostIsStored, LostUntilStaged
<1>4. CASE PutSucceeds
  BY <1>4, ReplayWritten
<1>5. CASE PutFails
  <2>1. /\ UNCHANGED <<state, inflight, cursor, targets, disk, mode, before>> /\ staged' = None
    BY <1>5 DEF PutFails
  <2> QED
    BY <2>1, ReplayKept DEF ReplayInv, LostUntilStaged
<1>6. CASE ApplyStep \/ Return \/ ReplayReturn
  <2>1. (Apply \/ Record) /\ UNCHANGED storage
    BY <1>6 DEF ApplyStep, Return, Publish, ReplayReturn
  <2> QED
    BY <2>1, ReplayMoves
<1>7. CASE ReplayRecord
  BY <1>7, ReplayBegins
<1>8. CASE Crash
  BY <1>8, ReplayCrashed
<1>9. CASE Opened
  <2>1. UNCHANGED <<state, inflight, cursor, targets, staged, disk, before>> /\ Settled
        /\ mode = "opening"
    BY <1>9 DEF Opened, vars, control
  <2>2. mode' = "running"
    BY <1>9, <2>1, UnreadIsReplayable DEF Opened
  <2>3. staged = None
    BY <2>1 DEF DiskInv, StageHolds
  <2> QED
    BY <2>1, <2>2, <2>3, ReplayKept DEF ReplayInv, LostUntilStaged, Settled
<1>10. CASE Reopen \/ ScanFails
  <2>1. UNCHANGED <<state, inflight, cursor, targets, staged, disk, before>>
        /\ mode' \in {"opening", "down"}
    BY <1>10 DEF Reopen, ScanFails, vars, control
  <2> QED
    BY <2>1, ReplayKept DEF ReplayInv, LostUntilStaged
<1> QED
  BY <1>2, <1>3, <1>4, <1>5, <1>6, <1>7, <1>8, <1>9, <1>10 DEF DurableNext, Running, Opening

(* The invariant of the memory and the store holds throughout.             *)
LEMMA ReplayInvHolds == DurableSpec => []ReplayInv
BY DurableInvHolds, InitReplay, ReplayInvStep, PTL DEF DurableSpec, DurableInv

(* Replay never fails: whatever the order of crashes, write failures and   *)
(* openings, a stored record has its version's key and is valid on the     *)
(* records before it, so `open' never finds the log corrupt.               *)
THEOREM ReplayNeverFails == DurableSpec => []NeverCorrupt
<1>1. ReplayInv => NeverCorrupt
  BY DEF ReplayInv, NeverCorrupt
<1> QED
  BY <1>1, ReplayInvHolds, PTL

(* A restart rebuilds every table that a crash between two commits lost.   *)
THEOREM RestartRecovers == DurableSpec => []Recovered
<1>1. DurableInv /\ ReplayInv => Recovered
  <2> SUFFICES ASSUME DurableInv, ReplayInv, mode = "running", before # None, Settled
               PROVE  state = before
    BY DEF Recovered
  <2>1. PICK s : Leads(Stored, s) /\ Between(s, Len(Stored)) /\ before = At(s)!state
    BY SMT DEF ReplayInv, LostIsStored
  <2>2. Len(Stored) = version /\ version \in Nat /\ Between(Memory, version)
    BY StoreAndMemory DEF DurableInv
  <2>3. s = Memory
    BY <2>1, <2>2, OneMemory DEF ReplayInv, Between
  <2>4. At(Memory)!state = state
    BY DEF At!state, At!evidence, At!lineage, At!identity_index, At!delivery, At!log,
           state, evidence, lineage, identity_index, delivery, log, Memory
  <2> QED
    BY <2>1, <2>3, <2>4, SMT
<1> QED
  BY <1>1, DurableInvHolds, ReplayInvHolds, PTL
=============================================================================
