--------------------------- MODULE KeyspaceProofs ----------------------------
(***************************************************************************)
(* Theorems about the key codec, the scan bounds and the coordinator's      *)
(* placement, for strings of every length and any ranges and nodes.         *)
(***************************************************************************)
EXTENDS Placement, ProofFacts, SequenceTheorems, TLAPS

-----------------------------------------------------------------------------
(* Strings of bytes *)

\* What is known of a string and its bytes.
LEMMA StringFacts ==
  ASSUME NEW a \in Seq(Byte)
  PROVE  /\ Len(a) \in Nat /\ DOMAIN a = 1..Len(a)
         /\ \A i \in 1..Len(a) : a[i] \in 0..255 /\ a[i] \in Nat /\ a[i] <= 255
<1>1. Len(a) \in Nat /\ DOMAIN a = 1..Len(a)
  BY LenProperties
<1>2. ASSUME NEW i \in 1..Len(a)
      PROVE  a[i] \in 0..255 /\ a[i] \in Nat /\ a[i] <= 255
  <2>1. PICK x : x = a[i]
    OBVIOUS
  <2>2. x \in 0..255
    BY <2>1, ElementOfSeq DEF Byte
  <2>3. x \in Nat /\ x <= 255
    BY <2>2
  <2>4. QED
    BY <2>1, <2>2, <2>3
<1>3. QED
  BY <1>1, <1>2

\* A prefix agrees at each of its positions.
LEMMA PrefixByBytes ==
  ASSUME NEW a \in Seq(Byte), NEW b \in Seq(Byte)
  PROVE  IsPrefix(a, b) <=> Len(a) <= Len(b) /\ \A i \in 1..Len(a) : a[i] = b[i]
<1>1. Len(a) \in Nat /\ Len(b) \in Nat
  BY StringFacts
<1>2. SubSeq(a, 1, Len(a)) = a
  BY SubSeqFull
<1>3. ASSUME Len(a) <= Len(b)
      PROVE  /\ SubSeq(b, 1, Len(a)) \in Seq(Byte)
             /\ Len(SubSeq(b, 1, Len(a))) = Len(a)
             /\ \A i \in 1..Len(a) : SubSeq(b, 1, Len(a))[i] = b[i]
  <2>1. PICK n \in Nat : n = Len(a)
    BY <1>1
  <2>2. \A i \in 1..n : b[i] \in Byte
    BY <1>1, <1>3, <2>1, ElementOfSeq
  <2>3. /\ SubSeq(b, 1, n) \in Seq(Byte)
        /\ Len(SubSeq(b, 1, n)) = IF 1 <= n THEN n - 1 + 1 ELSE 0
        /\ \A i \in 1..n - 1 + 1 : SubSeq(b, 1, n)[i] = b[1 + i - 1]
    BY <2>2, SubSeqProperties
  <2>4. QED
    BY <2>1, <2>3
<1>4. ASSUME Len(a) <= Len(b)
      PROVE  a = SubSeq(b, 1, Len(a)) <=> \A i \in 1..Len(a) : a[i] = b[i]
  <2>1. PICK c : c = SubSeq(b, 1, Len(a))
    OBVIOUS
  <2>2. c \in Seq(Byte) /\ Len(c) = Len(a) /\ \A i \in 1..Len(a) : c[i] = b[i]
    BY <1>3, <1>4, <2>1
  <2>3. (\A i \in 1..Len(a) : a[i] = c[i]) => a = c
    BY <2>2, SeqEqual
  <2>4. QED
    BY <2>1, <2>2, <2>3
<1>5. QED
  BY <1>2, <1>4 DEF IsPrefix

\* A nonempty set of positions has a last one.
LEMMA LastPosition ==
  ASSUME NEW n \in Nat, NEW S \in SUBSET (1..n), S # {}
  PROVE  /\ Max(S) \in S
         /\ \A i \in S : i <= Max(S)
<1> DEFINE T == {n - i : i \in S}
<1>1. T \in SUBSET Nat /\ T # {}
  OBVIOUS
<1>2. PICK d \in T : \A i \in T : d <= i
  <2> HIDE DEF T
  <2> QED BY <1>1, LeastNumber
<1>3. PICK m \in S : d = n - m
  OBVIOUS
<1>4. \A i \in S : m >= i
  <2>1. \A i \in S : n - m <= n - i
    BY <1>2, <1>3
  <2>2. QED
    BY <2>1
<1>5. Max(S) \in S /\ \A i \in S : Max(S) >= i
  BY <1>3, <1>4, Zenon DEF Max
<1>6. QED
  BY <1>5

-----------------------------------------------------------------------------
(* Decode *)

\* The length and the bytes of an encoded key.
LaidOut(e, t, s, p) ==
  /\ e \in Seq(Byte)
  /\ Len(e) = Len(t) + 2 + Len(p)
  /\ e[1] = Len(t)
  /\ \A i \in 1..Len(t) : e[i + 1] = t[i]
  /\ e[Len(t) + 2] = s
  /\ \A i \in 1..Len(p) : e[i + Len(t) + 2] = p[i]

\* What encode writes.
LEMMA EncodeLayout ==
  ASSUME NEW t \in Seq(Byte), NEW s \in Byte, NEW p \in Seq(Byte), Len(t) <= MAX_TENANT_LEN
  PROVE  LaidOut(Encode(t, s, p), t, s, p)
<1>1. PICK n \in Nat : n = Len(t) /\ n % 256 = n /\ n \in Byte
  <2>1. PICK l : l = Len(t)
    OBVIOUS
  <2>2. l \in Nat /\ l <= 255
    BY <2>1, StringFacts DEF MAX_TENANT_LEN
  <2>3. l \in 0..255 /\ l % 256 = l
    BY <2>2
  <2>4. l \in Byte
    BY <2>3 DEF Byte
  <2>5. QED
    BY <2>1, <2>2, <2>3, <2>4
<1>2. PICK m \in Nat : m = Len(p)
  BY StringFacts
<1>3. PICK w : w = <<n>> \o t
  OBVIOUS
<1>4. w \in Seq(Byte) /\ Len(w) = n + 1 /\ w[1] = n /\ \A i \in 1..n : w[i + 1] = t[i]
  <2>1. <<n>> \in Seq(Byte) /\ Len(<<n>>) = 1 /\ <<n>>[1] = n
    BY <1>1
  <2>2. /\ w \in Seq(Byte) /\ Len(w) = 1 + n
        /\ \A i \in 1..1 + n : w[i] = IF i <= 1 THEN <<n>>[i] ELSE t[i - 1]
    BY <1>1, <1>3, <2>1, ConcatProperties
  <2>3. w[1] = n
    BY <2>1, <2>2
  <2>4. ASSUME NEW i \in 1..n
        PROVE  w[i + 1] = t[i]
    <3>1. i + 1 \in 1..1 + n /\ ~(i + 1 <= 1) /\ i + 1 - 1 = i
      OBVIOUS
    <3>2. QED
      BY <2>2, <3>1
  <2>5. QED
    BY <2>2, <2>3, <2>4
<1>5. PICK u : u = w \o <<s>>
  OBVIOUS
<1>6. /\ u \in Seq(Byte) /\ Len(u) = n + 2 /\ u[n + 2] = s
      /\ \A i \in 1..n + 1 : u[i] = w[i]
  <2>1. <<s>> \in Seq(Byte) /\ Len(<<s>>) = 1 /\ <<s>>[1] = s
    OBVIOUS
  <2>2. /\ u \in Seq(Byte) /\ Len(u) = n + 1 + 1
        /\ \A i \in 1..n + 1 + 1 : u[i] = IF i <= n + 1 THEN w[i] ELSE <<s>>[i - (n + 1)]
    BY <1>4, <1>5, <2>1, ConcatProperties
  <2>3. n + 2 \in 1..n + 1 + 1 /\ ~(n + 2 <= n + 1) /\ n + 2 - (n + 1) = 1
    OBVIOUS
  <2>4. u[n + 2] = s
    BY <2>1, <2>2, <2>3
  <2>5. QED
    BY <2>2, <2>4
<1>7. PICK e : e = u \o p
  OBVIOUS
<1>8. /\ e \in Seq(Byte) /\ Len(e) = n + 2 + m
      /\ \A i \in 1..n + 2 : e[i] = u[i]
      /\ \A i \in 1..m : e[i + n + 2] = p[i]
  <2>1. /\ e \in Seq(Byte) /\ Len(e) = n + 2 + m
        /\ \A i \in 1..n + 2 + m : e[i] = IF i <= n + 2 THEN u[i] ELSE p[i - (n + 2)]
    <3>1. /\ e \in Seq(Byte) /\ Len(e) = Len(u) + Len(p)
          /\ \A i \in 1..Len(u) + Len(p) :
               e[i] = IF i <= Len(u) THEN u[i] ELSE p[i - Len(u)]
      <4>1. u \in Seq(Byte)
        BY <1>6
      <4>2. QED
        BY <1>7, <4>1, ConcatProperties, Zenon
    <3>2. QED
      BY <1>2, <1>6, <3>1
  <2>2. ASSUME NEW i \in 1..m
        PROVE  e[i + n + 2] = p[i]
    <3>1. i + n + 2 \in 1..n + 2 + m /\ ~(i + n + 2 <= n + 2) /\ i + n + 2 - (n + 2) = i
      OBVIOUS
    <3>2. QED
      BY <2>1, <3>1
  <2>3. QED
    BY <2>1, <2>2
<1>9. e = Encode(t, s, p)
  BY <1>1, <1>3, <1>5, <1>7 DEF Encode, WriteTenant
<1>10. e[1] = n /\ e[n + 2] = s /\ \A i \in 1..n : e[i + 1] = t[i]
  <2>1. 1 \in 1..n + 1 /\ 1 \in 1..n + 2 /\ n + 2 \in 1..n + 2
    OBVIOUS
  <2>2. ASSUME NEW i \in 1..n
        PROVE  e[i + 1] = t[i]
    <3>1. i + 1 \in 1..n + 1 /\ i + 1 \in 1..n + 2
      OBVIOUS
    <3>2. QED
      BY <1>4, <1>6, <1>8, <3>1
  <2>3. QED
    BY <1>4, <1>6, <1>8, <2>1, <2>2
<1>11. LaidOut(e, t, s, p)
  BY <1>1, <1>2, <1>8, <1>10 DEF LaidOut
<1>12. QED
  BY <1>9, <1>11

\* What decode takes from a key it accepts.
LEMMA DecodeAccepts ==
  ASSUME NEW key \in Seq(Byte), Decode(key) # Corrupt
  PROVE  /\ key # <<>> /\ key[1] # 0 /\ key[1] + 2 <= Len(key)
         /\ IsUtf8(SubSeq(key, 2, 1 + key[1]))
         /\ key[2 + key[1]] \in Subspaces
         /\ Decode(key) = [tenant |-> SubSeq(key, 2, 1 + key[1]), subspace |-> key[2 + key[1]],
                           payload |-> SubSeq(key, 3 + key[1], Len(key))]
BY DEF Decode

\* A key is put together again from the pieces that decode takes.
LEMMA DecodedEncodes ==
  ASSUME NEW key \in Seq(Byte), Decode(key) # Corrupt
  PROVE  /\ TenantOk(Decode(key).tenant)
         /\ Encode(Decode(key).tenant, Decode(key).subspace, Decode(key).payload) = key
<1>1. PICK n \in Nat : n = Len(key)
  BY StringFacts
<1>2. key # <<>> => n > 0
  BY <1>1, EmptySeq
<1>3. n > 0 /\ key[1] \in 0..255 /\ \A i \in 1..n : key[i] \in Byte
  <2>1. n > 0
    BY <1>2, DecodeAccepts
  <2>2. \A i \in 1..n : key[i] \in 0..255
    BY <1>1, StringFacts
  <2>3. QED
    BY <2>1, <2>2 DEF Byte
<1>4. PICK l \in Nat : l = key[1] /\ l > 0 /\ l <= 255 /\ l + 2 <= n
  <2>1. PICK k : k = key[1]
    OBVIOUS
  <2>2. k # 0 /\ k + 2 <= n
    BY <1>1, <2>1, DecodeAccepts
  <2>3. k \in 0..255
    BY <1>3, <2>1
  <2>4. k \in Nat /\ k > 0 /\ k <= 255
    BY <2>2, <2>3
  <2>5. QED
    BY <2>1, <2>2, <2>4
<1>5. PICK t : t = SubSeq(key, 2, 1 + l)
  OBVIOUS
<1>6. t \in Seq(Byte) /\ Len(t) = l /\ \A i \in 1..l : t[i] = key[i + 1]
  <2>1. \A i \in 2..1 + l : key[i] \in Byte
    BY <1>3, <1>4
  <2>2. /\ t \in Seq(Byte)
        /\ Len(t) = IF 2 <= 1 + l THEN 1 + l - 2 + 1 ELSE 0
        /\ \A i \in 1..1 + l - 2 + 1 : t[i] = key[2 + i - 1]
    BY <1>5, <2>1, SubSeqProperties
  <2>3. 2 <= 1 + l /\ 1 + l - 2 + 1 = l /\ \A i \in 1..l : 2 + i - 1 = i + 1
    BY <1>4
  <2>4. QED
    BY <2>2, <2>3
<1>7. PICK p : p = SubSeq(key, 3 + l, n)
  OBVIOUS
<1>8. p \in Seq(Byte) /\ Len(p) = n - l - 2 /\ \A i \in 1..n - l - 2 : p[i] = key[i + l + 2]
  <2>1. \A i \in 3 + l..n : key[i] \in Byte
    BY <1>3, <1>4
  <2>2. /\ p \in Seq(Byte)
        /\ Len(p) = IF 3 + l <= n THEN n - (3 + l) + 1 ELSE 0
        /\ \A i \in 1..n - (3 + l) + 1 : p[i] = key[3 + l + i - 1]
    BY <1>7, <2>1, SubSeqProperties
  <2>3. n - (3 + l) + 1 = n - l - 2 /\ \A i \in 1..n - l - 2 : 3 + l + i - 1 = i + l + 2
    OBVIOUS
  <2>4. ~(3 + l <= n) => n - l - 2 = 0
    BY <1>4
  <2>5. QED
    BY <2>2, <2>3, <2>4
<1>9. PICK s \in Byte : s = key[2 + l]
  BY <1>3, <1>4
<1>10. Decode(key) = [tenant |-> t, subspace |-> s, payload |-> p]
  BY <1>1, <1>4, <1>5, <1>7, <1>9, DecodeAccepts
<1>11. TenantOk(t) /\ Len(t) <= MAX_TENANT_LEN
  <2>1. Len(t) # Len(<<>>)
    BY <1>4, <1>6, EmptySeq
  <2>2. Len(t) <= MAX_TENANT_LEN
    BY <1>4, <1>6 DEF MAX_TENANT_LEN
  <2>3. QED
    BY <2>1, <2>2 DEF TenantOk
<1>12. PICK e : e = Encode(t, s, p)
  OBVIOUS
<1>13. /\ e \in Seq(Byte) /\ Len(e) = l + 2 + (n - l - 2)
       /\ e[1] = l /\ e[l + 2] = s
       /\ \A i \in 1..l : e[i + 1] = t[i]
       /\ \A i \in 1..n - l - 2 : e[i + l + 2] = p[i]
  <2>1. t \in Seq(Byte) /\ p \in Seq(Byte)
    BY <1>6, <1>8
  <2>2. /\ e \in Seq(Byte)
        /\ Len(e) = Len(t) + 2 + Len(p)
        /\ e[1] = Len(t)
        /\ \A i \in 1..Len(t) : e[i + 1] = t[i]
        /\ e[Len(t) + 2] = s
        /\ \A i \in 1..Len(p) : e[i + Len(t) + 2] = p[i]
    <3>1. LaidOut(Encode(t, s, p), t, s, p)
      BY <1>11, <2>1, EncodeLayout
    <3>2. QED
      BY <1>12, <3>1 DEF LaidOut
  <2>3. Len(t) = l /\ Len(p) = n - l - 2
    BY <1>6, <1>8
  <2>4. QED
    BY <2>2, <2>3
<1>14. ASSUME NEW i \in 1..n
       PROVE  e[i] = key[i]
  <2>1. CASE i = 1
    BY <1>4, <1>13, <2>1
  <2>2. CASE i \in 2..l + 1
    <3>1. PICK j \in 1..l : i = j + 1
      BY <2>2
    <3>2. QED
      BY <1>6, <1>13, <3>1
  <2>3. CASE i = l + 2
    BY <1>9, <1>13, <2>3
  <2>4. CASE i > l + 2
    <3>1. PICK j \in 1..n - l - 2 : i = j + l + 2
      BY <2>4
    <3>2. QED
      BY <1>8, <1>13, <3>1
  <2>5. QED
    BY <2>1, <2>2, <2>3, <2>4
<1>15. e = key
  <2>1. Len(e) = n
    BY <1>13
  <2>2. QED
    BY <1>1, <1>13, <1>14, <2>1, SeqEqual
<1>16. Decode(key).tenant = t /\ Decode(key).subspace = s /\ Decode(key).payload = p
  BY <1>10
<1>17. QED
  BY <1>11, <1>12, <1>15, <1>16, Zenon

\* key.rs, decode: what encode wrote is read back.
LEMMA EncodedDecodes ==
  ASSUME NEW t \in Seq(Byte), TenantOk(t), IsUtf8(t), NEW s \in Subspaces, NEW p \in Seq(Byte)
  PROVE  /\ Decode(Encode(t, s, p)) = [tenant |-> t, subspace |-> s, payload |-> p]
         /\ Decode(Encode(t, s, p)) # Corrupt
<1>1. /\ t \in Seq(Byte) /\ t # <<>> /\ Len(t) <= MAX_TENANT_LEN /\ IsUtf8(t)
      /\ s \in Byte /\ p \in Seq(Byte)
  BY DEF TenantOk, Subspaces, Metadata, Data, Index, Stats, Byte
<1>2. PICK n \in Nat, m \in Nat : n = Len(t) /\ m = Len(p)
  BY <1>1, StringFacts
<1>3. n # 0
  BY <1>1, <1>2, EmptySeq
<1>4. PICK e : e = Encode(t, s, p)
  OBVIOUS
<1>5. LaidOut(e, t, s, p)
  BY <1>1, <1>4, EncodeLayout
<1>6. /\ e \in Seq(Byte) /\ Len(e) = n + 2 + m /\ e[1] = n /\ e[n + 2] = s
      /\ \A i \in 1..n : e[i + 1] = t[i]
      /\ \A i \in 1..m : e[i + n + 2] = p[i]
  BY <1>2, <1>5 DEF LaidOut
<1>7. \A i \in 1..n + 2 + m : e[i] \in Byte
  BY <1>6, ElementOfSeq
<1>8. SubSeq(e, 2, 1 + n) = t
  <2>1. PICK a : a = SubSeq(e, 2, 1 + n)
    OBVIOUS
  <2>2. \A i \in 2..1 + n : e[i] \in Byte
    BY <1>7
  <2>3. /\ a \in Seq(Byte)
        /\ Len(a) = IF 2 <= 1 + n THEN (1 + n) - 2 + 1 ELSE 0
        /\ \A i \in 1..(1 + n) - 2 + 1 : a[i] = e[2 + i - 1]
    BY <2>1, <2>2, SubSeqProperties
  <2>4. 2 <= 1 + n /\ (1 + n) - 2 + 1 = n /\ \A i \in 1..n : 2 + i - 1 = i + 1
    BY <1>3
  <2>5. Len(a) = n /\ \A i \in 1..n : a[i] = t[i]
    BY <1>6, <2>3, <2>4
  <2>6. a = t
    BY <1>1, <1>2, <2>3, <2>5, SeqEqual
  <2>7. QED
    BY <2>1, <2>6
<1>9. SubSeq(e, 3 + n, Len(e)) = p
  <2>1. PICK a : a = SubSeq(e, 3 + n, n + 2 + m)
    OBVIOUS
  <2>2. \A i \in 3 + n..n + 2 + m : e[i] \in Byte
    BY <1>7
  <2>3. /\ a \in Seq(Byte)
        /\ Len(a) = IF 3 + n <= n + 2 + m THEN (n + 2 + m) - (3 + n) + 1 ELSE 0
        /\ \A i \in 1..(n + 2 + m) - (3 + n) + 1 : a[i] = e[3 + n + i - 1]
    BY <2>1, <2>2, SubSeqProperties
  <2>4. /\ (n + 2 + m) - (3 + n) + 1 = m /\ (~(3 + n <= n + 2 + m) => m = 0)
        /\ \A i \in 1..m : 3 + n + i - 1 = i + n + 2
    OBVIOUS
  <2>5. Len(a) = m /\ \A i \in 1..m : a[i] = p[i]
    BY <1>6, <2>3, <2>4
  <2>6. a = p
    BY <1>1, <1>2, <2>3, <2>5, SeqEqual
  <2>7. QED
    BY <1>6, <2>1, <2>6
<1>10. e # <<>>
  BY <1>6
<1>11. /\ e[1] # 0 /\ e[1] + 2 <= Len(e) /\ e[2 + e[1]] = s /\ 2 + n = n + 2
  BY <1>3, <1>6
<1>12. Decode(e) = [tenant |-> t, subspace |-> s, payload |-> p]
  <2>1. SubSeq(e, 2, 1 + e[1]) = t /\ SubSeq(e, 3 + e[1], Len(e)) = p
    BY <1>6, <1>8, <1>9
  <2>2. QED
    BY <1>1, <1>10, <1>11, <2>1 DEF Decode
<1>13. Decode(e) # Corrupt
  <2>1. Decode(e).tenant = t /\ Corrupt.tenant = <<>>
    BY <1>12 DEF Corrupt
  <2>2. QED
    BY <1>1, <2>1
<1>14. QED
  BY <1>4, <1>12, <1>13

-----------------------------------------------------------------------------
(* The bounds of a scan *)

\* Where the bound of a prefix differs from the prefix: at the last byte that
\* is not 0xFF, which is one larger, and behind which nothing is left.
BoundAt(b, p, m) ==
  /\ m \in 1..Len(p) /\ Len(b) = m
  /\ b \in Seq(Nat)
  /\ b[m] = p[m] + 1
  /\ \A i \in 1..m - 1 : b[i] = p[i]
  /\ \A i \in m + 1..Len(p) : p[i] = 255

\* next_prefix_bound finds that byte unless the prefix is 0xFF bytes only.
LEMMA BoundLayout ==
  ASSUME NEW p \in Seq(Byte), NextPrefixBound(p) # <<>>
  PROVE  \E m \in Nat : BoundAt(NextPrefixBound(p), p, m)
<1> DEFINE low == {i \in DOMAIN p : p[i] # 255}
<1>1. PICK n \in Nat : n = Len(p)
  BY StringFacts
<1>2. DOMAIN p = 1..n /\ \A i \in 1..n : p[i] \in Nat
  BY <1>1, StringFacts
<1>3. low # {} /\ NextPrefixBound(p) = [SubSeq(p, 1, Max(low)) EXCEPT ![Max(low)] = @ + 1]
  BY DEF NextPrefixBound
<1>4. low \in SUBSET (1..n)
  BY <1>2
<1>5. PICK m \in low : m = Max(low) /\ \A i \in low : i <= m
  <2> HIDE DEF low
  <2> QED BY <1>3, <1>4, LastPosition
<1>6. m \in Nat /\ m \in 1..n /\ m <= n /\ \A i \in m + 1..n : p[i] = 255
  <2>1. m \in 1..n
    BY <1>4
  <2>2. ASSUME NEW i \in m + 1..n
        PROVE  p[i] = 255
    <3>1. i \in 1..n /\ ~(i <= m)
      BY <2>1
    <3>2. QED
      BY <1>2, <1>5, <3>1
  <2>3. QED
    BY <2>1, <2>2
<1>7. PICK k \in Nat : k = m
  BY <1>6
<1>8. PICK c : c = SubSeq(p, 1, k)
  OBVIOUS
<1>9. c \in Seq(Nat) /\ Len(c) = k /\ \A i \in 1..k : c[i] = p[i]
  <2>1. \A i \in 1..k : p[i] \in Nat
    BY <1>2, <1>6, <1>7
  <2>2. /\ c \in Seq(Nat)
        /\ Len(c) = IF 1 <= k THEN k - 1 + 1 ELSE 0
        /\ \A i \in 1..k - 1 + 1 : c[i] = p[1 + i - 1]
    BY <1>8, <2>1, SubSeqProperties
  <2>3. QED
    BY <2>2
<1>10. PICK b : b = [c EXCEPT ![k] = c[k] + 1]
  OBVIOUS
<1>11. k \in 1..Len(c) /\ c[k] + 1 \in Nat /\ c[k] = p[k]
  <2>1. k \in 1..k
    BY <1>6, <1>7
  <2>2. c[k] \in Nat
    BY <1>9, <2>1, ElementOfSeq
  <2>3. QED
    BY <1>9, <2>1, <2>2
<1>12. /\ b \in Seq(Nat) /\ Len(b) = k
       /\ \A i \in 1..k : b[i] = IF i = k THEN c[k] + 1 ELSE c[i]
  <2>1. PICK v : v = c[k] + 1 /\ v \in Nat
    BY <1>11
  <2>2. /\ b \in Seq(Nat) /\ Len(b) = Len(c)
        /\ \A i \in 1..Len(c) : b[i] = IF i = k THEN v ELSE c[i]
    BY <1>9, <1>10, <1>11, <2>1, ExceptSeq
  <2>3. QED
    BY <1>9, <2>1, <2>2
<1>13. BoundAt(b, p, k)
  <2>1. k \in 1..k /\ \A i \in 1..k - 1 : i \in 1..k /\ i # k
    BY <1>6, <1>7
  <2>2. b[k] = p[k] + 1
    BY <1>11, <1>12, <2>1
  <2>3. \A i \in 1..k - 1 : b[i] = p[i]
    BY <1>9, <1>12, <2>1
  <2>4. QED
    BY <1>1, <1>6, <1>7, <1>12, <2>2, <2>3 DEF BoundAt
<1>14. NextPrefixBound(p) = b
  BY <1>3, <1>5, <1>7, <1>8, <1>10
<1>15. QED
  BY <1>13, <1>14

\* The keys in front of the bound that are not in front of the prefix are
\* those that start with it.
LEMMA RangeOfPrefix ==
  ASSUME NEW p \in Seq(Byte), NEW key \in Seq(Byte), NEW b, NEW m \in Nat, BoundAt(b, p, m)
  PROVE  InRange(key, p, b) <=> IsPrefix(p, key)
<1>1. PICK n \in Nat, l \in Nat : n = Len(p) /\ l = Len(key)
  BY StringFacts
<1>2. /\ DOMAIN p = 1..n /\ DOMAIN key = 1..l
      /\ \A i \in 1..n : p[i] \in Nat /\ p[i] <= 255
      /\ \A i \in 1..l : key[i] \in Nat /\ key[i] <= 255
  BY <1>1, StringFacts
<1>3. /\ m \in 1..n /\ Len(b) = m /\ b \in Seq(Nat) /\ b[m] = p[m] + 1
      /\ \A i \in 1..m - 1 : b[i] = p[i]
      /\ \A i \in m + 1..n : p[i] = 255
  BY <1>1 DEF BoundAt
<1>4. DOMAIN b = 1..m
  BY <1>3, LenProperties
<1>5. IsPrefix(p, key) <=> n <= l /\ \A i \in 1..n : p[i] = key[i]
  BY <1>1, PrefixByBytes
<1>6. ASSUME IsPrefix(p, key)
      PROVE  InRange(key, p, b)
  <2>1. AtMost(p, key)
    BY <1>6 DEF AtMost, Less, IsStrictPrefix
  <2>2. m \in DOMAIN key \cap DOMAIN b /\ key[m] < b[m] /\ \A j \in 1..m - 1 : key[j] = b[j]
    BY <1>2, <1>3, <1>4, <1>5, <1>6
  <2>3. QED
    BY <2>1, <2>2 DEF InRange, Less
<1>7. ASSUME InRange(key, p, b)
      PROVE  IsPrefix(p, key)
  <2>1. CASE p = key \/ IsStrictPrefix(p, key)
    <3>1. n <= n /\ \A i \in 1..n : p[i] = p[i]
      OBVIOUS
    <3>2. p = key => IsPrefix(p, key)
      BY <1>1, <1>5, <3>1
    <3>3. QED
      BY <2>1, <3>2 DEF IsStrictPrefix
  <2>2. CASE \E i \in DOMAIN p \cap DOMAIN key :
               p[i] < key[i] /\ \A j \in 1..i - 1 : p[j] = key[j]
    <3>1. PICK i \in 1..n : i <= l /\ p[i] < key[i] /\ \A j \in 1..i - 1 : p[j] = key[j]
      <4>1. \A i \in DOMAIN p \cap DOMAIN key : i \in 1..n /\ i <= l
        BY <1>2
      <4>2. QED
        BY <2>2, <4>1, Zenon
    <3>2. i <= m
      BY <1>2, <1>3, <3>1
    <3>3. CASE IsStrictPrefix(key, b)
      <4>1. SubSeq(key, 1, l) = SubSeq(b, 1, l) /\ l <= m /\ key # b
        BY <1>1, <1>3, <3>3 DEF IsStrictPrefix, IsPrefix
      <4>2. ASSUME NEW j \in 1..l
            PROVE  key[j] = b[j]
        <5>1. \A q \in 1..l : key[q] \in Nat /\ b[q] \in Nat
          BY <1>2, <1>3, <4>1, ElementOfSeq
        <5>2. \A q \in 1..l - 1 + 1 : SubSeq(key, 1, l)[q] = key[1 + q - 1]
          BY <5>1, SubSeqProperties
        <5>3. \A q \in 1..l - 1 + 1 : SubSeq(b, 1, l)[q] = b[1 + q - 1]
          BY <5>1, SubSeqProperties
        <5>4. QED
          BY <4>1, <5>2, <5>3
      <4>3. l # m
        <5>1. SUFFICES ASSUME l = m
                       PROVE  FALSE
          OBVIOUS
        <5>2. key \in Seq(Nat) /\ Len(key) = Len(b) /\ \A j \in 1..Len(key) : key[j] = b[j]
          <6>1. Byte \subseteq Nat
            BY DEF Byte
          <6>2. key \in Seq(Nat)
            BY <6>1, SeqMonotonic
          <6>3. QED
            BY <1>1, <1>3, <4>2, <5>1, <6>2
        <5>3. QED
          BY <1>3, <4>1, <5>2, SeqEqual
      <4>4. key[i] = p[i]
        BY <1>3, <3>1, <4>1, <4>2, <4>3
      <4>5. QED
        BY <1>2, <3>1, <4>4
    <3>4. CASE \E k \in DOMAIN key \cap DOMAIN b :
                 key[k] < b[k] /\ \A j \in 1..k - 1 : key[j] = b[j]
      <4>1. PICK k \in 1..m : k <= l /\ key[k] < b[k] /\ \A j \in 1..k - 1 : key[j] = b[j]
        BY <1>2, <1>4, <3>4
      <4>2. CASE k < i
        <5>1. k \in 1..m - 1 /\ k \in 1..i - 1 /\ k \in 1..l
          BY <3>2, <4>1, <4>2
        <5>2. b[k] = p[k] /\ p[k] = key[k] /\ key[k] \in Nat
          BY <1>2, <1>3, <3>1, <5>1
        <5>3. QED
          BY <4>1, <5>2
      <4>3. CASE i < k
        <5>1. i \in 1..m - 1 /\ i \in 1..k - 1 /\ i \in 1..l
          BY <3>1, <4>1, <4>3
        <5>2. b[i] = p[i] /\ key[i] = b[i] /\ key[i] \in Nat
          BY <1>2, <1>3, <4>1, <5>1
        <5>3. QED
          BY <3>1, <5>2
      <4>4. CASE i = k
        <5>1. p[i] \in Nat /\ key[i] \in Nat
          BY <1>2, <3>1
        <5>2. b[i] = p[i] \/ b[i] = p[i] + 1
          BY <1>3, <3>1, <3>2
        <5>3. key[i] < b[i] /\ p[i] < key[i]
          BY <3>1, <4>1, <4>4
        <5>4. QED
          BY <5>1, <5>2, <5>3
      <4>5. QED
        BY <4>2, <4>3, <4>4
    <3>5. QED
      BY <1>7, <3>3, <3>4 DEF InRange, Less
  <2>3. QED
    BY <1>7, <2>1, <2>2 DEF InRange, AtMost, Less
<1>8. QED
  BY <1>6, <1>7

-----------------------------------------------------------------------------
(* Bytes from outside *)

\* key.rs, decode: any bytes at all are refused, or are what encode writes for
\* the answer; and any key that encode writes for a name in UTF-8 is read back.
THEOREM DecodesWhatIsEncoded ==
  ASSUME text \in Seq(Byte)
  PROVE  DecodeExact
<1>1. PICK key \in Seq(Byte) : key = text
  OBVIOUS
<1>2. Decode(key) # Corrupt =>
        /\ TenantOk(Decode(key).tenant)
        /\ Encode(Decode(key).tenant, Decode(key).subspace, Decode(key).payload) = key
  BY DecodedEncodes
<1>3. ASSUME NEW n \in 1..Len(key) - 2, NEW t, t = SubSeq(key, 2, n + 1), NEW s, s = key[n + 2],
             NEW p, p = SubSeq(key, n + 3, Len(key)),
             TenantOk(t), IsUtf8(t), s \in Subspaces, key = Encode(t, s, p)
      PROVE  Decode(key) = [tenant |-> t, subspace |-> s, payload |-> p]
  <2>1. PICK m \in Nat : m = Len(key)
    BY StringFacts
  <2>2. \A i \in 1..m : key[i] \in Byte
    BY <2>1, ElementOfSeq
  <2>3. t \in Seq(Byte)
    <3>1. \A i \in 2..n + 1 : key[i] \in Byte
      BY <2>1, <2>2
    <3>2. QED
      BY <1>3, <3>1, SubSeqProperties
  <2>4. p \in Seq(Byte)
    <3>1. \A i \in n + 3..m : key[i] \in Byte
      BY <2>1, <2>2
    <3>2. QED
      BY <1>3, <2>1, <3>1, SubSeqProperties
  <2>5. Decode(Encode(t, s, p)) = [tenant |-> t, subspace |-> s, payload |-> p]
    <3>1. TenantOk(t) /\ IsUtf8(t) /\ s \in Subspaces
      BY <1>3
    <3>2. QED
      BY <2>3, <2>4, <3>1, EncodedDecodes
  <2>6. key = Encode(t, s, p)
    BY <1>3
  <2>7. QED
    BY <2>5, <2>6
<1>4. QED
  BY <1>1, <1>2, <1>3, Zenon DEF DecodeExact

\* grpc.rs, next_prefix_bound: for any prefix at all, the keys of the range are
\* those that start with it.
THEOREM BoundsOfAnyPrefix ==
  ASSUME text \in Seq(Byte)
  PROVE  BoundsExact
<1>1. SUFFICES ASSUME NextPrefixBound(text) # <<>>, NEW key \in Strings
               PROVE  InRange(key, text, NextPrefixBound(text)) <=> IsPrefix(text, key)
  BY DEF BoundsExact
<1>2. PICK p : p = text
  OBVIOUS
<1>3. p \in Seq(Byte) /\ NextPrefixBound(p) # <<>> /\ key \in Seq(Byte)
  BY <1>1, <1>2, KeyspaceAssumption
<1>4. PICK m \in Nat : BoundAt(NextPrefixBound(p), p, m)
  BY <1>3, BoundLayout
<1>5. InRange(key, p, NextPrefixBound(p)) <=> IsPrefix(p, key)
  BY <1>3, <1>4, RangeOfPrefix
<1>6. QED
  BY <1>2, <1>5

\* The bytes grown by the run are bytes.
LEMMA TextIsBytes == TextSpec => [](text \in Seq(Byte))
<1>1. TextInit => text \in Seq(Byte)
  BY DEF TextInit
<1>2. text \in Seq(Byte) /\ [Extend]_text => (text \in Seq(Byte))'
  BY KeyspaceAssumption DEF Extend
<1>3. QED
  BY <1>1, <1>2, PTL DEF TextSpec

\* key.rs, decode: holds of every string of bytes that is ever given to it.
THEOREM DecodeExactAlways == TextSpec => []DecodeExact
<1>1. text \in Seq(Byte) => DecodeExact
  BY DecodesWhatIsEncoded
<1>2. QED
  BY <1>1, TextIsBytes, PTL

\* grpc.rs, next_prefix_bound: holds of every prefix that is ever asked for.
THEOREM BoundsExactAlways == TextSpec => []BoundsExact
<1>1. text \in Seq(Byte) => BoundsExact
  BY BoundsOfAnyPrefix
<1>2. QED
  BY <1>1, TextIsBytes, PTL

-----------------------------------------------------------------------------
(* The order of byte slices is a strict total order *)

\* The first position at which `a` falls below `b`.
BelowAt(a, b, i) ==
  /\ i \in 1..Len(b) /\ i <= Len(a) + 1
  /\ i <= Len(a) => a[i] < b[i]
  /\ \A j \in 1..i - 1 : a[j] = b[j]

\* The two cases of the order are one.
LEMMA LessAt ==
  ASSUME NEW a \in Seq(Byte), NEW b \in Seq(Byte)
  PROVE  Less(a, b) <=> \E i \in Nat : BelowAt(a, b, i)
<1>1. PICK n \in Nat, m \in Nat : n = Len(a) /\ m = Len(b)
  BY StringFacts
<1>2. DOMAIN a = 1..n /\ DOMAIN b = 1..m
  BY <1>1, StringFacts
<1>3. IsPrefix(a, b) <=> n <= m /\ \A i \in 1..n : a[i] = b[i]
  BY <1>1, PrefixByBytes
<1>4. ASSUME Less(a, b)
      PROVE  \E i \in Nat : BelowAt(a, b, i)
  <2>1. CASE IsStrictPrefix(a, b)
    <3>1. n <= m /\ (\A i \in 1..n : a[i] = b[i]) /\ a # b
      BY <1>3, <2>1 DEF IsStrictPrefix
    <3>2. n # m
      <4>1. n = m => Len(a) = Len(b) /\ \A i \in 1..Len(a) : a[i] = b[i]
        BY <1>1, <3>1
      <4>2. QED
        BY <3>1, <4>1, SeqEqual
    <3>3. BelowAt(a, b, n + 1)
      BY <1>1, <3>1, <3>2 DEF BelowAt
    <3>4. QED
      BY <3>3
  <2>2. CASE \E i \in DOMAIN a \cap DOMAIN b : a[i] < b[i] /\ \A j \in 1..i - 1 : a[j] = b[j]
    <3>1. PICK i \in DOMAIN a \cap DOMAIN b : a[i] < b[i] /\ \A j \in 1..i - 1 : a[j] = b[j]
      BY <2>2
    <3>2. i \in 1..n /\ i \in 1..m
      BY <1>2
    <3>3. BelowAt(a, b, i) /\ i \in Nat
      BY <1>1, <3>1, <3>2 DEF BelowAt
    <3>4. QED
      BY <3>3
  <2>3. QED
    BY <1>4, <2>1, <2>2 DEF Less
<1>5. ASSUME NEW i \in Nat, BelowAt(a, b, i)
      PROVE  Less(a, b)
  <2>1. /\ i \in 1..m /\ i <= n + 1 /\ (i <= n => a[i] < b[i])
        /\ \A j \in 1..i - 1 : a[j] = b[j]
    BY <1>1, <1>5 DEF BelowAt
  <2>2. CASE i <= n
    <3>1. i \in DOMAIN a \cap DOMAIN b /\ a[i] < b[i] /\ \A j \in 1..i - 1 : a[j] = b[j]
      BY <1>2, <2>1, <2>2
    <3>2. QED
      BY <3>1 DEF Less
  <2>3. CASE i = n + 1
    <3>1. n <= m /\ n # m /\ \A j \in 1..n : a[j] = b[j]
      BY <2>1, <2>3
    <3>2. a # b
      BY <1>1, <3>1
    <3>3. QED
      BY <1>3, <3>1, <3>2 DEF Less, IsStrictPrefix
  <2>4. QED
    BY <2>1, <2>2, <2>3
<1>6. QED
  BY <1>4, <1>5

\* Nothing is less than itself.
LEMMA LessIrreflexive ==
  ASSUME NEW a \in Seq(Byte)
  PROVE  ~Less(a, a)
<1>1. SUFFICES ASSUME NEW i \in Nat, BelowAt(a, a, i)
               PROVE  FALSE
  BY LessAt
<1>2. i \in 1..Len(a) /\ i <= Len(a) /\ a[i] \in Nat
  BY <1>1, StringFacts DEF BelowAt
<1>3. a[i] < a[i]
  BY <1>1, <1>2 DEF BelowAt
<1>4. QED
  BY <1>2, <1>3

\* The order is transitive.
LEMMA LessTransitive ==
  ASSUME NEW a \in Seq(Byte), NEW b \in Seq(Byte), NEW c \in Seq(Byte), Less(a, b), Less(b, c)
  PROVE  Less(a, c)
<1>1. PICK i \in Nat : BelowAt(a, b, i)
  BY LessAt
<1>2. PICK k \in Nat : BelowAt(b, c, k)
  BY LessAt
<1>3. PICK l \in Nat, m \in Nat, n \in Nat : l = Len(a) /\ m = Len(b) /\ n = Len(c)
  BY StringFacts
<1>4. /\ i \in 1..m /\ i <= l + 1 /\ (i <= l => a[i] < b[i])
      /\ \A j \in 1..i - 1 : a[j] = b[j]
  BY <1>1, <1>3 DEF BelowAt
<1>5. /\ k \in 1..n /\ k <= m + 1 /\ (k <= m => b[k] < c[k])
      /\ \A j \in 1..k - 1 : b[j] = c[j]
  BY <1>2, <1>3 DEF BelowAt
<1>6. /\ \A j \in 1..l : a[j] \in Nat
      /\ \A j \in 1..m : b[j] \in Nat
      /\ \A j \in 1..n : c[j] \in Nat
  BY <1>3, StringFacts
<1>7. CASE i < k
  <2>1. i \in 1..n /\ b[i] = c[i] /\ \A j \in 1..i - 1 : a[j] = c[j]
    BY <1>4, <1>5, <1>7
  <2>2. BelowAt(a, c, i)
    BY <1>3, <1>4, <2>1 DEF BelowAt
  <2>3. QED
    BY <2>2, LessAt
<1>8. CASE k < i
  <2>1. k \in 1..l /\ k <= m /\ a[k] = b[k] /\ \A j \in 1..k - 1 : a[j] = c[j]
    BY <1>4, <1>5, <1>8
  <2>2. BelowAt(a, c, k)
    BY <1>3, <1>5, <2>1 DEF BelowAt
  <2>3. QED
    BY <2>2, LessAt
<1>9. CASE i = k
  <2>1. i \in 1..n /\ \A j \in 1..i - 1 : a[j] = c[j]
    BY <1>4, <1>5, <1>9
  <2>2. i <= l => a[i] < c[i]
    <3>1. SUFFICES ASSUME i <= l
                   PROVE  a[i] < c[i]
      OBVIOUS
    <3>2. a[i] \in Nat /\ b[i] \in Nat /\ c[i] \in Nat /\ a[i] < b[i] /\ b[i] < c[i]
      BY <1>4, <1>5, <1>6, <1>9, <3>1
    <3>3. QED
      BY <3>2
  <2>3. BelowAt(a, c, i)
    BY <1>3, <1>4, <2>1, <2>2 DEF BelowAt
  <2>4. QED
    BY <2>3, LessAt
<1>10. QED
  BY <1>7, <1>8, <1>9

\* Of two strings, one is less or they are equal.
LEMMA LessTotal ==
  ASSUME NEW a \in Seq(Byte), NEW b \in Seq(Byte)
  PROVE  a = b \/ Less(a, b) \/ Less(b, a)
<1>1. PICK n \in Nat, m \in Nat : n = Len(a) /\ m = Len(b)
  BY StringFacts
<1>2. /\ \A j \in 1..n : a[j] \in Nat
      /\ \A j \in 1..m : b[j] \in Nat
  BY <1>1, StringFacts
<1> DEFINE D == {i \in Nat : i > 0 /\ (i > n \/ i > m \/ a[i] # b[i])}
<1>3. D \in SUBSET Nat /\ n + 1 \in D
  OBVIOUS
<1>4. PICK d \in D : \A i \in D : d <= i
  <2> HIDE DEF D
  <2> QED BY <1>3, LeastNumber
<1>5. d \in Nat /\ d > 0 /\ (d > n \/ d > m \/ a[d] # b[d])
  OBVIOUS
<1>6. ASSUME NEW j \in 1..d - 1
      PROVE  j \in 1..n /\ j \in 1..m /\ a[j] = b[j]
  <2>1. j \in Nat /\ j > 0 /\ ~(d <= j)
    BY <1>5
  <2>2. j \notin D
    BY <1>4, <2>1
  <2>3. QED
    BY <2>1, <2>2
<1>7. d <= n + 1 /\ d <= m + 1
  <2>1. d # 1 => d - 1 \in 1..d - 1
    BY <1>5
  <2>2. d # 1 => d - 1 \in 1..n /\ d - 1 \in 1..m
    BY <1>6, <2>1
  <2>3. QED
    BY <1>5, <2>2
<1>8. CASE d > n /\ d > m
  <2>1. n = d - 1 /\ m = d - 1
    BY <1>5, <1>7, <1>8
  <2>2. Len(a) = Len(b) /\ \A j \in 1..Len(a) : a[j] = b[j]
    BY <1>1, <1>6, <2>1
  <2>3. QED
    BY <2>2, SeqEqual
<1>9. CASE d > n /\ d <= m
  <2>1. BelowAt(a, b, d)
    BY <1>1, <1>5, <1>6, <1>7, <1>9 DEF BelowAt
  <2>2. QED
    BY <1>5, <2>1, LessAt
<1>10. CASE d <= n /\ d > m
  <2>1. BelowAt(b, a, d)
    BY <1>1, <1>5, <1>6, <1>7, <1>10 DEF BelowAt
  <2>2. QED
    BY <1>5, <2>1, LessAt
<1>11. CASE d <= n /\ d <= m
  <2>1. a[d] \in Nat /\ b[d] \in Nat /\ a[d] # b[d]
    BY <1>2, <1>5, <1>11
  <2>2. CASE a[d] < b[d]
    <3>1. BelowAt(a, b, d)
      BY <1>1, <1>5, <1>6, <1>7, <1>11, <2>2 DEF BelowAt
    <3>2. QED
      BY <1>5, <3>1, LessAt
  <2>3. CASE b[d] < a[d]
    <3>1. BelowAt(b, a, d)
      BY <1>1, <1>5, <1>6, <1>7, <1>11, <2>3 DEF BelowAt
    <3>2. QED
      BY <1>5, <3>1, LessAt
  <2>4. QED
    BY <2>1, <2>2, <2>3
<1>12. QED
  BY <1>5, <1>8, <1>9, <1>10, <1>11

\* The order between keys, as the range map uses it.
LEMMA AtMostLess ==
  ASSUME NEW a \in Seq(Byte), NEW b \in Seq(Byte), NEW c \in Seq(Byte)
  PROVE  /\ AtMost(a, b) /\ Less(b, c) => Less(a, c)
         /\ AtMost(a, b) /\ AtMost(b, c) => AtMost(a, c)
         /\ ~AtMost(a, b) <=> Less(b, a)
         /\ ~(Less(a, b) /\ Less(b, a))
<1>1. ~(Less(a, b) /\ Less(b, a))
  BY LessIrreflexive, LessTransitive
<1>2. AtMost(a, b) /\ Less(b, c) => Less(a, c)
  BY LessTransitive DEF AtMost
<1>3. AtMost(a, b) /\ AtMost(b, c) => AtMost(a, c)
  BY LessTransitive DEF AtMost
<1>4. ~AtMost(a, b) <=> Less(b, a)
  BY <1>1, LessTotal, LessIrreflexive DEF AtMost
<1>5. QED
  BY <1>1, <1>2, <1>3, <1>4

-----------------------------------------------------------------------------
(* The range map *)

Ranges == [id : Nat, start : Points, end : Points \cup {Open}]

\* The map is sorted by start, and ranges with one start by their insertion.
Follows(r, s) == Less(r.start, s.start) \/ (r.start = s.start /\ r.id < s.id)

SortedMap(map) ==
  /\ map \in Seq(Ranges)
  /\ \A i \in 1..Len(map) : map[i].id <= Len(map)
  /\ \A i, j \in 1..Len(map) : i < j => Follows(map[i], map[j])

\* What is known of a range of the map.
LEMMA RangeFacts ==
  ASSUME NEW map \in Seq(Ranges), NEW i \in 1..Len(map)
  PROVE  /\ map[i] \in Ranges /\ map[i].id \in Nat
         /\ map[i].start \in Points /\ map[i].start \in Seq(Byte)
         /\ map[i].end # Open => map[i].end \in Seq(Byte)
<1>1. map[i] \in Ranges
  BY ElementOfSeq
<1>2. QED
  BY <1>1, PlacementAssumption DEF Ranges

\* There are c numbers from 1 to c.
LEMMA SizeOfFront ==
  ASSUME NEW c \in Nat
  PROVE  Cardinality(1..c) = c
<1>1. Cardinality(1..c) = IF 1 > c THEN 0 ELSE c - 1 + 1
  BY FS_Interval
<1>2. QED
  BY <1>1

\* partition_point: the ranges that start at or before a key are the first ones.
LEMMA PartitionFacts ==
  ASSUME NEW map, SortedMap(map), NEW key \in Seq(Byte)
  PROVE  /\ PartitionPoint(map, key) \in 0..Len(map)
         /\ \A i \in 1..Len(map) : AtMost(map[i].start, key) <=> i <= PartitionPoint(map, key)
<1>1. map \in Seq(Ranges)
  BY DEF SortedMap
<1>2. PICK n \in Nat : n = Len(map) /\ DOMAIN map = 1..n
  BY <1>1, LenProperties
<1> DEFINE S == {i \in DOMAIN map : AtMost(map[i].start, key)}
<1>3. ASSUME NEW i \in 1..n, NEW j \in 1..n, i < j, AtMost(map[j].start, key)
      PROVE  AtMost(map[i].start, key)
  <2>1. map[i].start \in Seq(Byte) /\ map[j].start \in Seq(Byte)
    BY <1>1, <1>2, RangeFacts
  <2>2. AtMost(map[i].start, map[j].start)
    BY <1>2, <1>3 DEF SortedMap, Follows, AtMost
  <2>3. QED
    BY <1>3, <2>1, <2>2, AtMostLess
<1>4. PICK c \in 0..n : S = 1..c
  <2>1. CASE S = {}
    <3>1. S = 1..0 /\ 0 \in 0..n
      BY <2>1
    <3>2. QED
      BY <3>1
  <2>2. CASE S # {}
    <3>1. S \in SUBSET (1..n)
      BY <1>2
    <3>2. PICK m \in S : \A i \in S : i <= m
      <4> HIDE DEF S
      <4> QED BY <2>2, <3>1, LastPosition
    <3>3. m \in 1..n /\ AtMost(map[m].start, key)
      BY <1>2
    <3>4. ASSUME NEW i \in 1..m
          PROVE  i \in S
      <4>1. i \in 1..n
        BY <3>3
      <4>2. AtMost(map[i].start, key)
        BY <1>3, <3>3, <4>1
      <4>3. QED
        BY <1>2, <4>1, <4>2
    <3>5. \A i \in S : i \in 1..m
      BY <3>1, <3>2
    <3>6. S = 1..m
      <4> HIDE DEF S
      <4> QED BY <3>4, <3>5
    <3>7. m \in 0..n
      BY <3>3
    <3> HIDE DEF S
    <3>8. QED
      BY <3>6, <3>7
  <2>3. QED
    BY <2>1, <2>2
<1>5. PartitionPoint(map, key) = c
  <2>1. Cardinality(1..c) = c
    <3>1. c \in Nat
      OBVIOUS
    <3>2. QED
      BY <3>1, SizeOfFront
  <2>2. PartitionPoint(map, key) = Cardinality(S)
    BY DEF PartitionPoint
  <2>3. QED
    BY <1>4, <2>1, <2>2
<1>6. ASSUME NEW i \in 1..n
      PROVE  AtMost(map[i].start, key) <=> i <= c
  <2>1. AtMost(map[i].start, key) <=> i \in S
    BY <1>2
  <2>2. i \in S <=> i \in 1..c
    BY <1>4, Zenon
  <2>3. i \in 1..c <=> i <= c
    OBVIOUS
  <2>4. QED
    BY <2>1, <2>2, <2>3
<1>7. QED
  BY <1>2, <1>5, <1>6

\* The entries in front of the new one stay, those behind it move by one.
Inserted(new, map, c, e) ==
  /\ Len(new) = Len(map) + 1
  /\ \A i \in 1..c : new[i] = map[i]
  /\ new[c + 1] = e
  /\ \A i \in c + 1..Len(map) : new[i + 1] = map[i]

\* Vec::insert does that.
LEMMA InsertAtFacts ==
  ASSUME NEW R, NEW map \in Seq(R), NEW e \in R, NEW c \in 0..Len(map), NEW new,
         new = InsertAt(map, c + 1, e)
  PROVE  new \in Seq(R) /\ Inserted(new, map, c, e)
<1>1. PICK n \in Nat : n = Len(map)
  BY LenProperties
<1>2. PICK k \in Nat : k = c /\ k <= n
  BY <1>1
<1>3. \A i \in 1..n : map[i] \in R
  BY <1>1, ElementOfSeq
<1>4. PICK front, back : front = SubSeq(map, 1, k) /\ back = SubSeq(map, k + 1, n)
  OBVIOUS
<1>5. front \in Seq(R) /\ Len(front) = k /\ \A i \in 1..k : front[i] = map[i]
  <2>1. \A i \in 1..k : map[i] \in R
    BY <1>2, <1>3
  <2>2. /\ front \in Seq(R)
        /\ Len(front) = IF 1 <= k THEN k - 1 + 1 ELSE 0
        /\ \A i \in 1..k - 1 + 1 : front[i] = map[1 + i - 1]
    BY <1>4, <2>1, SubSeqProperties
  <2>3. QED
    BY <2>2
<1>6. back \in Seq(R) /\ Len(back) = n - k /\ \A i \in 1..n - k : back[i] = map[k + i]
  <2>1. \A i \in k + 1..n : map[i] \in R
    BY <1>2, <1>3
  <2>2. /\ back \in Seq(R)
        /\ Len(back) = IF k + 1 <= n THEN n - (k + 1) + 1 ELSE 0
        /\ \A i \in 1..n - (k + 1) + 1 : back[i] = map[k + 1 + i - 1]
    BY <1>4, <2>1, SubSeqProperties
  <2>3. /\ n - (k + 1) + 1 = n - k /\ ~(k + 1 <= n) => n - k = 0
        /\ \A i \in 1..n - k : k + 1 + i - 1 = k + i
    BY <1>2
  <2>4. QED
    BY <1>2, <2>2, <2>3
<1>7. PICK w : w = front \o <<e>>
  OBVIOUS
<1>8. w \in Seq(R) /\ Len(w) = k + 1 /\ w[k + 1] = e /\ \A i \in 1..k : w[i] = map[i]
  <2>1. <<e>> \in Seq(R) /\ Len(<<e>>) = 1 /\ <<e>>[1] = e
    OBVIOUS
  <2>2. /\ w \in Seq(R) /\ Len(w) = k + 1
        /\ \A i \in 1..k + 1 : w[i] = IF i <= k THEN front[i] ELSE <<e>>[i - k]
    BY <1>5, <1>7, <2>1, ConcatProperties
  <2>3. k + 1 \in 1..k + 1 /\ ~(k + 1 <= k) /\ k + 1 - k = 1
    OBVIOUS
  <2>4. w[k + 1] = e
    BY <2>1, <2>2, <2>3
  <2>5. QED
    BY <1>5, <2>2, <2>4
<1>9. new = w \o back
  <2>1. new = SubSeq(map, 1, (c + 1) - 1) \o <<e>> \o SubSeq(map, c + 1, Len(map))
    BY Zenon DEF InsertAt
  <2>2. (c + 1) - 1 = k /\ c + 1 = k + 1 /\ Len(map) = n
    BY <1>1, <1>2
  <2>3. QED
    BY <1>4, <1>7, <2>1, <2>2, Zenon
<1>10. /\ new \in Seq(R) /\ Len(new) = n + 1
       /\ \A i \in 1..n + 1 : new[i] = IF i <= k + 1 THEN w[i] ELSE back[i - (k + 1)]
  <2>1. /\ new \in Seq(R) /\ Len(new) = Len(w) + Len(back)
        /\ \A i \in 1..Len(w) + Len(back) :
             new[i] = IF i <= Len(w) THEN w[i] ELSE back[i - Len(w)]
    <3>1. w \in Seq(R) /\ back \in Seq(R)
      BY <1>6, <1>8
    <3>2. QED
      BY <1>9, <3>1, ConcatProperties, Zenon
  <2>2. Len(w) = k + 1 /\ Len(back) = n - k /\ k + 1 + (n - k) = n + 1
    BY <1>6, <1>8
  <2>3. QED
    BY <2>1, <2>2
<1>11. \A i \in 1..k : new[i] = map[i]
  BY <1>2, <1>8, <1>10
<1>12. new[k + 1] = e
  BY <1>2, <1>8, <1>10
<1>13. ASSUME NEW i \in k + 1..n
       PROVE  new[i + 1] = map[i]
  <2>1. i + 1 \in 1..n + 1 /\ ~(i + 1 <= k + 1) /\ i + 1 - (k + 1) = i - k
    OBVIOUS
  <2>2. i - k \in 1..n - k /\ k + (i - k) = i
    OBVIOUS
  <2>3. new[i + 1] = back[i - k]
    BY <1>10, <2>1
  <2>4. QED
    BY <1>6, <2>2, <2>3
<1>14. QED
  BY <1>1, <1>2, <1>10, <1>11, <1>12, <1>13 DEF Inserted

\* insert keeps the map sorted.
LEMMA InsertSorted ==
  ASSUME NEW map, SortedMap(map), NEW e \in Ranges, e.id = Len(map) + 1
  PROVE  SortedMap(Insert(map, e))
<1>1. map \in Seq(Ranges)
  BY DEF SortedMap
<1>2. PICK n \in Nat : n = Len(map)
  BY <1>1, LenProperties
<1>3. e.start \in Seq(Byte) /\ e.id = n + 1
  BY <1>2, PlacementAssumption DEF Ranges
<1>4. PICK c \in Nat : /\ c = PartitionPoint(map, e.start) /\ c <= n
                       /\ \A i \in 1..n : AtMost(map[i].start, e.start) <=> i <= c
  BY <1>2, <1>3, PartitionFacts
<1>5. PICK new : new = Insert(map, e)
  OBVIOUS
<1>6. /\ new \in Seq(Ranges) /\ Len(new) = n + 1
      /\ \A i \in 1..c : new[i] = map[i]
      /\ new[c + 1] = e
      /\ \A i \in c + 1..n : new[i + 1] = map[i]
  <2>1. c \in 0..Len(map) /\ new = InsertAt(map, c + 1, e)
    BY <1>2, <1>4, <1>5 DEF Insert
  <2>2. QED
    <3>1. new \in Seq(Ranges) /\ Inserted(new, map, c, e)
      BY <1>1, <2>1, InsertAtFacts
    <3>2. QED
      BY <1>2, <3>1 DEF Inserted
<1>7. ASSUME NEW i \in 1..n + 1
      PROVE  \/ i <= c /\ i \in 1..n /\ new[i] = map[i]
             \/ i = c + 1 /\ new[i] = e
             \/ i > c + 1 /\ i - 1 \in 1..n /\ new[i] = map[i - 1]
  <2>1. CASE i <= c
    BY <1>4, <1>6, <2>1
  <2>2. CASE i = c + 1
    BY <1>6, <2>2
  <2>3. CASE i > c + 1
    <3>1. i - 1 \in c + 1..n /\ i - 1 + 1 = i /\ i - 1 \in 1..n
      BY <2>3
    <3>2. QED
      BY <1>6, <2>3, <3>1
  <2>4. QED
    BY <2>1, <2>2, <2>3
<1>8. ASSUME NEW i \in 1..n
      PROVE  /\ map[i].id \in Nat /\ map[i].id <= n
             /\ i <= c => Follows(map[i], e)
             /\ i > c => Follows(e, map[i])
  <2>1. map[i].id \in Nat /\ map[i].id <= n /\ map[i].start \in Seq(Byte)
    BY <1>1, <1>2, RangeFacts DEF SortedMap
  <2>2. i <= c => Follows(map[i], e)
    BY <1>3, <1>4, <2>1 DEF Follows, AtMost
  <2>3. i > c => Less(e.start, map[i].start)
    <3>1. i > c => ~AtMost(map[i].start, e.start)
      BY <1>4
    <3>2. QED
      BY <1>3, <2>1, <3>1, AtMostLess
  <2>4. QED
    BY <2>1, <2>2, <2>3 DEF Follows
<1>9. ASSUME NEW i \in 1..n + 1
      PROVE  new[i].id <= n + 1
  <2>1. CASE i <= c /\ i \in 1..n /\ new[i] = map[i]
    <3>1. new[i].id \in Nat /\ new[i].id <= n
      BY <1>8, <2>1
    <3>2. QED
      BY <3>1
  <2>2. CASE i = c + 1 /\ new[i] = e
    BY <1>3, <2>2
  <2>3. CASE i > c + 1 /\ i - 1 \in 1..n /\ new[i] = map[i - 1]
    <3>1. new[i].id \in Nat /\ new[i].id <= n
      BY <1>8, <2>3
    <3>2. QED
      BY <3>1
  <2>4. QED
    BY <1>7, <2>1, <2>2, <2>3
<1>10. ASSUME NEW i \in 1..n + 1, NEW j \in 1..n + 1, i < j
       PROVE  Follows(new[i], new[j])
  <2>1. \A p, q \in 1..n : p < q => Follows(map[p], map[q])
    BY <1>2 DEF SortedMap
  <2>2. CASE i <= c /\ j <= c
    BY <1>6, <1>7, <1>10, <2>1, <2>2
  <2>3. CASE i <= c /\ j = c + 1
    BY <1>4, <1>6, <1>7, <1>8, <2>3
  <2>4. CASE i <= c /\ j > c + 1
    <3>1. i \in 1..n /\ j - 1 \in 1..n /\ i < j - 1
      BY <1>4, <2>4
    <3>2. new[i] = map[i] /\ new[j] = map[j - 1]
      BY <1>7, <2>4
    <3>3. QED
      BY <2>1, <3>1, <3>2
  <2>5. CASE i = c + 1
    <3>1. j - 1 \in 1..n /\ j - 1 > c /\ j > c + 1
      BY <1>10, <2>5
    <3>2. new[i] = e /\ new[j] = map[j - 1]
      BY <1>7, <2>5, <3>1
    <3>3. QED
      BY <1>8, <3>1, <3>2
  <2>6. CASE i > c + 1
    <3>1. i - 1 \in 1..n /\ j - 1 \in 1..n /\ i - 1 < j - 1 /\ j > c + 1
      BY <1>10, <2>6
    <3>2. new[i] = map[i - 1] /\ new[j] = map[j - 1]
      BY <1>7, <2>6, <3>1
    <3>3. QED
      BY <2>1, <3>1, <3>2
  <2>7. QED
    BY <1>10, <2>2, <2>3, <2>4, <2>5, <2>6
<1>11. SortedMap(new)
  BY <1>6, <1>9, <1>10 DEF SortedMap
<1>12. QED
  BY <1>5, <1>11

\* The parts of LookupExact, for a map and a key.
AllOf(map) == {map[i] : i \in DOMAIN map}
HoldingIn(map, key) == {r \in AllOf(map) : RangeContains(r, key)}
BeforeIn(map, key) == {r \in AllOf(map) : AtMost(r.start, key)}
NewestIn(map, key) ==
  {r \in BeforeIn(map, key) : \A o \in BeforeIn(map, key) \ {r} :
     Less(o.start, r.start) \/ (o.start = r.start /\ o.id < r.id)}

\* The range in front of the partition point is the newest of those that start
\* last at or before the key.
LEMMA NewestIsLast ==
  ASSUME NEW map, SortedMap(map), NEW key \in Seq(Byte), NEW c \in Nat,
         c = PartitionPoint(map, key)
  PROVE  NewestIn(map, key) = IF c = 0 THEN {} ELSE {map[c]}
<1>1. map \in Seq(Ranges)
  BY DEF SortedMap
<1>2. PICK n \in Nat : n = Len(map) /\ DOMAIN map = 1..n
  BY <1>1, LenProperties
<1>3. c <= n /\ \A i \in 1..n : AtMost(map[i].start, key) <=> i <= c
  BY <1>2, PartitionFacts
<1>4. \A i, j \in 1..n : i < j => Follows(map[i], map[j])
  BY <1>2 DEF SortedMap
<1>5. ASSUME NEW r
      PROVE  r \in BeforeIn(map, key) <=> \E i \in 1..c : r = map[i]
  <2>1. r \in BeforeIn(map, key) <=> \E i \in 1..n : r = map[i] /\ AtMost(map[i].start, key)
    BY <1>2 DEF BeforeIn, AllOf
  <2>2. \A i \in 1..n : AtMost(map[i].start, key) <=> i \in 1..c
    BY <1>3
  <2>3. \A i \in 1..c : i \in 1..n
    BY <1>3
  <2>4. QED
    BY <2>1, <2>2, <2>3
<1>6. CASE c = 0
  <2>1. 1..c = {}
    BY <1>6
  <2>2. BeforeIn(map, key) = {}
    BY <1>5, <2>1
  <2>3. QED
    BY <1>6, <2>2 DEF NewestIn
<1>7. CASE c # 0
  <2>1. c \in 1..c /\ c \in 1..n /\ map[c] \in BeforeIn(map, key)
    BY <1>3, <1>5, <1>7
  <2>2. ASSUME NEW o \in BeforeIn(map, key) \ {map[c]}
        PROVE  /\ Less(o.start, map[c].start) \/ (o.start = map[c].start /\ o.id < map[c].id)
               /\ o \notin NewestIn(map, key)
    <3>1. PICK i \in 1..c : o = map[i]
      BY <1>5
    <3>2. i \in 1..n /\ i < c
      BY <1>3, <2>2, <3>1
    <3>3. Follows(o, map[c])
      BY <1>4, <2>1, <3>1, <3>2
    <3>4. /\ o.start \in Seq(Byte) /\ o.id \in Nat
          /\ map[c].start \in Seq(Byte) /\ map[c].id \in Nat
      BY <1>1, <1>2, <2>1, <3>1, <3>2, RangeFacts
    <3>5. ~(Less(map[c].start, o.start) \/ (map[c].start = o.start /\ map[c].id < o.id))
      <4>1. CASE Less(o.start, map[c].start)
        BY <3>4, <4>1, AtMostLess, LessIrreflexive
      <4>2. CASE o.start = map[c].start /\ o.id < map[c].id
        <5>1. ~Less(map[c].start, o.start)
          BY <3>4, <4>2, LessIrreflexive
        <5>2. ~(map[c].id < o.id)
          BY <3>4, <4>2
        <5>3. QED
          BY <5>1, <5>2
      <4>3. QED
        BY <3>3, <4>1, <4>2 DEF Follows
    <3>6. map[c] \in BeforeIn(map, key) \ {o}
      BY <2>1, <2>2
    <3>7. QED
      BY <3>3, <3>5, <3>6 DEF Follows, NewestIn
  <2>3. map[c] \in NewestIn(map, key)
    BY <2>1, <2>2 DEF NewestIn
  <2>4. \A o \in NewestIn(map, key) : o = map[c]
    <3>1. \A o \in NewestIn(map, key) : o \in BeforeIn(map, key)
      BY DEF NewestIn
    <3>2. QED
      BY <2>2, <3>1
  <2>5. QED
    BY <1>7, <2>3, <2>4
<1>8. QED
  BY <1>6, <1>7

\* A set with at most one element has no two.
LEMMA AtMostOne ==
  ASSUME NEW S, IsFiniteSet(S), Cardinality(S) <= 1, NEW x \in S, NEW y \in S
  PROVE  x = y
<1>1. SUFFICES ASSUME x # y
               PROVE  FALSE
  OBVIOUS
<1>2. PICK T : T = S \ {x}
  OBVIOUS
<1>3. IsFiniteSet(T) /\ Cardinality(T) = Cardinality(S) - 1
  BY <1>2, FS_RemoveElement
<1>4. Cardinality(T) \in Nat /\ Cardinality(S) \in Nat
  BY <1>3, FS_CardinalityType
<1>5. Cardinality(T) = 0
  BY <1>3, <1>4
<1>6. T = {}
  BY <1>3, <1>5, FS_EmptySet
<1>7. QED
  BY <1>1, <1>2, <1>6

\* The ranges of a map are finitely many.
LEMMA AllFinite ==
  ASSUME NEW map \in Seq(Ranges)
  PROVE  IsFiniteSet(AllOf(map))
<1>1. Len(map) \in Nat /\ map \in [1..Len(map) -> Ranges] /\ DOMAIN map = 1..Len(map)
  BY LenProperties
<1>2. IsFiniteSet(1..Len(map))
  BY <1>1, FS_Interval
<1>3. IsFiniteSet(Range(map))
  <2>1. PICK S : S = 1..Len(map) /\ IsFiniteSet(S) /\ map \in [S -> Ranges]
    BY <1>1, <1>2
  <2>2. QED
    <3>1. map \in Surjection(S, Range(map))
      BY <2>1 DEF Surjection, Range
    <3>2. QED
      BY <2>1, <3>1, FS_Surjection
<1>4. AllOf(map) = Range(map)
  BY DEF AllOf, Range
<1>5. QED
  BY <1>3, <1>4

\* Two ranges that hold one key hold the start of the later one.
LEMMA LookupOfSorted ==
  ASSUME NEW map, SortedMap(map), NEW key \in Points
  PROVE  /\ Lookup(map, key) = NewestIn(map, key) \cap HoldingIn(map, key)
         /\ /\ \A r \in AllOf(map) : RangeContains(r, r.start)
            /\ \A k \in Points : Cardinality(HoldingIn(map, k)) <= 1
            => Lookup(map, key) = HoldingIn(map, key)
<1>1. map \in Seq(Ranges) /\ key \in Seq(Byte)
  BY PlacementAssumption DEF SortedMap
<1>2. PICK n \in Nat : n = Len(map) /\ DOMAIN map = 1..n
  BY <1>1, LenProperties
<1>3. PICK c \in Nat : /\ c = PartitionPoint(map, key) /\ c <= n
                       /\ \A i \in 1..n : AtMost(map[i].start, key) <=> i <= c
  BY <1>1, <1>2, PartitionFacts
<1>4. Lookup(map, key) = IF c = 0 THEN {} ELSE {e \in {map[c]} : RangeContains(e, key)}
  BY <1>3 DEF Lookup
<1>5. NewestIn(map, key) = IF c = 0 THEN {} ELSE {map[c]}
  BY <1>1, <1>3, NewestIsLast
<1>6. c # 0 => c \in 1..n /\ map[c] \in AllOf(map)
  BY <1>2, <1>3 DEF AllOf
<1>7. Lookup(map, key) = NewestIn(map, key) \cap HoldingIn(map, key)
  BY <1>4, <1>5, <1>6 DEF HoldingIn
<1>8. ASSUME \A r \in AllOf(map) : RangeContains(r, r.start),
             \A k \in Points : Cardinality(HoldingIn(map, k)) <= 1,
             NEW r \in HoldingIn(map, key)
      PROVE  c # 0 /\ r = map[c]
  <2>1. PICK i \in 1..n : r = map[i]
    BY <1>2 DEF HoldingIn, AllOf
  <2>2. AtMost(r.start, key) /\ (r.end # Open => Less(key, r.end))
    BY <1>8 DEF HoldingIn, RangeContains
  <2>3. i <= c
    BY <1>3, <2>1, <2>2
  <2>4. c # 0 /\ c \in 1..n /\ map[c] \in AllOf(map)
    BY <1>6, <2>3
  <2>5. PICK e : e = map[c]
    OBVIOUS
  <2>6. /\ r.start \in Seq(Byte) /\ (r.end # Open => r.end \in Seq(Byte))
        /\ e.start \in Seq(Byte) /\ e.start \in Points
    BY <1>1, <1>2, <2>1, <2>4, <2>5, RangeFacts
  <2>7. AtMost(r.start, e.start)
    <3>1. i < c => Follows(r, e)
      BY <1>2, <2>1, <2>4, <2>5 DEF SortedMap
    <3>2. i = c => r = e
      BY <2>1, <2>5
    <3>3. QED
      BY <2>3, <3>1, <3>2 DEF Follows, AtMost
  <2>8. AtMost(e.start, key)
    BY <1>3, <2>4, <2>5
  <2>9. RangeContains(r, e.start)
    <3>1. r.end # Open => Less(e.start, r.end)
      BY <1>1, <2>2, <2>6, <2>8, AtMostLess
    <3>2. QED
      BY <2>7, <3>1 DEF RangeContains
  <2>10. PICK k \in Points : k = e.start
    BY <2>6
  <2>11. r \in HoldingIn(map, k) /\ e \in HoldingIn(map, k)
    BY <1>8, <2>4, <2>5, <2>9, <2>10 DEF HoldingIn
  <2>12. IsFiniteSet(HoldingIn(map, k))
    <3>1. HoldingIn(map, k) \subseteq AllOf(map)
      BY DEF HoldingIn
    <3>2. QED
      BY <1>1, <3>1, AllFinite, FS_Subset
  <2>13. r = e
    BY <1>8, <2>11, <2>12, AtMostOne
  <2>14. QED
    BY <2>4, <2>5, <2>13
<1>9. ASSUME \A r \in AllOf(map) : RangeContains(r, r.start),
             \A k \in Points : Cardinality(HoldingIn(map, k)) <= 1
      PROVE  Lookup(map, key) = HoldingIn(map, key)
  <2>1. \A r \in HoldingIn(map, key) : r \in NewestIn(map, key)
    BY <1>5, <1>8, <1>9
  <2>2. QED
    BY <1>7, <2>1
<1>10. QED
  BY <1>7, <1>9

\* placement.rs: the map stays sorted, whatever ranges are inserted.
LEMMA MapSorted == PlacementSpec => []SortedMap(ranges)
<1>1. PlacementInit => SortedMap(ranges)
  BY EmptySeq DEF PlacementInit, SortedMap
<1>2. SortedMap(ranges) /\ [PlacementNext]_placementVars => SortedMap(ranges)'
  <2>1. SUFFICES ASSUME SortedMap(ranges), [PlacementNext]_placementVars
                 PROVE  SortedMap(ranges')
    BY DEF SortedMap
  <2>2. CASE ranges' = ranges
    BY <2>1, <2>2
  <2>3. CASE \E start \in Points, end \in Points \cup {Open} : InsertRange(start, end)
    <3>1. PICK start \in Points, end \in Points \cup {Open} : InsertRange(start, end)
      BY <2>3
    <3>2. PICK map : map = ranges
      OBVIOUS
    <3>3. SortedMap(map) /\ map \in Seq(Ranges) /\ Len(map) \in Nat
      BY <2>1, <3>2, LenProperties DEF SortedMap
    <3>4. PICK e : e = [id |-> Len(map) + 1, start |-> start, end |-> end]
      OBVIOUS
    <3>5. e \in Ranges /\ e.id = Len(map) + 1
      BY <3>3, <3>4 DEF Ranges
    <3>6. SortedMap(Insert(map, e))
      BY <3>3, <3>5, InsertSorted
    <3>7. ranges' = Insert(map, e)
      BY <3>1, <3>2, <3>4 DEF InsertRange
    <3>8. QED
      BY <3>6, <3>7
  <2>4. CASE \E node \in NodeIds, hash \in Scores : Join(node, hash)
    BY <2>2, <2>4 DEF Join
  <2>5. CASE UNCHANGED placementVars
    BY <2>2, <2>5 DEF placementVars
  <2>6. QED
    BY <2>1, <2>3, <2>4, <2>5 DEF PlacementNext
<1>3. QED
  BY <1>1, <1>2, PTL DEF PlacementSpec

\* placement.rs, lookup: for any ranges in any order of insertion, overlapping
\* ones included, a lookup answers with the newest of the ranges that start
\* last at or before the key, if it holds the key; and if no two ranges hold
\* one key, with the range that holds it.
THEOREM LookupExactAlways == PlacementSpec => []LookupExact
<1>1. ASSUME SortedMap(ranges), NEW key \in Points
      PROVE  /\ Lookup(ranges, key) = NewestIn(ranges, key) \cap HoldingIn(ranges, key)
             /\ /\ \A r \in AllOf(ranges) : RangeContains(r, r.start)
                /\ \A k \in Points : Cardinality(HoldingIn(ranges, k)) <= 1
                => Lookup(ranges, key) = HoldingIn(ranges, key)
  <2>1. PICK map : map = ranges
    OBVIOUS
  <2>2. SortedMap(map)
    BY <1>1, <2>1
  <2>3. QED
    BY <2>1, <2>2, LookupOfSorted, Zenon
<1>2. SortedMap(ranges) => LookupExact
  BY <1>1, Zenon DEF LookupExact, AllOf, HoldingIn, BeforeIn, NewestIn
<1>3. QED
  BY <1>2, MapSorted, PTL

-----------------------------------------------------------------------------
(* Rendezvous hashing *)

\* hrw_select, with the scores as a parameter.
Rankings(S, sc) == {t \in SetToSeqs(S) : \A i, j \in DOMAIN t : i < j => sc[t[i]] >= sc[t[j]]}
Selections(S, sc, n) == {SubSeq(s, 1, Min({n, Len(s)})) : s \in Rankings(S, sc)}
NodesOf(selection) == {selection[i] : i \in DOMAIN selection}

\* A ranking lists every node once, by falling score.
IsRanking(t, S, sc, c) ==
  /\ t \in [1..c -> S]
  /\ \A i, j \in 1..c : i # j => t[i] # t[j]
  /\ \A i, j \in 1..c : i < j => sc[t[i]] >= sc[t[j]]

\* The rankings are the sequences with these properties.
LEMMA RankingFacts ==
  ASSUME NEW S, IsFiniteSet(S), NEW sc, NEW t
  PROVE  t \in Rankings(S, sc) <=> IsRanking(t, S, sc, Cardinality(S))
<1>1. t \in SetToSeqs(S) <=> /\ t \in [1..Cardinality(S) -> S]
                             /\ \A i, j \in 1..Cardinality(S) : i # j => t[i] # t[j]
  BY DEF SetToSeqs
<1>2. t \in [1..Cardinality(S) -> S] => DOMAIN t = 1..Cardinality(S)
  OBVIOUS
<1>3. QED
  BY <1>1, <1>2, Zenon DEF Rankings, IsRanking

\* No node is missing from a ranking.
LEMMA RankingComplete ==
  ASSUME NEW S, IsFiniteSet(S), NEW sc, NEW c \in Nat, c = Cardinality(S), NEW t,
         IsRanking(t, S, sc, c), NEW x \in S
  PROVE  \E i \in 1..c : t[i] = x
<1>1. PICK D : D = 1..c
  OBVIOUS
<1>2. Cardinality(D) = c
  BY <1>1, SizeOfFront
<1>3. t \in Injection(D, S)
  BY <1>1 DEF IsRanking, Injection, IsInjective
<1>4. t \in Surjection(D, S)
  BY <1>2, <1>3, FS_Injection
<1>5. QED
  BY <1>1, <1>4 DEF Surjection

\* The smaller of two numbers.
LEMMA MinOfTwo ==
  ASSUME NEW a \in Nat, NEW b \in Nat
  PROVE  Min({a, b}) = IF a <= b THEN a ELSE b
<1>1. CASE a <= b
  <2>1. a \in {a, b} /\ \A y \in {a, b} : a =< y
    BY <1>1
  <2>2. \A x \in {a, b} : (\A y \in {a, b} : x =< y) => x = a
    BY <1>1
  <2>3. QED
    BY <1>1, <2>1, <2>2 DEF Min
<1>2. CASE ~(a <= b)
  <2>1. b \in {a, b} /\ \A y \in {a, b} : b =< y
    BY <1>2
  <2>2. \A x \in {a, b} : (\A y \in {a, b} : x =< y) => x = b
    BY <1>2
  <2>3. QED
    BY <1>2, <2>1, <2>2 DEF Min
<1>3. QED
  BY <1>1, <1>2

\* A selection is the front part of a ranking.
IsSelection(s, S, t, k) ==
  /\ s \in Seq(S) /\ Len(s) = k
  /\ \A i \in 1..k : s[i] = t[i]
  /\ \A x : x \in NodesOf(s) <=> \E i \in 1..k : x = t[i]

\* truncate keeps the first k of a ranking.
LEMMA FrontOfRanking ==
  ASSUME NEW S, NEW c \in Nat, NEW t \in [1..c -> S], NEW k \in Nat, k <= c, NEW s,
         s = SubSeq(t, 1, k)
  PROVE  IsSelection(s, S, t, k)
<1>1. \A i \in 1..k : t[i] \in S
  OBVIOUS
<1>2. /\ s \in Seq(S)
      /\ Len(s) = IF 1 <= k THEN k - 1 + 1 ELSE 0
      /\ \A i \in 1..k - 1 + 1 : s[i] = t[1 + i - 1]
  BY <1>1, SubSeqProperties
<1>3. s \in Seq(S) /\ Len(s) = k /\ \A i \in 1..k : s[i] = t[i]
  BY <1>2
<1>4. DOMAIN s = 1..k
  BY <1>3, LenProperties
<1>5. ASSUME NEW x
      PROVE  x \in NodesOf(s) <=> \E i \in 1..k : x = t[i]
  <2>1. x \in NodesOf(s) <=> \E i \in 1..k : x = s[i]
    BY <1>4 DEF NodesOf
  <2>2. QED
    BY <1>3, <2>1
<1>6. QED
  BY <1>3, <1>5 DEF IsSelection

\* The selections of n nodes.
LEMMA SelectionFacts ==
  ASSUME NEW S, IsFiniteSet(S), NEW sc, NEW n \in Nat, NEW c \in Nat, c = Cardinality(S),
         NEW k \in Nat, k = IF n <= c THEN n ELSE c, NEW s
  PROVE  s \in Selections(S, sc, n)
           <=> \E t : IsRanking(t, S, sc, c) /\ s = SubSeq(t, 1, k)
<1>1. ASSUME NEW t, IsRanking(t, S, sc, c)
      PROVE  Min({n, Len(t)}) = k
  <2>1. t \in [1..c -> S]
    BY <1>1 DEF IsRanking
  <2>2. Len(t) = c
    BY <2>1
  <2>3. Min({n, c}) = k
    BY MinOfTwo
  <2>4. QED
    BY <2>2, <2>3
<1>2. \A t : t \in Rankings(S, sc) <=> IsRanking(t, S, sc, c)
  BY RankingFacts
<1>3. s \in Selections(S, sc, n)
        <=> \E t \in Rankings(S, sc) : s = SubSeq(t, 1, Min({n, Len(t)}))
  BY Zenon DEF Selections
<1>4. QED
  BY <1>1, <1>2, <1>3, Zenon

\* A selection is the front part of some ranking.
LEMMA SelectionOf ==
  ASSUME NEW S, IsFiniteSet(S), NEW sc, NEW n \in Nat, NEW c \in Nat, c = Cardinality(S),
         NEW k \in Nat, k = IF n <= c THEN n ELSE c, NEW s \in Selections(S, sc, n)
  PROVE  \E t : IsRanking(t, S, sc, c) /\ IsSelection(s, S, t, k)
<1>1. s \in Selections(S, sc, n) <=> \E t : IsRanking(t, S, sc, c) /\ s = SubSeq(t, 1, k)
  BY SelectionFacts
<1>2. PICK t : IsRanking(t, S, sc, c) /\ s = SubSeq(t, 1, k)
  BY <1>1, Zenon
<1>3. k <= c
  OBVIOUS
<1>4. IsSelection(s, S, t, k)
  BY <1>2, <1>3, FrontOfRanking DEF IsRanking
<1>5. QED
  BY <1>2, <1>4

\* It has as many nodes as were asked for, or all there are.
LEMMA SelectionSize ==
  ASSUME NEW S, IsFiniteSet(S), NEW sc, NEW n \in Nat, NEW c \in Nat, c = Cardinality(S),
         NEW k \in Nat, k = IF n <= c THEN n ELSE c, NEW s \in Selections(S, sc, n)
  PROVE  /\ NodesOf(s) \subseteq S /\ IsFiniteSet(NodesOf(s))
         /\ Cardinality(NodesOf(s)) = k
<1>1. PICK t : IsRanking(t, S, sc, c) /\ IsSelection(s, S, t, k)
  BY SelectionOf
<1>2. PICK D : D = 1..k
  OBVIOUS
<1>3. Cardinality(D) = k /\ IsFiniteSet(D)
  <2>1. k \in Int /\ 1 \in Int
    OBVIOUS
  <2>2. IsFiniteSet(1..k)
    BY <2>1, FS_Interval
  <2>3. QED
    BY <1>2, <2>2, SizeOfFront
<1>4. PICK f : f = [i \in D |-> t[i]]
  OBVIOUS
<1>5. \A i \in D : i \in 1..c
  BY <1>2
<1>6. /\ \A i \in D : t[i] \in S
      /\ \A i, j \in D : i # j => t[i] # t[j]
  BY <1>1, <1>5 DEF IsRanking
<1>7. \A y : y \in NodesOf(s) <=> \E i \in D : y = t[i]
  BY <1>1, <1>2 DEF IsSelection
<1>8. f \in Surjection(D, NodesOf(s))
  BY <1>4, <1>7 DEF Surjection
<1>9. f \in Injection(D, NodesOf(s))
  BY <1>4, <1>6, <1>7 DEF Injection, IsInjective
<1>10. IsFiniteSet(NodesOf(s)) /\ Cardinality(NodesOf(s)) = Cardinality(D)
  BY <1>3, <1>8, <1>9, FS_Surjection
<1>11. QED
  BY <1>3, <1>6, <1>7, <1>10

\* No node that is left out scores higher than one that is selected.
LEMMA SelectionBest ==
  ASSUME NEW S, IsFiniteSet(S), NEW sc, NEW n \in Nat,
         NEW s \in Selections(S, sc, n), NEW y \in S, y \notin NodesOf(s), NEW kept \in NodesOf(s)
  PROVE  sc[kept] >= sc[y]
<1>1. PICK c \in Nat : c = Cardinality(S)
  BY FS_CardinalityType
<1>2. PICK k \in Nat : k = (IF n <= c THEN n ELSE c) /\ k <= c
  OBVIOUS
<1>3. PICK t : IsRanking(t, S, sc, c) /\ IsSelection(s, S, t, k)
  BY <1>1, <1>2, SelectionOf
<1>4. PICK i \in 1..k : kept = t[i]
  BY <1>3 DEF IsSelection
<1>5. PICK j \in 1..c : t[j] = y
  BY <1>1, <1>3, RankingComplete
<1>6. ~(j \in 1..k)
  BY <1>3, <1>5 DEF IsSelection
<1>7. i \in 1..c /\ i < j
  BY <1>2, <1>6
<1>8. QED
  BY <1>3, <1>4, <1>5, <1>7 DEF IsRanking

\* A node x goes: what the selections before (A) and after (B) have to do with
\* each other, however each of them orders equal scores.
LEMMA SelectionsApart ==
  ASSUME NEW S, IsFiniteSet(S), NEW sc \in [S -> Nat], NEW n \in Nat, n <= Cardinality(S),
         NEW x \in S, NEW s \in Selections(S, sc, n), NEW t \in Selections(S \ {x}, sc, n),
         NEW A, A = NodesOf(s), NEW B, B = NodesOf(t)
  PROVE  /\ \A d \in A \ B, g \in B \ A : d # x => sc[d] = sc[g]
         /\ \A d \in A \ B : d # x => \E g \in B : sc[d] = sc[g]
         /\ \A g, h \in B \ A : g # h => sc[g] = sc[h]
<1>1. PICK c \in Nat : c = Cardinality(S)
  BY FS_CardinalityType
<1>2. PICK T : T = S \ {x} /\ IsFiniteSet(T) /\ Cardinality(T) = c - 1
  BY <1>1, FS_RemoveElement
<1>3. PICK b \in Nat : b = Cardinality(T)
  BY <1>2, FS_CardinalityType
<1>4. PICK k \in Nat : k = (IF n <= b THEN n ELSE b) /\ k <= n
  OBVIOUS
<1>5. A \subseteq S /\ IsFiniteSet(A) /\ Cardinality(A) = n
  <2>1. n = IF n <= c THEN n ELSE c
    BY <1>1
  <2>2. QED
    BY <1>1, <2>1, SelectionSize
<1>6. t \in Selections(T, sc, n)
  BY <1>2
<1>7. B \subseteq T /\ IsFiniteSet(B) /\ Cardinality(B) = k
  BY <1>2, <1>3, <1>4, <1>6, SelectionSize
<1>8. ASSUME NEW d \in A \ B, NEW g \in B \ A, d # x
      PROVE  sc[d] = sc[g]
  <2>1. d \in S /\ d \in T /\ g \in S
    BY <1>2, <1>5, <1>7, <1>8
  <2>2. sc[d] >= sc[g]
    BY <2>1, SelectionBest
  <2>3. sc[g] >= sc[d]
    BY <1>2, <1>6, <2>1, SelectionBest
  <2>4. sc[d] \in Nat /\ sc[g] \in Nat
    BY <2>1
  <2>5. QED
    BY <2>2, <2>3, <2>4
<1>9. ASSUME NEW d \in A \ B, d # x
      PROVE  \E g \in B : sc[d] = sc[g]
  <2>1. d \in T /\ B # T
    BY <1>2, <1>5, <1>9
  <2>2. k # b
    BY <1>2, <1>3, <1>7, <2>1, FS_Subset
  <2>3. k = n
    BY <1>4, <2>2
  <2>4. ~(B \subseteq A)
    <3>1. SUFFICES ASSUME B \subseteq A
                   PROVE  FALSE
      OBVIOUS
    <3>2. A = B
      BY <1>5, <1>7, <2>3, <3>1, FS_Subset
    <3>3. QED
      BY <1>9, <3>2
  <2>5. PICK g \in B \ A : TRUE
    BY <2>4
  <2>6. QED
    BY <1>8, <1>9, <2>5
<1>10. ASSUME NEW g \in B \ A, NEW h \in B \ A, g # h
       PROVE  sc[g] = sc[h]
  <2>1. PICK m \in Nat : m = Cardinality(A \cap B)
    BY <1>5, FS_Intersection, FS_CardinalityType
  <2>2. Cardinality(A \ B) = n - m
    BY <1>5, <2>1, FS_Difference
  <2>3. IsFiniteSet(B \ A) /\ Cardinality(B \ A) = k - m
    <3>1. B \cap A = A \cap B
      OBVIOUS
    <3>2. IsFiniteSet(B \ A) /\ Cardinality(B \ A) = Cardinality(B) - Cardinality(B \cap A)
      BY <1>7, FS_Difference
    <3>3. QED
      BY <1>7, <2>1, <3>1, <3>2
  <2>4. k - m >= 2
    <3>1. {g, h} \subseteq B \ A
      BY <1>10
    <3>2. Cardinality({g, h}) = 2
      <4>1. {g, h} = {g} \cup {h} /\ h \notin {g}
        BY <1>10
      <4>2. IsFiniteSet({g}) /\ Cardinality({g}) = 1
        BY FS_Singleton
      <4>3. Cardinality({g} \cup {h}) = 1 + 1
        BY <4>1, <4>2, FS_AddElement
      <4>4. QED
        BY <4>1, <4>3
    <3>3. Cardinality({g, h}) <= Cardinality(B \ A)
      BY <2>3, <3>1, FS_Subset
    <3>4. QED
      BY <2>3, <3>2, <3>3
  <2>5. ~(A \ B \subseteq {x})
    <3>1. SUFFICES ASSUME A \ B \subseteq {x}
                   PROVE  FALSE
      OBVIOUS
    <3>2. Cardinality(A \ B) <= 1
      <4>1. IsFiniteSet({x}) /\ Cardinality({x}) = 1
        BY FS_Singleton
      <4>2. QED
        BY <3>1, <4>1, FS_Subset
    <3>3. QED
      BY <1>4, <2>1, <2>2, <2>4, <3>2
  <2>6. PICK d \in A \ B : d # x
    BY <2>5
  <2>7. sc[d] = sc[g] /\ sc[d] = sc[h]
    BY <1>8, <1>10, <2>6
  <2>8. QED
    BY <2>7
<1>11. QED
  BY <1>8, <1>9, <1>10

\* There are finitely many nodes, and each has a score.
ScoresOk == IsFiniteSet(DOMAIN score) /\ score \in [DOMAIN score -> Nat]

LEMMA ScoresOkAlways == PlacementSpec => []ScoresOk
<1>1. PlacementInit => ScoresOk
  <2>1. SUFFICES ASSUME score = <<>>
                 PROVE  ScoresOk
    BY DEF PlacementInit
  <2>2. DOMAIN score = {}
    BY <2>1
  <2>3. QED
    BY <2>1, <2>2, FS_EmptySet DEF ScoresOk
<1>2. ScoresOk /\ [PlacementNext]_placementVars => ScoresOk'
  <2>1. SUFFICES ASSUME ScoresOk, [PlacementNext]_placementVars
                 PROVE  ScoresOk'
    OBVIOUS
  <2>2. CASE score' = score
    BY <2>1, <2>2 DEF ScoresOk
  <2>3. CASE \E start \in Points, end \in Points \cup {Open} : InsertRange(start, end)
    BY <2>2, <2>3 DEF InsertRange
  <2>4. CASE \E node \in NodeIds, hash \in Scores : Join(node, hash)
    <3>1. PICK node \in NodeIds, hash \in Scores : Join(node, hash)
      BY <2>4
    <3>2. score' = [m \in DOMAIN score \cup {node} |-> IF m = node THEN hash ELSE score[m]]
      BY <3>1 DEF Join
    <3>3. DOMAIN score' = DOMAIN score \cup {node}
      BY <3>2
    <3>4. IsFiniteSet(DOMAIN score')
      BY <2>1, <3>3, FS_AddElement DEF ScoresOk
    <3>5. hash \in Nat
      BY PlacementAssumption
    <3>6. score' \in [DOMAIN score \cup {node} -> Nat]
      BY <2>1, <3>2, <3>5 DEF ScoresOk
    <3>7. QED
      BY <3>3, <3>4, <3>6 DEF ScoresOk
  <2>5. CASE UNCHANGED placementVars
    BY <2>2, <2>5 DEF placementVars
  <2>6. QED
    BY <2>1, <2>3, <2>4, <2>5 DEF PlacementNext
<1>3. QED
  BY <1>1, <1>2, PTL DEF PlacementSpec

\* hashing.rs, hrw_select: for any nodes and hashes, and for any order the sort
\* gives equal hashes before and after a change of membership, the change moves a
\* key only for the node that went or between nodes with equal hashes, and
\* nobody who is left out has a higher hash than somebody who is selected.
THEOREM HrwMovesLittleAlways == PlacementSpec => []HrwMovesLittle
<1>1. ASSUME ScoresOk, NEW x \in DOMAIN score, NEW n \in 0..Cardinality(DOMAIN score),
             NEW s \in Selections(DOMAIN score, score, n),
             NEW t \in Selections(DOMAIN score \ {x}, score, n)
      PROVE  /\ \A d \in NodesOf(s) \ NodesOf(t), g \in NodesOf(t) \ NodesOf(s) :
                  d # x => score[d] = score[g]
             /\ \A d \in NodesOf(s) \ NodesOf(t) :
                  d # x => \E g \in NodesOf(t) : score[d] = score[g]
             /\ \A g, h \in NodesOf(t) \ NodesOf(s) : g # h => score[g] = score[h]
  <2>1. IsFiniteSet(DOMAIN score) /\ score \in [DOMAIN score -> Nat]
    BY <1>1 DEF ScoresOk
  <2>2. n \in Nat /\ n <= Cardinality(DOMAIN score)
    BY <2>1, FS_CardinalityType
  <2>3. QED
    BY <2>1, <2>2, SelectionsApart
<1>2. ASSUME ScoresOk, NEW n \in 0..Cardinality(DOMAIN score),
             NEW s \in Selections(DOMAIN score, score, n), NEW node \in DOMAIN score,
             node \notin NodesOf(s), NEW kept \in NodesOf(s)
      PROVE  score[kept] >= score[node]
  <2>1. IsFiniteSet(DOMAIN score)
    BY <1>2 DEF ScoresOk
  <2>2. n \in Nat
    BY <2>1, FS_CardinalityType
  <2>3. QED
    BY <1>2, <2>1, <2>2, SelectionBest
<1>3. \A S, n : HrwSelect(S, n) = Selections(S, score, n)
  BY DEF HrwSelect, Selections, Rankings
<1>4. ScoresOk => HrwMovesLittle
  <2>1. SUFFICES ASSUME ScoresOk
                 PROVE  HrwMovesLittle
    OBVIOUS
  <2>2. SUFFICES ASSUME NEW x \in DOMAIN score, NEW n \in 0..Cardinality(DOMAIN score)
                 PROVE  /\ \A s \in HrwSelect(DOMAIN score, n), t \in HrwSelect(DOMAIN score \ {x}, n) :
                             /\ \A d \in NodesOf(s) \ NodesOf(t), g \in NodesOf(t) \ NodesOf(s) :
                                  d # x => score[d] = score[g]
                             /\ \A d \in NodesOf(s) \ NodesOf(t) :
                                  d # x => \E g \in NodesOf(t) : score[d] = score[g]
                             /\ \A g, h \in NodesOf(t) \ NodesOf(s) : g # h => score[g] = score[h]
                        /\ \A s \in HrwSelect(DOMAIN score, n), node \in DOMAIN score :
                             node \notin NodesOf(s) =>
                               \A kept \in NodesOf(s) : score[kept] >= score[node]
    BY Zenon DEF HrwMovesLittle, NodesOf
  <2>3. /\ HrwSelect(DOMAIN score, n) = Selections(DOMAIN score, score, n)
        /\ HrwSelect(DOMAIN score \ {x}, n) = Selections(DOMAIN score \ {x}, score, n)
    BY <1>3
  <2>4. QED
    BY <1>1, <1>2, <2>1, <2>3
<1>5. QED
  BY <1>4, ScoresOkAlways, PTL
=============================================================================
