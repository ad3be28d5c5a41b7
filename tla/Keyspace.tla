------------------------------ MODULE Keyspace -------------------------------
(***************************************************************************)
(* The order of keys: how a tenant's key is laid out in storage             *)
(* (ferriskv-core, key.rs) and the bounds of a scan over it (grpc.rs).      *)
(* A string of bytes is a sequence of numbers below 256.                    *)
(***************************************************************************)
EXTENDS Naturals, Sequences, SequencesExt, FiniteSetsExt

CONSTANTS
  Alphabet,   \* the bytes that bytes from outside are made of
  MaxText,    \* bound on their number
  Strings     \* keys they are compared with

VARIABLE text \* bytes from outside: given to decode, or asked for as a prefix

Byte == 0..255

ASSUME KeyspaceAssumption ==
  /\ Alphabet \subseteq Byte
  /\ MaxText \in Nat
  /\ Strings \subseteq Seq(Byte)

\* The subspaces a tenant's keys are divided into.
Metadata == 0
Data == 1
Index == 2
Stats == 3
Subspaces == {Metadata, Data, Index, Stats}

\* What decode answers for bytes that encode could not have produced.
Corrupt == [tenant |-> <<>>, subspace |-> Metadata, payload |-> <<>>]

MAX_TENANT_LEN == 255

(* Mutant: MAX_TENANT_LEN is 256, in every place that refuses a tenant. *)
TenantOkOffByOne(tenant) == tenant # <<>> /\ Len(tenant) <= MAX_TENANT_LEN + 1

TenantOk(tenant) == tenant # <<>> /\ Len(tenant) <= MAX_TENANT_LEN

\* How many bytes a character has that starts with `byte`; 0 if none does.
CharLen(byte) ==
  CASE byte < 128        -> 1
    [] byte \in 194..223 -> 2
    [] byte \in 224..239 -> 3
    [] byte \in 240..244 -> 4
    [] OTHER             -> 0

\* The bytes behind the first one of a character; and of them those that may
\* follow `byte` at once: no longer form than needed, no surrogate, nothing
\* above U+10FFFF.
Continuation == 128..191
Second(byte) ==
  CASE byte = 224 -> 160..191
    [] byte = 237 -> 128..159
    [] byte = 240 -> 144..191
    [] byte = 244 -> 128..143
    [] OTHER      -> Continuation

\* str::from_utf8: every byte starts a complete character or is inside one.
IsUtf8(bytes) ==
  \A i \in DOMAIN bytes :
    IF bytes[i] \in Continuation
    THEN \E j \in 1..i - 1 : i < j + CharLen(bytes[j])
    ELSE LET last == i + CharLen(bytes[i]) - 1
         IN /\ CharLen(bytes[i]) # 0 /\ last <= Len(bytes)
            /\ last > i => bytes[i + 1] \in Second(bytes[i])
            /\ \A j \in i + 1..last : bytes[j] \in Continuation

\* write_tenant: the length as a u8, and the name.
WriteTenant(tenant) == <<Len(tenant) % 256>> \o tenant

\* encode, of a name it does not refuse: whoever uses it asks TenantOk first.
Encode(tenant, subspace, payload) == WriteTenant(tenant) \o <<subspace>> \o payload

(* Mutant: an empty tenant is accepted. *)
DecodeEmptyTenant(key) ==
  LET tlen == key[1]
      tenant == SubSeq(key, 2, 1 + tlen)
  IN IF /\ key # <<>>
        /\ tlen + 2 <= Len(key)
        /\ IsUtf8(tenant)
        /\ key[2 + tlen] \in Subspaces
     THEN [tenant |-> tenant, subspace |-> key[2 + tlen],
           payload |-> SubSeq(key, 3 + tlen, Len(key))]
     ELSE Corrupt

Decode(key) ==
  LET tlen == key[1]
      tenant == SubSeq(key, 2, 1 + tlen)
  IN IF /\ key # <<>>
        /\ tlen # 0
        /\ tlen + 2 <= Len(key)
        /\ IsUtf8(tenant)
        /\ key[2 + tlen] \in Subspaces
     THEN [tenant |-> tenant, subspace |-> key[2 + tlen],
           payload |-> SubSeq(key, 3 + tlen, Len(key))]
     ELSE Corrupt

\* The order of byte slices.
Less(a, b) ==
  \/ IsStrictPrefix(a, b)
  \/ \E i \in DOMAIN a \cap DOMAIN b :
       a[i] < b[i] /\ \A j \in 1..i - 1 : a[j] = b[j]
AtMost(a, b) == a = b \/ Less(a, b)

-----------------------------------------------------------------------------
(* The bounds of a scan *)

(* Mutant: the last byte is incremented whatever it is. *)
BoundWithoutCarry(prefix) ==
  IF prefix = <<>> THEN <<>>
  ELSE [prefix EXCEPT ![Len(prefix)] = (@ + 1) % 256]

\* next_prefix_bound: trailing 0xFF bytes go, and the byte in front of them is
\* incremented; nothing is left of a prefix of 0xFF bytes only.
NextPrefixBound(prefix) ==
  LET low == {i \in DOMAIN prefix : prefix[i] # 255}
  IN IF low = {} THEN <<>>
     ELSE [SubSeq(prefix, 1, Max(low)) EXCEPT ![Max(low)] = @ + 1]

EncodeDataScanBounds(tenant, user_prefix) ==
  LET sub_prefix == Encode(tenant, Data, <<>>)
      start == sub_prefix \o user_prefix
  IN [start |-> start, end |-> NextPrefixBound(start), strip_len |-> Len(sub_prefix)]

StripPrefix(key, strip_len) == SubSeq(key, strip_len + 1, Len(key))

\* Storage::scan_range yields the keys of [start, end).
InRange(key, start, end) == AtMost(start, key) /\ Less(key, end)

-----------------------------------------------------------------------------
(* Bytes from outside: every string up to the bound *)

TextInit == text = <<>>

Extend ==
  /\ Len(text) < MaxText
  /\ \E b \in Alphabet : text' = Append(text, b)

TextSpec == TextInit /\ [][Extend]_text

-----------------------------------------------------------------------------
(* Properties *)

\* key.rs:41-57, 78-97: whatever decode accepts is what encode writes for the
\* tenant, the subspace and the payload it answers with, and whatever encode
\* writes for a name in UTF-8 is read back as it was; so no two tenants,
\* subspaces or payloads share a key, and only bytes that are no key are refused.
DecodeExact ==
  /\ Decode(text) # Corrupt =>
       /\ TenantOk(Decode(text).tenant)
       /\ Encode(Decode(text).tenant, Decode(text).subspace, Decode(text).payload) = text
  /\ \A n \in 1..Len(text) - 2 :
       LET tenant == SubSeq(text, 2, n + 1)
           subspace == text[n + 2]
           payload == SubSeq(text, n + 3, Len(text))
       IN /\ TenantOk(tenant) /\ IsUtf8(tenant) /\ subspace \in Subspaces
          /\ text = Encode(tenant, subspace, payload)
          => Decode(text) = [tenant |-> tenant, subspace |-> subspace, payload |-> payload]

\* grpc.rs:172-183: a key lies between a prefix and its bound exactly if it
\* starts with the prefix, also when the prefix ends in 0xFF bytes.
BoundsExact ==
  NextPrefixBound(text) # <<>> =>
    \A key \in Strings : InRange(key, text, NextPrefixBound(text)) <=> IsPrefix(text, key)
=============================================================================
