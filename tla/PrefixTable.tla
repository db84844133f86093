---------------------------- MODULE PrefixTable ----------------------------
(* What an IP lookup table promises (src/wireguard/ip_lookup_trie/simple.rs,
   the reference the repository's own tests compare the trie with): a map from
   prefixes to values, and the longest matching prefix's value for every
   address.  An address is the function of its bits, the first one first; a
   prefix is an address whose bits after the prefix length are zero, with its
   length. *)
EXTENDS Integers, Functions

CONSTANTS Bits,    \* bits of an address
          NoValue  \* Option::None

Lengths == 0..Bits

VARIABLES table,   \* prefix -> value
          result   \* what the last call returned

\* mask_with_prefix: zero the bits after the first len.
Masked(a, len) == [i \in 1..Bits |-> IF i <= len THEN a[i] ELSE 0]

\* The entry a prefix is stored under, and what it holds.
Key(a, len) == [k |-> Masked(a, len), len |-> len]
At(t, key) == IF key \in DOMAIN t THEN t[key] ELSE NoValue

\* The tables are searched from the longest length down.
LongestMatch(t, a) ==
  LET matching == {len \in Lengths : Key(a, len) \in DOMAIN t}
  IN IF matching = {} THEN NoValue
     ELSE t[Key(a, CHOOSE len \in matching : \A m \in matching : m <= len)]

Init ==
  /\ table = << >>
  /\ result = NoValue

\* insert: add or replace, and return the value replaced.
Insert(a, len, v) ==
  LET key == Key(a, len) IN
  /\ result' = At(table, key)
  /\ table' = [k \in DOMAIN table \cup {key} |-> IF k = key THEN v ELSE table[k]]

\* remove: drop the entry if there is one, and return its value.
Remove(a, len) ==
  LET key == Key(a, len) IN
  /\ result' = At(table, key)
  /\ table' = Restrict(table, DOMAIN table \ {key})

\* longest_match.
Match(a) == result' = LongestMatch(table, a) /\ UNCHANGED table
=============================================================================
