---------------------------- MODULE IpLookupTrie ----------------------------
(* The routing table of src/wireguard/ip_lookup_trie/mod.rs: a patricia trie
   of prefixes.  The methods of TrieNode are recursive or loops; here a call is
   in progress over several steps, one for every node it comes to, and `stack`
   is the call stack, the current node last (for the iterator, its stack).

   An address is the function of its bits, 0 or 1, the first one first: the code
   does nothing with its integers but masks, shifts and leading_zeros.  The key
   and the length of a TrieNode are set where it is made and never again, and no
   two nodes of a trie have the same: they are the node's name.  A box is the
   name of the node in it, an absent one Nil.  A shift by Bits or more, which
   panics in a debug build, is a bit that does not exist: TLC stops on it. *)
EXTENDS Integers, Sequences, FiniteSets

CONSTANTS Bits, Values, NoValue, MaxEntries,
          Nil  \* Option::None for a node

ASSUME IpLookupTrieAssumption ==
  /\ Bits \in Nat \ {0} /\ MaxEntries \in Nat /\ NoValue \notin Values
  /\ \A k \in [1..Bits -> {0, 1}], len \in 0..Bits : Nil # [k |-> k, len |-> len]

VARIABLES root,     \* IpLookupTable::root
          tree,     \* the nodes there are: name -> [kids: left is 0, right is 1; value]
          op,       \* the call in progress
          arg,      \*   its arguments
          stack,    \*   and the nodes it is at
          result,   \* what the last call returned, or current_best
          listed,   \* what the iterator has yielded
          table,    \* the same calls made to the reference table,
          expected  \*   and what it returned

trieVars == <<root, tree, op, arg, stack, result, listed, table, expected>>

PT == INSTANCE PrefixTable WITH result <- expected

Bit == {0, 1}
Addresses == [1..Bits -> Bit]
Lengths == 0..Bits
Names == [k : Addresses, len : Lengths]
Boxes == Names \cup {Nil}
Nodes == [kids : [Bit -> Boxes], value : Values \cup {NoValue}]

-----------------------------------------------------------------------------
(* Keys. *)

Name(k, len) == [k |-> k, len |-> len]

\* k & to_mask(len).
Under(k, len) == [i \in 1..Bits |-> IF i <= len THEN k[i] ELSE 0]

\* k1 & to_mask(len) = k2 & to_mask(len).
Agree(k1, k2, len) == \A i \in 1..len : k1[i] = k2[i]

\* k & next_bit_mask1(n.len): on which side of n a longer key is.
Side(n, k) == k[n.len + 1]

CommonPrefixLen(k1, len1, k2, len2) ==
  LET smaller == IF len1 < len2 THEN len1 ELSE len2
  IN CHOOSE n \in 0..smaller :
       Agree(k1, k2, n) /\ (n = smaller \/ k1[n + 1] # k2[n + 1])

Matched_Prefix(n) == n.len <= arg.len /\ Agree(n.k, arg.k, n.len)

\* Is n the node of the prefix in question, or is that one below it?
Matched(n) == n.len = arg.len /\ Agree(n.k, arg.k, arg.len)
Below(n) == n.len < arg.len /\ Agree(n.k, arg.k, n.len)

-----------------------------------------------------------------------------
(* Nodes. *)

Leaf(v) == [kids |-> [b \in Bit |-> Nil], value |-> v]

Here == stack[Len(stack)]
Kid == tree[Here].kids[Side(Here, arg.k)]

\* The place that holds the current node, root or its parent, holds n in the tree t.
Holds(t, n) ==
  IF Len(stack) = 1 THEN root' = n /\ tree' = t
  ELSE LET up == stack[Len(stack) - 1] IN
       root' = root /\ tree' = [t EXCEPT ![up].kids[Side(up, arg.k)] = n]

Pruned_OnlyLeaves(n, node) ==
  IF node.kids[0] = Nil /\ node.kids[1] = Nil THEN Nil ELSE n

\* A node that lacks a child gives way to the other child.
Pruned(n, node) ==
  IF node.kids[0] = Nil THEN node.kids[1]
  ELSE IF node.kids[1] = Nil THEN node.kids[0]
  ELSE n

\* The current node is now this one, or has given way.
Becomes(node) ==
  LET n == Pruned(Here, node) IN
  Holds(IF n = Here THEN [tree EXCEPT ![Here] = node]
        ELSE [p \in DOMAIN tree \ {Here} |-> tree[p]], n)

-----------------------------------------------------------------------------
(* Calls. *)

\* Prefixes with a value.
Entries ==
  [n \in {p \in DOMAIN tree : tree[p].value # NoValue} |-> tree[n].value]

TrieInit ==
  /\ root = Nil /\ tree = << >>
  /\ op = "none" /\ arg = Nil /\ stack = << >>
  /\ result = NoValue /\ listed = << >>
  /\ PT!Init

Idle == op \in {"none", "listed"}

Done == op' = "none" /\ arg' = Nil /\ stack' = << >>

\* The method of the root is called, if there is one.
Call(o, k, len, v) ==
  /\ Idle
  /\ result' = NoValue /\ listed' = << >> /\ UNCHANGED <<root, tree>>
  /\ IF root = Nil THEN Done
     ELSE op' = o /\ arg' = [k |-> k, len |-> len, v |-> v] /\ stack' = <<root>>

\* insert masks the key it is given.
InsertFirst(a, len, v) ==
  LET n == Name(Under(a, len), len) IN
  /\ Idle /\ root = Nil /\ MaxEntries > 0
  /\ root' = n /\ tree' = [p \in {n} |-> Leaf(v)]
  /\ Done /\ result' = NoValue /\ listed' = << >>
  /\ PT!Insert(a, len, v)

Insert(a, len, v) ==
  /\ root # Nil /\ Cardinality(DOMAIN Entries) < MaxEntries
  /\ Call("insert", Under(a, len), len, v)
  /\ PT!Insert(a, len, v)

\* remove does not.
Remove(a, len) == Call("remove", a, len, NoValue) /\ PT!Remove(a, len)

LongestMatch(a) == Call("match", a, Bits, NoValue) /\ PT!Match(a)

Iter ==
  /\ Idle
  /\ op' = "iter" /\ stack' = (IF root = Nil THEN << >> ELSE <<root>>)
  /\ listed' = << >>
  /\ UNCHANGED <<root, tree, arg, result, table, expected>>

-----------------------------------------------------------------------------
(* TrieNode::insert. *)

InsertReplaces ==
  /\ op = "insert" /\ Matched(Here)
  /\ result' = tree[Here].value
  /\ tree' = [tree EXCEPT ![Here].value = arg.v]
  /\ Done /\ UNCHANGED <<root, listed, table, expected>>

\* get_or_insert_with makes a child without a value, if there is none.
InsertDescends ==
  LET new == Name(arg.k, arg.len) IN
  /\ op = "insert" /\ Below(Here)
  /\ IF Kid # Nil THEN stack' = Append(stack, Kid) /\ UNCHANGED tree
     ELSE /\ stack' = Append(stack, new)
          /\ tree' = [[p \in DOMAIN tree \cup {new} |->
                         IF p = new THEN Leaf(NoValue) ELSE tree[p]]
                      EXCEPT ![Here].kids[Side(Here, arg.k)] = new]
  /\ UNCHANGED <<root, op, arg, result, listed, table, expected>>

\* Split: a new node for the common prefix takes the place of the current one, which
\* becomes one child.  The other is a node for the inserted key, unless that is the
\* common prefix.
InsertSplits ==
  LET len == CommonPrefixLen(Here.k, Here.len, arg.k, arg.len)
      up == Name(Under(Here.k, len), len)
      new == Name(arg.k, arg.len)
      other == IF len = arg.len THEN Nil ELSE new
      upNode == [kids |-> [b \in Bit |-> IF b = Side(up, Here.k) THEN Here ELSE other],
                 value |-> IF len = arg.len THEN arg.v ELSE NoValue]
  IN /\ op = "insert" /\ ~Matched(Here) /\ ~Below(Here)
     /\ Holds([p \in DOMAIN tree \cup {up} \cup ({other} \ {Nil}) |->
                 IF p = up THEN upNode ELSE IF p = other THEN Leaf(arg.v) ELSE tree[p]], up)
     /\ result' = NoValue
     /\ Done /\ UNCHANGED <<listed, table, expected>>

-----------------------------------------------------------------------------
(* TrieNode::remove. *)

\* To the caller, which puts what is left of the node in its place and goes on.
Returns ==
  IF Len(stack) = 1 THEN Done
  ELSE op' = "unwind" /\ stack' = SubSeq(stack, 1, Len(stack) - 1) /\ UNCHANGED arg

RemoveFinds ==
  /\ op = "remove" /\ Matched(Here)
  /\ result' = tree[Here].value
  /\ Becomes([tree[Here] EXCEPT !.value = NoValue])
  /\ Returns /\ UNCHANGED <<listed, table, expected>>

RemoveMisses ==
  /\ op = "remove" /\ ~Matched(Here) /\ ~Below(Here)
  /\ Returns /\ UNCHANGED <<root, tree, result, listed, table, expected>>

RemoveDescends ==
  /\ op = "remove" /\ Below(Here)
  /\ IF Kid = Nil THEN op' = "unwind" /\ UNCHANGED stack
     ELSE stack' = Append(stack, Kid) /\ UNCHANGED op
  /\ UNCHANGED <<root, tree, arg, result, listed, table, expected>>

\* Back from the child.
Unwinds ==
  /\ op = "unwind"
  /\ IF tree[Here].value = NoValue THEN Becomes(tree[Here]) ELSE UNCHANGED <<root, tree>>
  /\ Returns /\ UNCHANGED <<result, listed, table, expected>>

-----------------------------------------------------------------------------
(* Reads. *)

\* TrieNode::longest_match: its loop.
MatchGoesOn ==
  LET next == IF Here.len = Bits THEN Nil ELSE Kid IN
  /\ op = "match" /\ Agree(Here.k, arg.k, Here.len)
  /\ result' = IF tree[Here].value # NoValue THEN tree[Here].value ELSE result
  /\ IF next = Nil THEN Done ELSE stack' = <<next>> /\ UNCHANGED <<op, arg>>
  /\ UNCHANGED <<root, tree, listed, table, expected>>

MatchEnds ==
  /\ op = "match" /\ ~Agree(Here.k, arg.k, Here.len)
  /\ Done /\ UNCHANGED <<root, tree, result, listed, table, expected>>

Present(n) == IF n = Nil THEN << >> ELSE <<n>>

Pushed_AfterValue(node) ==
  IF node.value # NoValue THEN << >> ELSE Present(node.kids[1]) \o Present(node.kids[0])

\* The right child is pushed before the left one.
Pushed(node) == Present(node.kids[1]) \o Present(node.kids[0])

\* Iter::next and IntoIter::next.
IterNext ==
  LET node == tree[Here] IN
  /\ op = "iter" /\ stack # << >>
  /\ stack' = SubSeq(stack, 1, Len(stack) - 1) \o Pushed(node)
  /\ listed' = IF node.value = NoValue THEN listed
               ELSE Append(listed, [name |-> Here, value |-> node.value])
  /\ UNCHANGED <<root, tree, op, arg, result, table, expected>>

IterEnds ==
  /\ op = "iter" /\ stack = << >>
  /\ op' = "listed"
  /\ UNCHANGED <<root, tree, arg, stack, result, listed, table, expected>>

TrieNext ==
  \/ \E a \in Addresses, len \in Lengths :
       \/ Remove(a, len)
       \/ \E v \in Values : InsertFirst(a, len, v) \/ Insert(a, len, v)
  \/ \E a \in Addresses : LongestMatch(a)
  \/ Iter
  \/ InsertReplaces \/ InsertDescends \/ InsertSplits
  \/ RemoveFinds \/ RemoveMisses \/ RemoveDescends \/ Unwinds
  \/ MatchGoesOn \/ MatchEnds \/ IterNext \/ IterEnds

TrieSpec == TrieInit /\ [][TrieNext]_trieVars

-----------------------------------------------------------------------------
(* Properties. *)

Sound(n) ==
  LET node == tree[n] IN
  /\ n.len \in Lengths /\ n.k = Under(n.k, n.len)
  /\ node.value = NoValue => node.kids[0] # Nil /\ node.kids[1] # Nil
  /\ \A b \in Bit : node.kids[b] # Nil =>
       LET kid == node.kids[b] IN
       /\ kid \in DOMAIN tree /\ n.len < kid.len
       /\ Side(n, kid.k) = b
       /\ Under(kid.k, n.len) = n.k

\* Whatever sequence of calls made it, the trie passes self_check: keys are masked,
\* children extend their parent on the right side, and no node is left that neither
\* holds a value nor separates two others (mod.rs:242).
SelfCheck == Idle => \A n \in DOMAIN tree : Sound(n)

\* After any sequence of calls the trie holds the entries that the reference table
\* holds, and the last call returned what the reference's did: insert and remove the
\* value that was there, longest_match that of the longest prefix of the address.
MatchesReference == Idle => Entries = table /\ result = expected

\* The iterator yields every entry, and none twice.
IterExact ==
  op = "listed" =>
    /\ {listed[i] : i \in DOMAIN listed}
       = {[name |-> n, value |-> Entries[n]] : n \in DOMAIN Entries}
    /\ Len(listed) = Cardinality(DOMAIN Entries)
=============================================================================
