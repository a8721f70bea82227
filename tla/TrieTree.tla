------------------------------ MODULE TrieTree ------------------------------
(***************************************************************************)
(* The compressed trie of csutility/Collections/TrieTree.cs, which finds   *)
(* the types of an assembly by name.  A node holds the part of the key     *)
(* between its parent and itself, a value or none (it is blank), and its   *)
(* branches by first character.                                            *)
(*                                                                         *)
(* A reference to a node is the name it was made for, all characters from  *)
(* the root to its end.  Splitting a node leaves its name as it is; the    *)
(* one operation that changes it, merging, passes the references on - but  *)
(* for a merge with a blank child, which throws with the key changed: what *)
(* calls do to such a tree is beyond this model, and names that Apart      *)
(* allows, or two of which one begins the other, do not lead to it.        *)
(***************************************************************************)
EXTENDS Naturals, FiniteSets, Sequences

CONSTANTS
  Keys,     \* the names callers use, sequences of characters
  Values,
  Default,  \* default(Value)
  Blank,    \* what a node without a value holds
  Removable \* the names callers remove, when they are in the tree

Char == STRING

ASSUME TrieAssumption ==
  /\ \A k \in Keys : k \in Seq(Char) /\ k # <<>>
  /\ {Default, Blank} \cap Values = {} /\ Default # Blank
  /\ Removable \subseteq Keys

VARIABLES
  nodes,  \* the nodes, by the references to them
  count,
  result  \* what the last call returned or threw
vars == <<nodes, count, result>>

-----------------------------------------------------------------------------
Root == <<>>

Node(key, value) ==
  [key |-> key, value |-> value, branches |-> [c \in {} |-> Root]]

IsBlank(node) == node.value = Blank

HasChildren(node) == DOMAIN node.branches # {}

Take(n, s) == SubSeq(s, 1, n)
Drop(n, s) == SubSeq(s, n + 1, Len(s))

With(heap, r, node) ==
  [s \in DOMAIN heap \cup {r} |-> IF s = r THEN node ELSE heap[s]]
Without(heap, r) == [s \in DOMAIN heap \ {r} |-> heap[s]]

\* AddNode: a child is the branch of the first character of its key.
Linked(heap, r, child) ==
  [heap EXCEPT ![r].branches =
     [c \in DOMAIN @ \cup {heap[child].key[1]} |->
        IF c = heap[child].key[1] THEN child ELSE @[c]]]

Unlinked(heap, r, c) ==
  [heap EXCEPT ![r].branches = [d \in DOMAIN @ \ {c} |-> @[d]]]

-----------------------------------------------------------------------------
\* The child under the next character of the key.
Candidate(heap, key, at) == heap[at.node].branches[key[at.start + 1]]

\* Search goes on into the candidate if all of the candidate's key is matched.
Follows(heap, key, at) ==
  /\ at.start < Len(key)
  /\ key[at.start + 1] \in DOMAIN heap[at.node].branches
  /\ LET part == heap[Candidate(heap, key, at)].key
     IN  /\ Len(part) <= Len(key) - at.start
         /\ \A i \in 1 .. Len(part) : key[at.start + i] = part[i]

Below(heap, key, at) ==
  [node  |-> Candidate(heap, key, at),
   start |-> at.start + Len(heap[Candidate(heap, key, at)].key)]

Onward(heap, key, at) ==
  IF Follows(heap, key, at) THEN Below(heap, key, at) ELSE at

(* Search: the target, and how much of the key has been matched there.  A  *)
(* node's key has a character at least, so that the walk ends with the key.*)
Search(heap, key) ==
  LET walk[i \in 0 .. Len(key)] ==
        IF i = 0 THEN [node |-> Root, start |-> 0]
        ELSE Onward(heap, key, walk[i - 1])
  IN  walk[Len(key)]

-----------------------------------------------------------------------------
\* The characters in which two sequences agree before they part or one ends.
CommonLength(s, t) ==
  CHOOSE i \in 0 .. Len(s) :
    /\ i <= Len(t)
    /\ \A j \in 1 .. i : s[j] = t[j]
    /\ i < Len(s) /\ i < Len(t) => s[i + 1] # t[i + 1]

\* Mutant: the child keeps its whole key.
Unshortened(cand, i) == cand
Shortened(cand, i) == [cand EXCEPT !.key = Drop(i, @)]

\* A new leaf below r.
Leaf(heap, r, key, value) ==
  Linked(With(heap, key, Node(Drop(Len(r), key), value)), r, key)

\* A new node between r and its child cand, i characters below r.
Above(heap, r, cand, i, value) ==
  LET new == Take(Len(r) + i, cand)
      made == With([heap EXCEPT ![cand] = Shortened(@, i)], new,
                   Node(Drop(Len(r), new), value))
  IN  Linked(Linked(made, new, cand), r, new)

(* AddBranch, below the node r a search has ended at, Len(r) characters    *)
(* into the key: a new leaf; or a node above the child the key is a prefix *)
(* of; or a blank node where key and child part.                           *)
AddBranch(heap, r, key, value) ==
  LET part == Drop(Len(r), key)
      cand == heap[r].branches[part[1]]
      i == CommonLength(part, heap[cand].key)
  IN  IF part[1] \notin DOMAIN heap[r].branches THEN Leaf(heap, r, key, value)
      ELSE IF i = Len(part) THEN Above(heap, r, cand, i, value)
      ELSE Leaf(Above(heap, r, cand, i, Blank), Take(Len(r) + i, key), key,
                value)

Put(key, value) ==
  LET at == Search(nodes, key)
  IN  IF at.start = Len(key)
      THEN /\ nodes' = [nodes EXCEPT ![at.node].value = value]
           /\ UNCHANGED count
      ELSE /\ nodes' = AddBranch(nodes, at.node, key, value)
           /\ count' = count + 1

Taken(heap, key) ==
  LET at == Search(heap, key)
  IN  at.start = Len(key) /\ ~IsBlank(heap[at.node])

Add(key, value) ==
  IF Taken(nodes, key)
  THEN result' = "duplicate" /\ UNCHANGED <<nodes, count>>
  ELSE Put(key, value) /\ result' = "ok"

Set(key, value) == Put(key, value) /\ result' = "ok"

\* Find; TryFind and ContainsKey test the same.
Get(key) ==
  /\ result' = IF Taken(nodes, key) THEN nodes[Search(nodes, key).node].value
               ELSE "KeyNotFound"
  /\ UNCHANGED <<nodes, count>>

-----------------------------------------------------------------------------
\* References to r become references to s, which node is now known by.
Renamed(heap, r, s, node) ==
  [n \in (DOMAIN heap \ {r}) \cup {s} |->
     IF n = s THEN node
     ELSE [heap[n] EXCEPT !.branches =
             [c \in DOMAIN @ |-> IF @[c] = r THEN s ELSE @[c]]]]

(* MargeWithChildrenIfBlank, as outcome and heap: a blank node takes over  *)
(* key and value of its only child, whose branches it does not take over.  *)
\* Mutant: a node with one child is left blank.
NotMerged(heap, r) == [ok |-> TRUE, heap |-> heap]
MargeWithChildrenIfBlank(heap, r) ==
  LET children == {heap[r].branches[c] : c \in DOMAIN heap[r].branches}
      child == CHOOSE s \in children : TRUE
      longer == heap[r].key \o heap[child].key
  IN  IF ~IsBlank(heap[r]) \/ heap[r].key = <<>> \/ Cardinality(children) > 1
      THEN [ok |-> TRUE, heap |-> heap]
      ELSE IF children = {} THEN [ok |-> FALSE, heap |-> heap]
      ELSE IF IsBlank(heap[child])
      THEN [ok |-> FALSE, heap |-> [heap EXCEPT ![r].key = longer]]
      ELSE [ok |-> TRUE,
            heap |-> Renamed(heap, r, child, Node(longer, heap[child].value))]

\* Clear leaves the node with the default value: its setter ends Empty.
Cleared(heap, r) == [heap EXCEPT ![r].value = Default]

(* RemoveBranch: the child under the key's next character c, whatever its  *)
(* key.                                                                    *)
RemoveBranch(heap, r, c) ==
  IF c \notin DOMAIN heap[r].branches THEN [ok |-> FALSE, heap |-> heap]
  ELSE LET child == heap[r].branches[c]
       IN  IF HasChildren(heap[child])
           THEN MargeWithChildrenIfBlank(Cleared(heap, child), child)
           ELSE MargeWithChildrenIfBlank(Without(Unlinked(heap, r, c), child), r)

(* Remove looks for the parent by the key without its last character;      *)
(* Search cannot be given an empty key.                                    *)
Remove(key) ==
  LET at == Search(nodes, Take(Len(key) - 1, key))
      r == RemoveBranch(nodes, at.node, key[at.start + 1])
  IN  /\ key \in Removable
      /\ Taken(nodes, key)
      /\ IF Len(key) = 1
         THEN result' = "exception" /\ UNCHANGED <<nodes, count>>
         ELSE /\ nodes' = r.heap
              /\ count' = IF r.ok THEN count - 1 ELSE count
              /\ result' = IF r.ok THEN "ok" ELSE "exception"

Init ==
  /\ nodes = [r \in {Root} |-> Node(<<>>, Blank)]
  /\ count = 0
  /\ result = "ok"

Next ==
  \/ \E k \in Keys, v \in Values : Add(k, v) \/ Set(k, v)
  \/ \E k \in Keys : Get(k) \/ Remove(k)

Spec == Init /\ [][Next]_vars

-----------------------------------------------------------------------------
Prefix(s, t) == Len(s) <= Len(t) /\ \A i \in 1 .. Len(s) : s[i] = t[i]

(* Names that can be removed: of two characters or more, with no name that *)
(* goes on after them, and of the names that part from one at a place no   *)
(* two go on with the same character.  Such a name is a leaf, and what is  *)
(* left below a node where it has been is a leaf, which the node can take  *)
(* over.                                                                   *)
Apart(keys, removable) ==
  \A k \in removable :
    /\ Len(k) > 1
    /\ \A j \in keys \ {k} : ~Prefix(k, j)
    /\ \A i, j \in keys : \A n \in 1 .. Len(k) - 1 :
         /\ n < Len(i) /\ n < Len(j)
         /\ \A l \in 1 .. n : i[l] = k[l]
         /\ \A l \in 1 .. n + 1 : i[l] = j[l]
         /\ i[n + 1] # k[n + 1]
         => i = j

(* Nodes hold values, and only for keys callers have used; and the trie is *)
(* compressed: a branch is kept under the first character of its key and   *)
(* leads to the node of that name, and only a node where keys part is      *)
(* blank.                                                                  *)
Compressed ==
  \A n \in DOMAIN nodes :
    /\ ~IsBlank(nodes[n]) => n \in Keys /\ nodes[n].value \in Values
    /\ \A c \in DOMAIN nodes[n].branches :
         LET child == nodes[n].branches[c]
             part == nodes[child].key
         IN  part # <<>> /\ part[1] = c /\ child = n \o part
    /\ IsBlank(nodes[n]) /\ n # Root => Cardinality(DOMAIN nodes[n].branches) >= 2

(* Callers see a dictionary. *)
Promise == INSTANCE Dictionary WITH
             Missing <- "KeyNotFound",
             dict <- [n \in {m \in DOMAIN nodes : ~IsBlank(nodes[m])} |->
                        nodes[n].value]
RefinesDictionary == Promise!Spec

(* The test Remove1, TrieTreeTest.cs:80: a key that was removed can be     *)
(* added again.                                                            *)
RemovedCanBeAdded ==
  [][\A k \in Keys : Remove(k) => ~Taken(nodes, k)']_vars
=============================================================================
