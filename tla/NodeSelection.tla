---------------------------- MODULE NodeSelection ----------------------------
(***************************************************************************)
(* Which node a start connects to (commands/engine.rs, node_key.rs).  The  *)
(* provider renames, reorders and re-credentials its nodes at every sync,  *)
(* so a selection is remembered by identity, endpoint and tag and resolved *)
(* against the list of the moment by a ladder of rungs, strongest first.   *)
(*                                                                         *)
(* Pure operators and what holds of them for every list and every query.   *)
(* Texts are values; an absent text and an empty one, which the code       *)
(* filters out alike, are both None.  A key is the format it was written in*)
(* and the identity it was built from: the hash of the current format is   *)
(* taken to be injective.                                                  *)
(***************************************************************************)
EXTENDS Integers, Sequences, WellFoundedInduction, TLAPS

CONSTANTS
    None,           \* an absent or empty text
    Sanitize(_)     \* sanitize_tag_like

-----------------------------------------------------------------------------
(* node_key.rs.  A node is [tag, name, protocol, server, port, secret];     *)
(* its secret is its uuid or else its password.                             *)

Endpoint(node) == <<node.protocol, node.server, node.port>>
Identity(node) == <<Endpoint(node), node.secret>>

NodeKey(node) == [format |-> "n2", id |-> Identity(node)]

(* The current key and the plaintext tuple of 1.0.1. *)
Aliases(node) == {NodeKey(node), [format |-> "n1", id |-> Identity(node)]}

KeyMatches(stored, node) == stored # None /\ stored \in Aliases(node)

-----------------------------------------------------------------------------
(* pick_node *)

(* The rungs: the places of a list that answer one descriptor. *)
ByKey(nodes, key) == {i \in DOMAIN nodes : KeyMatches(key, nodes[i])}

ByEndpoint(nodes, endpoint) ==
    {i \in DOMAIN nodes : endpoint # None /\ Endpoint(nodes[i]) = endpoint}

(* find_proxy_node: the exact tag before the looser forms. *)
ByTag(nodes, tag) == {i \in DOMAIN nodes : tag # None /\ nodes[i].tag = tag}

LooselyNamed(node, tag) == tag \in {Sanitize(node.tag), node.name, Sanitize(node.name)}

ByName(nodes, tag) == {i \in DOMAIN nodes : tag # None /\ LooselyNamed(nodes[i], tag)}

Ladder(nodes, query) ==
    << ByKey(nodes, query.key), ByKey(nodes, query.altKey),
       ByTag(nodes, query.tag), ByName(nodes, query.tag),
       ByEndpoint(nodes, query.endpoint),
       IF query.allowFallback THEN DOMAIN nodes ELSE {} >>

First(places) == CHOOSE i \in places : \A j \in places : i <= j

(* The place of the node that is picked, 0 for node_not_found. *)
Pick(nodes, query) ==
    LET answering == {r \in 1..6 : Ladder(nodes, query)[r] # {}}
    IN  IF answering = {} THEN 0 ELSE First(Ladder(nodes, query)[First(answering)])

-----------------------------------------------------------------------------
(* Queries and the selection *)

(* What set_selected remembers of a node. *)
Selection(node) ==
    [tag |-> node.tag, key |-> NodeKey(node), endpoint |-> Endpoint(node)]

(* NodeQuery::remembered, for the tray, auto-connect and reconciliation. *)
Remembered(selection) ==
    [key |-> selection.key, altKey |-> None, tag |-> selection.tag,
     endpoint |-> selection.endpoint, allowFallback |-> TRUE]

(* engine_start: what the UI shows, filled in from what is remembered. *)
Connect(id, tag, selection) ==
    [key |-> id, altKey |-> selection.key,
     tag |-> IF tag # None THEN tag ELSE selection.tag,
     endpoint |-> selection.endpoint, allowFallback |-> TRUE]

(* engine_select_node: the row the user pointed at. *)
Tapped(id, tag) ==
    [key |-> id, altKey |-> None, tag |-> tag, endpoint |-> None, allowFallback |-> FALSE]

(* reconcile_persisted_state *)
Reconcile(nodes, selection) ==
    LET i == Pick(nodes, Remembered(selection))
    IN  IF i = 0 THEN selection ELSE Selection(nodes[i])

-----------------------------------------------------------------------------
(* Lemmas *)

(* A set of places that is not empty has a first one. *)
LEMMA FirstIsLeast ==
    ASSUME NEW S \in SUBSET Nat, S # {}
    PROVE  First(S) \in S /\ \A j \in S : First(S) <= j
<1> DEFINE less == OpToRel(<, Nat)
<1>1. \A x, y \in Nat : y < x => <<y, x>> \in less
  BY DEF OpToRel
<1>2. IsWellFoundedOn(less, Nat)
  BY NatLessThanWellFounded
<1>3. \E x \in S : \A y \in S : ~(<<y, x>> \in less)
  <2> HIDE DEF less
  <2> QED  BY <1>2, WFMin
<1>4. \E x \in S : \A y \in S : x <= y
  <2> HIDE DEF less
  <2>1. PICK x \in S : \A y \in S : ~(<<y, x>> \in less)
    BY <1>3
  <2>2. \A y \in S : ~(y < x)
    BY <1>1, <2>1, S \subseteq Nat, Zenon
  <2> QED  BY <2>2, S \subseteq Nat
<1> QED  BY <1>4 DEF First

(* Every rung is a set of places of the list. *)
LEMMA RungsArePlaces ==
    ASSUME NEW Node, NEW nodes \in Seq(Node), NEW query, NEW r \in 1..6
    PROVE  Ladder(nodes, query)[r] \in SUBSET (1..Len(nodes))
<1>1. DOMAIN nodes = 1..Len(nodes)
  OBVIOUS
<1>2. r \in {1, 2, 3, 4, 5, 6}
  OBVIOUS
<1> QED  BY <1>1, <1>2 DEF Ladder, ByKey, ByTag, ByName, ByEndpoint

(* What is picked comes from the first rung that is not empty; nothing is  *)
(* picked only when all are.                                               *)
LEMMA PickedRung ==
    ASSUME NEW Node, NEW nodes \in Seq(Node), NEW query
    PROVE  \/ /\ Pick(nodes, query) = 0
              /\ \A r \in 1..6 : Ladder(nodes, query)[r] = {}
           \/ \E r \in 1..6 :
                 /\ Ladder(nodes, query)[r] # {}
                 /\ \A s \in 1..6 : s < r => Ladder(nodes, query)[s] = {}
                 /\ Pick(nodes, query) = First(Ladder(nodes, query)[r])
<1> DEFINE rung(r) == Ladder(nodes, query)[r]
           answering == {r \in 1..6 : rung(r) # {}}
<1>1. CASE answering = {}
  BY <1>1 DEF Pick
<1>2. CASE answering # {}
  <2>1. answering \in SUBSET Nat
    OBVIOUS
  <2>2. First(answering) \in answering /\ \A s \in answering : First(answering) <= s
    BY <1>2, <2>1, FirstIsLeast
  <2>3. Pick(nodes, query) = First(rung(First(answering)))
    BY <1>2 DEF Pick
  <2>4. \A s \in 1..6 : s < First(answering) => rung(s) = {}
    <3>1. SUFFICES ASSUME NEW s \in 1..6, rung(s) # {}
                   PROVE  ~(s < First(answering))
      OBVIOUS
    <3>2. s \in answering
      BY <3>1
    <3>3. First(answering) \in Nat /\ First(answering) <= s
      BY <2>1, <2>2, <3>2
    <3> QED  BY <3>3
  <2> QED  BY <2>2, <2>3, <2>4
<1> QED  BY <1>1, <1>2

(* A key names at most one identity, in whatever format it was written. *)
LEMMA KeysName ==
    ASSUME NEW a, NEW b, NEW key, KeyMatches(key, a), KeyMatches(key, b)
    PROVE  Identity(a) = Identity(b)
BY DEF KeyMatches, Aliases, NodeKey

(* A node answers to its own key, and to the key of a node of its identity. *)
LEMMA OwnKey ==
    ASSUME NEW a, NEW b, NodeKey(a) # None
    PROVE  KeyMatches(NodeKey(a), b) <=> Identity(a) = Identity(b)
BY DEF KeyMatches, Aliases, NodeKey

(* What is picked is a place of the list. *)
LEMMA Places ==
    ASSUME NEW Node, NEW nodes \in Seq(Node), NEW query
    PROVE  Pick(nodes, query) \in 0..Len(nodes)
<1> DEFINE rung(r) == Ladder(nodes, query)[r]
<1>1. CASE Pick(nodes, query) = 0
  BY <1>1
<1>2. CASE Pick(nodes, query) # 0
  <2>1. PICK r \in 1..6 : rung(r) # {} /\ Pick(nodes, query) = First(rung(r))
    BY <1>2, PickedRung
  <2>2. rung(r) \in SUBSET (1..Len(nodes))
    BY RungsArePlaces
  <2>3. First(rung(r)) \in rung(r)
    BY <2>1, <2>2, FirstIsLeast
  <2> QED  BY <2>1, <2>2, <2>3
<1> QED  BY <1>1, <1>2

(* The selection of a listed node picks the first node of its identity. *)
LEMMA PickOfSelection ==
    ASSUME NEW Node, NEW nodes \in Seq(Node), NEW i \in 1..Len(nodes),
           NodeKey(nodes[i]) # None
    PROVE  LET m == First(ByKey(nodes, NodeKey(nodes[i])))
           IN  /\ Pick(nodes, Remembered(Selection(nodes[i]))) = m
               /\ m \in 1..Len(nodes) /\ Identity(nodes[m]) = Identity(nodes[i])
<1> DEFINE query == Remembered(Selection(nodes[i]))
           rung(r) == Ladder(nodes, query)[r]
           m == First(ByKey(nodes, NodeKey(nodes[i])))
<1>1. rung(1) = ByKey(nodes, NodeKey(nodes[i]))
  BY DEF Ladder, Remembered, Selection
<1>2. KeyMatches(NodeKey(nodes[i]), nodes[i])
  BY OwnKey
<1>3. i \in rung(1)
  BY <1>1, <1>2 DEF ByKey
<1>4. PICK r \in 1..6 : /\ rung(r) # {}
                        /\ \A s \in 1..6 : s < r => rung(s) = {}
                        /\ Pick(nodes, query) = First(rung(r))
  BY <1>3, PickedRung
<1>5. r = 1
  BY <1>3, <1>4
<1>6. rung(1) \in SUBSET (1..Len(nodes))
  BY RungsArePlaces
<1>7. m \in rung(1)
  BY <1>1, <1>3, <1>6, FirstIsLeast
<1>8. KeyMatches(NodeKey(nodes[i]), nodes[m])
  BY <1>1, <1>7 DEF ByKey
<1>9. Identity(nodes[m]) = Identity(nodes[i])
  BY <1>8, OwnKey
<1> QED  BY <1>1, <1>4, <1>5, <1>6, <1>7, <1>9

-----------------------------------------------------------------------------
(* Theorems *)

(* Connecting never dead-ends: with the fallback, as every start but a tap *)
(* on a row has it, a list that is not empty always yields one of its nodes.*)
THEOREM ConnectNeverStrands ==
    ASSUME NEW Node, NEW nodes \in Seq(Node), nodes # <<>>,
           NEW query, query.allowFallback
    PROVE  Pick(nodes, query) \in 1..Len(nodes)
<1>1. Ladder(nodes, query)[6] = DOMAIN nodes /\ DOMAIN nodes = 1..Len(nodes)
  BY DEF Ladder
<1>2. 1 \in Ladder(nodes, query)[6]
  BY <1>1
<1>3. PICK r \in 1..6 : /\ Ladder(nodes, query)[r] # {}
                        /\ Pick(nodes, query) = First(Ladder(nodes, query)[r])
  BY <1>2, PickedRung
<1>4. Ladder(nodes, query)[r] \in SUBSET (1..Len(nodes))
  BY RungsArePlaces
<1>5. First(Ladder(nodes, query)[r]) \in Ladder(nodes, query)[r]
  BY <1>3, <1>4, FirstIsLeast
<1> QED  BY <1>3, <1>4, <1>5

(* A tap on a row connects to what was tapped or fails: the node answers to*)
(* the row's identity or to its tag, and no other is put in its place.     *)
THEOREM TapIsExact ==
    ASSUME NEW Node, NEW nodes \in Seq(Node), NEW id, NEW tag,
           NEW i, i = Pick(nodes, Tapped(id, tag)), i # 0
    PROVE  /\ i \in 1..Len(nodes)
           /\ \/ KeyMatches(id, nodes[i])
              \/ /\ tag # None /\ ByKey(nodes, id) = {}
                 /\ nodes[i].tag = tag \/ LooselyNamed(nodes[i], tag)
<1> DEFINE rung(r) == Ladder(nodes, Tapped(id, tag))[r]
<1>1. PICK r \in 1..6 : /\ rung(r) # {}
                        /\ \A s \in 1..6 : s < r => rung(s) = {}
                        /\ i = First(rung(r))
  BY PickedRung
<1>2. rung(r) \in SUBSET (1..Len(nodes))
  BY RungsArePlaces
<1>3. i \in rung(r) /\ i \in 1..Len(nodes)
  BY <1>1, <1>2, FirstIsLeast
<1>4. /\ rung(1) = ByKey(nodes, id) /\ rung(2) = {} /\ rung(3) = ByTag(nodes, tag)
      /\ rung(4) = ByName(nodes, tag) /\ rung(5) = {} /\ rung(6) = {}
  BY DEF Ladder, Tapped, ByKey, KeyMatches, ByEndpoint
<1>5. r \in {1, 3, 4}
  BY <1>1, <1>4
<1>6. CASE r = 1
  BY <1>3, <1>4, <1>6 DEF ByKey
<1>7. CASE r # 1
  <2>1. ByKey(nodes, id) = {}
    BY <1>1, <1>4, <1>5, <1>7
  <2> QED  BY <2>1, <1>3, <1>4, <1>5, <1>7 DEF ByTag, ByName
<1> QED  BY <1>6, <1>7

(* The identity wins.  As long as the list has a node of the remembered    *)
(* identity, renamed, moved or doubled, and whichever tag and endpoint the *)
(* selection holds, that identity is what is resolved.  The selection may  *)
(* well be a mixture: set_selected writes its parts one after the other, so*)
(* two of them may interleave; and the key may be of an older format.      *)
THEOREM IdentityIsFollowed ==
    ASSUME NEW Node, NEW nodes \in Seq(Node), NEW a, NEW selection,
           selection.key # None, selection.key \in Aliases(a),
           NEW k \in 1..Len(nodes), Identity(nodes[k]) = Identity(a)
    PROVE  LET i == Pick(nodes, Remembered(selection))
           IN  i \in 1..Len(nodes) /\ Identity(nodes[i]) = Identity(a)
<1> DEFINE rung(r) == Ladder(nodes, Remembered(selection))[r]
           i == Pick(nodes, Remembered(selection))
<1>1. rung(1) = ByKey(nodes, selection.key)
  BY DEF Ladder, Remembered
<1>2. KeyMatches(selection.key, nodes[k])
  BY DEF KeyMatches, Aliases, NodeKey
<1>3. rung(1) # {}
  BY <1>1, <1>2 DEF ByKey
<1>4. PICK r \in 1..6 : /\ rung(r) # {}
                        /\ \A s \in 1..6 : s < r => rung(s) = {}
                        /\ i = First(rung(r))
  BY <1>3, PickedRung
<1>5. r = 1
  BY <1>3, <1>4
<1>6. rung(1) \in SUBSET (1..Len(nodes))
  BY RungsArePlaces
<1>7. i \in rung(1) /\ i \in 1..Len(nodes)
  BY <1>3, <1>4, <1>5, <1>6, FirstIsLeast
<1>8. KeyMatches(selection.key, nodes[i])
  BY <1>1, <1>7 DEF ByKey
<1>9. KeyMatches(selection.key, a)
  BY DEF KeyMatches
<1>10. Identity(nodes[i]) = Identity(a)
  BY <1>8, <1>9, KeysName
<1> QED  BY <1>7, <1>10

(* What the UI shows does not hide what is remembered: a start whose id no *)
(* listed node has any more, as one of an older build or of a node that is *)
(* gone, connects to the remembered identity while that one is listed,     *)
(* whichever tag the UI sent along.                                        *)
THEOREM StaleIdHidesNothing ==
    ASSUME NEW Node, NEW nodes \in Seq(Node), NEW a, NEW id, NEW tag, NEW selection,
           ByKey(nodes, id) = {},
           selection.key # None, selection.key \in Aliases(a),
           NEW k \in 1..Len(nodes), Identity(nodes[k]) = Identity(a)
    PROVE  LET i == Pick(nodes, Connect(id, tag, selection))
           IN  i \in 1..Len(nodes) /\ Identity(nodes[i]) = Identity(a)
<1> DEFINE rung(r) == Ladder(nodes, Connect(id, tag, selection))[r]
           i == Pick(nodes, Connect(id, tag, selection))
<1>1. rung(1) = {} /\ rung(2) = ByKey(nodes, selection.key)
  BY DEF Ladder, Connect
<1>2. KeyMatches(selection.key, nodes[k])
  BY DEF KeyMatches, Aliases, NodeKey
<1>3. rung(2) # {}
  BY <1>1, <1>2 DEF ByKey
<1>4. PICK r \in 1..6 : /\ rung(r) # {}
                        /\ \A s \in 1..6 : s < r => rung(s) = {}
                        /\ i = First(rung(r))
  BY <1>3, PickedRung
<1>5. r = 2
  BY <1>1, <1>3, <1>4
<1>6. rung(2) \in SUBSET (1..Len(nodes))
  BY RungsArePlaces
<1>7. i \in rung(2) /\ i \in 1..Len(nodes)
  BY <1>3, <1>4, <1>5, <1>6, FirstIsLeast
<1>8. KeyMatches(selection.key, nodes[i])
  BY <1>1, <1>7 DEF ByKey
<1>9. KeyMatches(selection.key, a)
  BY DEF KeyMatches
<1>10. Identity(nodes[i]) = Identity(a)
  BY <1>8, <1>9, KeysName
<1> QED  BY <1>7, <1>10

(* A credential that was rotated together with the node's name does not    *)
(* move the user to another server: with neither key nor name left, the    *)
(* remembered endpoint is resolved to a node on that endpoint.             *)
THEOREM RotationIsFollowed ==
    ASSUME NEW Node, NEW nodes \in Seq(Node), NEW selection,
           ByKey(nodes, selection.key) = {},
           ByTag(nodes, selection.tag) = {}, ByName(nodes, selection.tag) = {},
           ByEndpoint(nodes, selection.endpoint) # {}
    PROVE  LET i == Pick(nodes, Remembered(selection))
           IN  i \in 1..Len(nodes) /\ Endpoint(nodes[i]) = selection.endpoint
<1> DEFINE rung(r) == Ladder(nodes, Remembered(selection))[r]
           i == Pick(nodes, Remembered(selection))
<1>1. /\ rung(1) = {} /\ rung(2) = {} /\ rung(3) = {} /\ rung(4) = {}
      /\ rung(5) = ByEndpoint(nodes, selection.endpoint)
  BY DEF Ladder, Remembered, ByKey, KeyMatches
<1>2. PICK r \in 1..6 : /\ rung(r) # {}
                        /\ \A s \in 1..6 : s < r => rung(s) = {}
                        /\ i = First(rung(r))
  BY <1>1, PickedRung
<1>3. r = 5
  BY <1>1, <1>2
<1>4. rung(5) \in SUBSET (1..Len(nodes))
  BY RungsArePlaces
<1>5. i \in rung(5) /\ i \in 1..Len(nodes)
  BY <1>2, <1>3, <1>4, FirstIsLeast
<1> QED  BY <1>1, <1>5 DEF ByEndpoint

(* Reconciliation settles: it runs at every launch and after every sync,   *)
(* and over one list its second rewrite is the last, though the first may  *)
(* have found its node by a descriptor that a doubled identity outranks.   *)
THEOREM ReconcileSettles ==
    ASSUME NEW Node, NEW nodes \in Seq(Node), NEW selection,
           \A n \in Node : NodeKey(n) # None
    PROVE  LET once  == Reconcile(nodes, selection)
               twice == Reconcile(nodes, once)
           IN  Reconcile(nodes, twice) = twice
<1> DEFINE once == Reconcile(nodes, selection)
           twice == Reconcile(nodes, once)
           i == Pick(nodes, Remembered(selection))
<1>1. CASE i = 0
  BY <1>1 DEF Reconcile
<1>2. CASE i # 0
  <2>1. i \in 1..Len(nodes)
    BY <1>2, Places
  <2>2. once = Selection(nodes[i])
    BY <1>2 DEF Reconcile
  <2> DEFINE m == First(ByKey(nodes, NodeKey(nodes[i])))
  <2>3. /\ Pick(nodes, Remembered(Selection(nodes[i]))) = m
        /\ m \in 1..Len(nodes) /\ Identity(nodes[m]) = Identity(nodes[i])
    BY <2>1, PickOfSelection
  <2>4. twice = Selection(nodes[m])
    BY <2>2, <2>3 DEF Reconcile
  <2>5. NodeKey(nodes[m]) = NodeKey(nodes[i])
    BY <2>3 DEF NodeKey
  <2>6. Pick(nodes, Remembered(Selection(nodes[m]))) = m
    BY <2>3, <2>5, PickOfSelection
  <2> QED  BY <2>3, <2>4, <2>6 DEF Reconcile
<1> QED  BY <1>1, <1>2
=============================================================================
