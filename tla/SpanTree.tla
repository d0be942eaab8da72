------------------------------ MODULE SpanTree ------------------------------
(***************************************************************************)
(* How the trace panel lays out the spans of a trace: buildSpanTree indexes *)
(* them by their ids, links children to parents, and walks the forest with  *)
(* siblings sorted by their start.  Spans come in any order; a span's       *)
(* parent may be missing, and a batch that was exported twice holds a span  *)
(* twice.                                                                   *)
(***************************************************************************)
EXTENDS Naturals, Sequences, FiniteSets, Functions

CONSTANTS MaxSpans,  \* bound: spans of the trace
          MaxStart   \* bound: latest start

SpanTreeAssumption == MaxSpans \in Nat \ {0} /\ MaxStart \in Nat

Ids   == 1..MaxSpans
Spans == [id : Ids, parent : 0..MaxSpans, start : 0..MaxStart]
Place == [id : Ids, depth : Nat]

VARIABLES
  spans,     \* the answer of the gateway
  next,      \* the span the first loop is at
  nodeMap,   \* the nodes, in the order of their first insertion
  linked,    \* roots and children are known
  roots,     \* nodes without a parent in the map
  stack,     \* what the recursion of flatten still has to visit
  ordered    \* the rows of the waterfall

vars == <<spans, next, nodeMap, linked, roots, stack, ordered>>

TypeOK ==
  /\ spans \in Seq(Spans) /\ Len(spans) <= MaxSpans
  /\ next \in 1..(MaxSpans + 1)
  /\ nodeMap \in Seq(Spans) /\ roots \in Seq(Ids)
  /\ linked \in BOOLEAN
  /\ stack \in Seq(Place) /\ ordered \in Seq(Place)

----------------------------------------------------------------------------
NodeIds  == {nodeMap[k].id : k \in DOMAIN nodeMap}
Pos(i)   == CHOOSE k \in DOMAIN nodeMap : nodeMap[k].id = i
Node(i)  == nodeMap[Pos(i)]
Children(i) == {j \in NodeIds : Node(j).parent = i}

\* Setting a key that is there replaces the value and keeps the place.
Put(s) ==
  IF s.id \in NodeIds THEN [nodeMap EXCEPT ![Pos(s.id)] = s] ELSE Append(nodeMap, s)

Precedes(i, j) == \/ Node(i).start < Node(j).start
                  \/ Node(i).start = Node(j).start /\ Pos(i) < Pos(j)
ByStart(S) ==
  CHOOSE s \in Injection(1..Cardinality(S), S) :
    \A k, l \in DOMAIN s : k < l => Precedes(s[k], s[l])

Roots == {i \in NodeIds : Node(i).parent \notin NodeIds}

At(depth, ids) == [k \in DOMAIN ids |-> [id |-> ids[k], depth |-> depth]]

SetNode ==
  /\ next <= Len(spans)
  /\ nodeMap' = Put(spans[next])
  /\ next' = next + 1
  /\ UNCHANGED <<spans, linked, roots, stack, ordered>>

Link ==
  /\ next > Len(spans) /\ ~linked
  /\ linked' = TRUE
  /\ roots' = ByStart(Roots)
  /\ stack' = At(0, roots')
  /\ UNCHANGED <<spans, next, nodeMap, ordered>>

LevelByLevel ==                        \* mutant: children wait for the level
  LET node == Head(stack)
  IN  /\ stack # <<>>
      /\ ordered' = Append(ordered, node)
      /\ stack' = Tail(stack) \o At(node.depth + 1, ByStart(Children(node.id)))
      /\ UNCHANGED <<spans, next, nodeMap, linked, roots>>

Flatten ==
  LET node == Head(stack)
  IN  /\ stack # <<>>
      /\ ordered' = Append(ordered, node)
      /\ stack' = At(node.depth + 1, ByStart(Children(node.id))) \o Tail(stack)
      /\ UNCHANGED <<spans, next, nodeMap, linked, roots>>

Laid == linked /\ stack = <<>>

\* Ids are numbered in the order they first occur, which loses no case.
Numbered(s) ==
  \A k \in DOMAIN s : \A i \in 1..(s[k].id - 1) : \E l \in 1..(k - 1) : s[l].id = i

Init ==
  /\ \E n \in 0..MaxSpans : spans \in {s \in [1..n -> Spans] : Numbered(s)}
  /\ next = 1 /\ nodeMap = <<>> /\ linked = FALSE
  /\ roots = <<>> /\ stack = <<>> /\ ordered = <<>>

Next == SetNode \/ Link \/ Flatten \/ (Laid /\ UNCHANGED vars)

Spec == Init /\ [][Next]_vars

----------------------------------------------------------------------------
\* The reference: the span with an id is the last one sent, and the ancestors
\* of a node are the least set with its parent and their own parents.
SpanWith(i) == LET ks == {k \in DOMAIN spans : spans[k].id = i}
               IN  spans[CHOOSE k \in ks : \A l \in ks : l <= k]
SpanIds == {spans[k].id : k \in DOMAIN spans}
Up(S)   == {SpanWith(i).parent : i \in S} \cap SpanIds
Ancestors(i) ==
  {j \in SpanIds : \A S \in SUBSET SpanIds : Up({i} \cup S) \subseteq S => j \in S}
Rooted == {i \in SpanIds : \A j \in Ancestors(i) \cup {i} : j \notin Ancestors(j)}

Row(i) == CHOOSE k \in DOMAIN ordered : ordered[k].id = i

\* Every span that is not part of a cycle of parents has exactly one row, with
\* orphans among the roots, and no cycle makes the walk run for ever
\* (Traces.tsx:45-68).
ShownOnce ==
  /\ \A k, l \in DOMAIN ordered : ordered[k].id = ordered[l].id => k = l
  /\ Laid => {ordered[k].id : k \in DOMAIN ordered} = Rooted

\* A row is indented once per ancestor, and lies below its parent with only its
\* own relatives between, so the tree can be read from the rows alone
\* (Traces.tsx:55-66, 144-146).
IndentedUnderParent ==
  Laid => \A k \in DOMAIN ordered :
    LET i == ordered[k].id
        p == SpanWith(i).parent
    IN  /\ ordered[k].depth = Cardinality(Ancestors(i))
        /\ p \in SpanIds => /\ Row(p) < k
                            /\ \A l \in Row(p)..k : l # Row(p) => p \in Ancestors(ordered[l].id)

\* Rows with the same parent are sorted by their start.
SiblingsByStart ==
  Laid => \A k, l \in DOMAIN ordered :
    (k < l /\ Up({ordered[k].id}) = Up({ordered[l].id}))
      => SpanWith(ordered[k].id).start <= SpanWith(ordered[l].id).start
=============================================================================
