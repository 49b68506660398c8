------------------------------ MODULE Subgraphs ------------------------------
(***************************************************************************)
(* How the healer cuts the graph of foreign keys into subgraphs: an        *)
(* iterative walk finds the strongly connected components, and a component *)
(* with too many tables loses its last edge and is walked again, until     *)
(* every part is small enough.                                             *)
(***************************************************************************)
EXTENDS Naturals, FiniteSets, Sequences, SequencesExt

CONSTANTS
  N,        (* the tables are 1 .. N *)
  Keys,     (* sequences of foreign keys, pairs of a table and its parent *)
  MaxSize   (* tables a subgraph may have *)

VARIABLES
  edges,    (* the foreign keys in their order *)
  whole,    (* the walk is of the whole graph *)
  nodes,    (* the tables of the walk, in order *)
  left,     (* edges of the walk *)
  index,    (* number of a node that was started, 0 for the others *)
  lowlink,  (* the smallest number it reaches *)
  stack,    (* nodes of open components *)
  work,     (* the walk: a node and how many successors it has seen *)
  found,    (* components of the walk *)
  waiting,  (* components of the whole graph still to be examined *)
  parts,    (* subgraphs *)
  broken    (* edges that were removed *)

walk == <<nodes, left, index, lowlink, stack, work, found>>
vars == <<edges, whole, walk, waiting, parts, broken>>

Tables == 1 .. N
Unseen == [n \in Tables |-> 0]
Numbered == Cardinality({n \in Tables : index[n] # 0})

Successors(n) ==
  LET own == SelectSeq(left, LAMBDA e : e[1] = n)
  IN  [i \in 1 .. Len(own) |-> own[i][2]]

Smaller(a, b) == IF a <= b THEN a ELSE b

Init ==
  /\ edges \in Keys
  /\ whole = TRUE /\ nodes = [n \in 1 .. N |-> n] /\ left = edges
  /\ index = Unseen /\ lowlink = Unseen
  /\ stack = <<>> /\ work = <<>> /\ found = <<>>
  /\ waiting = <<>> /\ parts = <<>> /\ broken = <<>>

\* A node enters the walk w with the next number.
Start(n, w) ==
  /\ work' = Append(w, <<n, 0>>)
  /\ index' = [index EXCEPT ![n] = Numbered + 1]
  /\ lowlink' = [lowlink EXCEPT ![n] = Numbered + 1]
  /\ stack' = Append(stack, n)

NextRoot ==
  /\ work = <<>>
  /\ \E i \in 1 .. Len(nodes) :
       /\ index[nodes[i]] = 0 /\ \A j \in 1 .. i - 1 : index[nodes[j]] # 0
       /\ Start(nodes[i], <<>>)
  /\ UNCHANGED <<edges, whole, nodes, left, found, waiting, parts, broken>>

\* A mistake: an edge into a closed component counts.
EverSeen(n) == TRUE
OnStack(n) == Contains(stack, n)

VisitSuccessor ==
  /\ work # <<>>
  /\ LET n == Last(work)[1]
         i == Last(work)[2] + 1
     IN  /\ i <= Len(Successors(n))
         /\ LET s == Successors(n)[i]
                w == Append(Front(work), <<n, i>>)
            IN  \/ index[s] = 0 /\ Start(s, w)
                \/ /\ index[s] # 0
                   /\ work' = w
                   /\ lowlink' = IF OnStack(s) THEN [lowlink EXCEPT ![n] = Smaller(@, index[s])] ELSE lowlink
                   /\ UNCHANGED <<index, stack>>
  /\ UNCHANGED <<edges, whole, nodes, left, found, waiting, parts, broken>>

\* The parent in the walk reaches what its child reached.
ToldParent(n) ==
  IF Len(work) = 1 THEN lowlink
  ELSE [lowlink EXCEPT ![work[Len(work) - 1][1]] = Smaller(@, lowlink[n])]

\* A node that reaches nothing older closes its component.
FinishNode ==
  /\ work # <<>>
  /\ LET n == Last(work)[1]
         at == SelectInSeq(stack, LAMBDA m : m = n)
     IN  /\ Last(work)[2] = Len(Successors(n))
         /\ work' = Front(work)
         /\ lowlink' = ToldParent(n)
         /\ IF lowlink[n] = index[n]
            THEN found' = Append(found, Reverse(SubSeq(stack, at, Len(stack)))) /\ stack' = SubSeq(stack, 1, at - 1)
            ELSE UNCHANGED <<found, stack>>
  /\ UNCHANGED <<edges, whole, nodes, left, index, waiting, parts, broken>>

Walked == work = <<>> /\ \A i \in 1 .. Len(nodes) : index[nodes[i]] # 0
Done == Walked /\ nodes = <<>>

Walk(ns, es) ==
  /\ nodes' = ns /\ left' = es
  /\ index' = Unseen /\ lowlink' = Unseen
  /\ stack' = <<>> /\ work' = <<>> /\ found' = <<>>

Small(p) == Len(p) <= MaxSize

\* The edges of a component, by source in the component's order.
InnerEdges(p) ==
  FlattenSeq([i \in 1 .. Len(p) |->
    SelectSeq(edges, LAMBDA e : e[1] = p[i] /\ e[2] # p[i] /\ Contains(p, e[2]))])

\* Components that fit are subgraphs; the first that does not is walked alone.
Examine(components, before) ==
  LET big == {i \in 1 .. Len(components) : ~Small(components[i])}
  IN  IF big = {}
      THEN parts' = before \o components /\ waiting' = <<>> /\ Walk(<<>>, <<>>)
      ELSE LET i == CHOOSE j \in big : \A k \in big : j <= k
           IN  /\ parts' = before \o SubSeq(components, 1, i - 1)
               /\ waiting' = SubSeq(components, i + 1, Len(components))
               /\ Walk(components[i], InnerEdges(components[i]))

AllSmall(s) == \A i \in 1 .. Len(s) : Small(s[i])

Split ==
  /\ Walked /\ whole
  /\ whole' = FALSE /\ Examine(found, <<>>) /\ UNCHANGED <<edges, broken>>

\* The parts of a large component, or one more edge goes.
Break ==
  /\ Walked /\ ~whole /\ nodes # <<>>
  /\ \/ AllSmall(found) /\ Examine(waiting, parts \o found) /\ UNCHANGED broken
     \/ /\ ~AllSmall(found)
        /\ broken' = Append(broken, Last(left)) /\ Walk(nodes, Front(left))
        /\ UNCHANGED <<waiting, parts>>
  /\ UNCHANGED <<edges, whole>>

Next == NextRoot \/ VisitSuccessor \/ FinishNode \/ Split \/ Break
Spec == Init /\ [][Next]_vars

-----------------------------------------------------------------------------
SplitTypeOK ==
  /\ whole \in BOOLEAN /\ nodes \in Seq(Tables) /\ stack \in Seq(Tables)
  /\ index \in [Tables -> 0 .. N] /\ lowlink \in [Tables -> 0 .. N]
  /\ \A i \in 1 .. Len(work) : work[i] \in Tables \X (0 .. N)

\* Reference: the pairs of tables a path of the walk's edges connects.
Connected ==
  LET step(R) == R \cup {<<a, b>> \in Tables \X Tables : \E c \in Tables : <<a, c>> \in R /\ <<c, b>> \in R}
      grow[n \in 0 .. N] == IF n = 0 THEN {<<a, a>> : a \in Tables} \cup Range(left) ELSE step(grow[n - 1])
  IN  grow[N]

\* A walk finds exactly the strongly connected components of its edges, each
\* table once.
ComponentsAreExact ==
  Walked =>
    LET paths == Connected
        together(a) == {b \in Range(nodes) : <<a, b>> \in paths /\ <<b, a>> \in paths}
    IN  /\ {Range(found[i]) : i \in 1 .. Len(found)} = {together(a) : a \in Range(nodes)}
        /\ Len(FlattenSeq(found)) = Len(nodes)

\* The subgraphs hold every table once and none is too large; a table comes
\* after the tables it refers to, except over an edge that was reported as
\* broken or inside its own subgraph.
SubgraphsAreUsable ==
  Done =>
    LET at(t) == CHOOSE i \in 1 .. Len(parts) : Contains(parts[i], t)
    IN  /\ Range(FlattenSeq(parts)) = Tables /\ Len(FlattenSeq(parts)) = N
        /\ \A i \in 1 .. Len(parts) : Len(parts[i]) <= MaxSize
        /\ \A e \in Range(edges) : at(e[2]) <= at(e[1]) \/ Contains(broken, e)
=============================================================================
