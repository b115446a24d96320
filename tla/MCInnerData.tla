---------------------------- MODULE MCInnerData ----------------------------
(***************************************************************************)
(* InnerData with data of three levels, of every kind on every level, and  *)
(* arrays longer than a byte can count.                                    *)
(***************************************************************************)
EXTENDS InnerData

CONSTANTS a, b, c

Leaf(x)  == [kind |-> "leaf", kids |-> <<>>, name |-> x]
Arr(s)   == [kind |-> "array", kids |-> s, name |-> a]
Map(s)   == [kind |-> "map", kids |-> s, name |-> a]

Wide(n) == Arr([i \in 1..n |-> Leaf(b)])

\* A map of a map and an array with a map in it; a name is a leaf.
Deep == Map(<<Leaf(a), Map(<<Leaf(a), Leaf(b), Leaf(b), Arr(<<Leaf(c), Leaf(a)>>)>>),
              Leaf(b), Arr(<<Leaf(b), Map(<<Leaf(c), Leaf(a)>>), Leaf(c)>>)>>)

Long == Map(<<Leaf(a), Leaf(b), Leaf(b), Wide(256), Leaf(c), Wide(257)>>)

Flat == Map(<<Leaf(c), Leaf(c)>>)

\* A datum and all that is in it.
RECURSIVE Within(_)
Within(d) == {d} \cup UNION {Within(d.kids[i]) : i \in DOMAIN d.kids}

Data == UNION {Within(d) : d \in {Deep, Long, Flat, Arr(<<Leaf(a)>>)}}

T(m, n, d) == [method |-> m, tokens |-> n, data |-> d]

Transactions ==
  {T("call", 1, Deep), T("call", 0, Flat), T("instantiate", 2, Long),
   T("upgrade", 0, Deep), T("upgrade", 2, Long), T("call", 1, Arr(<<Leaf(a)>>)),
   T("instantiate", 0, NoData), T("other", 0, NoData)}
=============================================================================
