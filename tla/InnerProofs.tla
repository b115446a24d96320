---------------------------- MODULE InnerProofs ----------------------------
(***************************************************************************)
(* InnerData shows the entries of the data, for data of any depth and for  *)
(* any traces through it.  A trace is followed by induction over its       *)
(* length: the set of the positions up to which two walks agree holds each *)
(* of them, as one that it did not hold would have a least.                *)
(***************************************************************************)
EXTENDS InnerData, SequenceTheorems, WellFoundedInduction, TLAPS

-----------------------------------------------------------------------------
(* Positions.                                                              *)

Less == {ss \in Nat \X Nat : ss[1] < ss[2]}

\* A set of naturals that is not empty has a least element.
LEMMA LeastExists ==
  ASSUME NEW S, S \subseteq Nat, S # {}
  PROVE  \E n \in S : \A m \in S : n <= m
<1>0. IsWellFoundedOn(Less, Nat)
  BY NatLessThanWellFounded DEF OpToRel, Less
<1>1. PICK n \in S : \A m \in S : ~(<<m, n>> \in Less)
  BY <1>0, WFMin
<1>2. ASSUME NEW m \in S PROVE n <= m
  <2>1. m \in Nat /\ n \in Nat
    OBVIOUS
  <2>2. m < n => <<m, n>> \in Less
    BY <2>1 DEF Less
  <2> QED BY <1>1, <2>1, <2>2
<1> QED BY <1>2

\* A set that holds 0, and with a position the next, holds all up to the last.
LEMMA UpTo ==
  ASSUME NEW n \in Nat, NEW S, 0 \in S,
         \A k \in 0..n : k + 1 \in 0..n /\ k \in S => k + 1 \in S
  PROVE  \A k \in 0..n : k \in S
<1> DEFINE Left == {k \in 0..n : k \notin S}
<1>1. SUFFICES ASSUME Left # {} PROVE FALSE
  OBVIOUS
<1>2. PICK m \in Left : \A k \in Left : m <= k
  <2>1. Left \subseteq Nat
    OBVIOUS
  <2> HIDE DEF Left
  <2> QED BY ONLY <1>1, <2>1, LeastExists
<1>3. m \in Nat /\ m # 0 /\ m <= n /\ m \notin S
  BY <1>2
<1>4. m - 1 \in 0..n /\ m - 1 \notin Left
  <2>1. m - 1 \in 0..n /\ ~(m <= m - 1)
    BY <1>3
  <2> QED BY ONLY <1>2, <2>1
<1>5. m - 1 \in S
  BY <1>4
<1>6. (m - 1) + 1 \in 0..n /\ (m - 1) + 1 = m
  BY <1>3
<1> QED BY <1>3, <1>4, <1>5, <1>6

-----------------------------------------------------------------------------
(* The entries of a container.                                             *)

Containers == {n \in Datum : n.kind # "leaf"}

\* The value of the entry i, which is what a trace goes down to.
Value(n, i) == Last(Entries(n)[i + 1])

LEMMA ContainerKids ==
  ASSUME NEW n \in Containers
  PROVE  /\ n \in Datum
         /\ n.kind = "map" \/ n.kind = "array"
         /\ n.kids \in Seq(Datum)
         /\ Len(n.kids) \in Nat
<1>1. n \in Datum /\ n.kind # "leaf"
  BY DEF Containers
<1>2. n.kind \in {"leaf", "array", "map"} /\ n.kids \in Seq(Datum)
  BY <1>1, DataAssumption
<1>3. Len(n.kids) \in Nat
  BY <1>2
<1>4. n.kind = "map" \/ n.kind = "array"
  BY <1>1, <1>2
<1> QED BY <1>1, <1>2, <1>3, <1>4

\* A map has an even number of kids, half as many entries.
LEMMA MapHas ==
  ASSUME NEW n \in Containers, n.kind = "map"
  PROVE  /\ Stride(n.kind) = 2
         /\ Length(n) \in Nat
         /\ Len(n.kids) = 2 * Length(n)
<1>1. Len(n.kids) \in Nat /\ n \in Datum
  BY ContainerKids
<1>2. Len(n.kids) % 2 = 0
  BY <1>1, DataAssumption
<1>3. Length(n) = Len(n.kids) \div 2 /\ Stride(n.kind) = 2
  BY DEF Stride, Length
<1>4. \A k \in Nat : k % 2 = 0 => (k \div 2) \in Nat /\ k = 2 * (k \div 2)
  OBVIOUS
<1> QED BY <1>1, <1>2, <1>3, <1>4

LEMMA ArrayHas ==
  ASSUME NEW n \in Containers, n.kind = "array"
  PROVE  /\ Stride(n.kind) = 1
         /\ Length(n) \in Nat
         /\ Len(n.kids) = Length(n)
<1>1. Len(n.kids) \in Nat
  BY ContainerKids
<1>2. Length(n) = Len(n.kids) \div 1 /\ Stride(n.kind) = 1
  <2>1. Stride(n.kind) = 1
    BY DEF Stride
  <2> QED BY <2>1 DEF Length
<1>3. \A k \in Nat : k \div 1 = k
  OBVIOUS
<1> QED BY <1>1, <1>2, <1>3

LEMMA AdvancedIs ==
  ASSUME NEW s \in Seq(Datum), NEW i \in Nat
  PROVE  /\ Advanced(s, i) \in Seq(Datum)
         /\ Len(Advanced(s, i)) = IF i < Len(s) THEN Len(s) - i ELSE 0
         /\ \A k \in 1..(Len(s) - i) : Advanced(s, i)[k] = s[i + k]
         /\ Advanced(s, i) # <<>> <=> i < Len(s)
         /\ i < Len(s) => Head(Advanced(s, i)) = s[i + 1] /\ s[i + 1] \in Datum
<1>1. Len(s) \in Nat
  OBVIOUS
<1>2. \A k \in (i + 1)..Len(s) : s[k] \in Datum
  BY <1>1, ElementOfSeq
<1>3. /\ Advanced(s, i) \in Seq(Datum)
      /\ Len(Advanced(s, i)) = IF i + 1 <= Len(s) THEN Len(s) - (i + 1) + 1 ELSE 0
      /\ \A k \in 1..(Len(s) - (i + 1) + 1) : Advanced(s, i)[k] = s[(i + 1) + k - 1]
  BY ONLY <1>1, <1>2, i \in Nat, SubSeqProperties DEF Advanced
<1>4. Len(Advanced(s, i)) = IF i < Len(s) THEN Len(s) - i ELSE 0
  BY <1>1, <1>3
<1>5. ASSUME NEW k \in 1..(Len(s) - i) PROVE Advanced(s, i)[k] = s[i + k]
  <2>1. k \in 1..(Len(s) - (i + 1) + 1) /\ (i + 1) + k - 1 = i + k
    BY <1>1
  <2> QED BY <1>3, <2>1
<1>6. Advanced(s, i) # <<>> <=> i < Len(s)
  BY <1>1, <1>3, <1>4, EmptySeq
<1>7. ASSUME i < Len(s)
      PROVE  Head(Advanced(s, i)) = s[i + 1] /\ s[i + 1] \in Datum
  <2>1. Head(Advanced(s, i)) = Advanced(s, i)[1]
    BY <1>3, <1>6, <1>7
  <2>2. 1 \in 1..(Len(s) - i) /\ i + 1 \in 1..Len(s)
    BY <1>1, <1>7
  <2> QED BY <1>5, <2>1, <2>2, ElementOfSeq
<1> QED BY <1>3, <1>4, <1>5, <1>6, <1>7

\* The entry i of a container: one in an array, a name and a value in a map.
LEMMA MapEntry ==
  ASSUME NEW n \in Containers, n.kind = "map", NEW i \in Nat, i < Length(n)
  PROVE  /\ Entries(n)[i + 1] = <<n.kids[2 * i + 1], n.kids[2 * i + 2]>>
         /\ Value(n, i) = n.kids[2 * i + 2]
<1>1. i + 1 \in 1..Length(n)
  BY MapHas
<1>2. Entries(n)[i + 1] = <<n.kids[2 * (i + 1) - 1], n.kids[2 * (i + 1)]>>
  BY <1>1 DEF Entries
<1>3. 2 * (i + 1) - 1 = 2 * i + 1 /\ 2 * (i + 1) = 2 * i + 2
  OBVIOUS
<1>4. Entries(n)[i + 1] = <<n.kids[2 * i + 1], n.kids[2 * i + 2]>>
  BY <1>2, <1>3
<1> QED BY <1>4 DEF Value, Last

LEMMA ArrayEntry ==
  ASSUME NEW n \in Containers, n.kind = "array", NEW i \in Nat, i < Length(n)
  PROVE  /\ Entries(n)[i + 1] = <<n.kids[i + 1]>>
         /\ Value(n, i) = n.kids[i + 1]
<1>1. i + 1 \in 1..Length(n)
  BY ArrayHas
<1>2. Entries(n)[i + 1] = <<n.kids[i + 1]>>
  BY <1>1 DEF Entries
<1> QED BY <1>2 DEF Value, Last

\* The iterator that has skipped i entries, and in a map a name, stands at the
\* value of the entry i, and at the end when there is none.
LEMMA ValueIs ==
  ASSUME NEW n \in Containers, NEW i \in Nat
  PROVE  LET rest == Advanced(n.kids, Stride(n.kind) * i + Stride(n.kind) - 1) IN
         /\ rest # <<>> <=> i < Length(n)
         /\ i < Length(n) => /\ Head(rest) = Value(n, i)
                             /\ rest[1] = Value(n, i)
                             /\ Value(n, i) \in Datum
<1>1. ASSUME NEW at \in Nat, at < Len(n.kids) <=> i < Length(n),
             i < Length(n) => Value(n, i) = n.kids[at + 1]
      PROVE  LET rest == Advanced(n.kids, at) IN
             /\ rest # <<>> <=> i < Length(n)
             /\ i < Length(n) => /\ Head(rest) = Value(n, i)
                                 /\ rest[1] = Value(n, i)
                                 /\ Value(n, i) \in Datum
  <2>1. n.kids \in Seq(Datum) /\ Len(n.kids) \in Nat
    BY ContainerKids
  <2>2. at < Len(n.kids) => 1 \in 1..(Len(n.kids) - at)
    BY <2>1
  <2>3. at < Len(n.kids) => Advanced(n.kids, at)[1] = n.kids[at + 1]
    BY <2>1, <2>2, AdvancedIs
  <2> QED BY <1>1, <2>1, <2>3, AdvancedIs
<1>2. CASE n.kind = "map"
  <2>1. Stride(n.kind) * i + Stride(n.kind) - 1 = 2 * i + 1
    BY <1>2, MapHas
  <2>2. 2 * i + 1 \in Nat /\ (2 * i + 1) + 1 = 2 * i + 2
    OBVIOUS
  <2>3. 2 * i + 1 < Len(n.kids) <=> i < Length(n)
    BY <1>2, MapHas
  <2>4. i < Length(n) => Value(n, i) = n.kids[(2 * i + 1) + 1]
    BY <1>2, <2>2, MapEntry
  <2> QED BY <1>1, <2>1, <2>2, <2>3, <2>4
<1>3. CASE n.kind = "array"
  <2>1. Stride(n.kind) * i + Stride(n.kind) - 1 = i
    BY <1>3, ArrayHas
  <2>2. i < Len(n.kids) <=> i < Length(n)
    BY <1>3, ArrayHas
  <2>3. i < Length(n) => Value(n, i) = n.kids[i + 1]
    BY <1>3, ArrayEntry
  <2> QED BY <1>1, <2>1, <2>2, <2>3
<1> QED BY <1>2, <1>3, ContainerKids

-----------------------------------------------------------------------------
(* Walks along a trace.                                                    *)

\* Functions that start equal, and stay so from each position to the next, agree.
LEMMA SameWalk ==
  ASSUME NEW n \in Nat, NEW f, NEW g, f[0] = g[0],
         \A k \in 1..n : f[k - 1] = g[k - 1] => f[k] = g[k]
  PROVE  \A k \in 0..n : f[k] = g[k]
<1> DEFINE Same == {k \in 0..n : f[k] = g[k]}
<1>1. 0 \in Same
  OBVIOUS
<1>2. ASSUME NEW k \in 0..n, k + 1 \in 0..n, k \in Same PROVE k + 1 \in Same
  <2>1. k + 1 \in 1..n /\ (k + 1) - 1 = k
    BY <1>2
  <2>2. f[(k + 1) - 1] = g[(k + 1) - 1]
    BY <1>2, <2>1
  <2> QED BY <1>2, <2>1, <2>2
<1>3. \A k \in 0..n : k \in Same
  <2> HIDE DEF Same
  <2> QED BY ONLY <1>1, <1>2, UpTo, n \in Nat
<1> QED BY <1>3

\* f passes the containers of d that the trace t goes through.
Path(d, t, f) ==
  /\ f \in [0..Len(t) -> Containers]
  /\ f[0] = d
  /\ \A k \in 1..Len(t) : t[k] < Length(f[k - 1]) /\ f[k] = Value(f[k - 1], t[k])

\* The trace t leads from d to a container.
Leads(d, t) == \E f : Path(d, t, f)

\* Below, for any data.
BelowOf(d, t) ==
  LET below[k \in 0..Len(t)] ==
        IF k = 0 THEN d ELSE Last(Entries(below[k - 1])[t[k] + 1])
  IN below[Len(t)]

Traces == Seq(Index)

LEMMA TraceHas ==
  ASSUME NEW t \in Traces
  PROVE  Len(t) \in Nat /\ \A k \in 1..Len(t) : t[k] \in Index /\ t[k] \in 0..255
<1>1. Len(t) \in Nat /\ \A k \in 1..Len(t) : t[k] \in Index
  BY ElementOfSeq DEF Traces
<1>2. Index \subseteq 0..255
  BY InnerAssumption
<1> QED BY ONLY <1>1, <1>2

LEMMA PathEnds ==
  ASSUME NEW d, NEW t \in Traces, NEW f, Path(d, t, f)
  PROVE  BelowOf(d, t) = f[Len(t)] /\ BelowOf(d, t) \in Containers
<1> DEFINE Walks(g) ==
             g = [k \in 0..Len(t) |->
                    IF k = 0 THEN d ELSE Last(Entries(g[k - 1])[t[k] + 1])]
           below == CHOOSE g : Walks(g)
<1>0. Len(t) \in Nat
  BY TraceHas
<1>1. ASSUME NEW k \in 0..Len(t)
      PROVE  f[k] = IF k = 0 THEN d ELSE Last(Entries(f[k - 1])[t[k] + 1])
  <2>1. k # 0 => k \in 1..Len(t)
    BY ONLY <1>0
  <2>2. f[0] = d /\ \A j \in 1..Len(t) : f[j] = Value(f[j - 1], t[j])
    BY DEF Path
  <2> QED BY ONLY <2>1, <2>2 DEF Value
<1>2. Walks(below)
  <2>1. f \in [0..Len(t) -> Containers]
    BY DEF Path
  <2>2. f = [k \in 0..Len(t) |-> f[k]]
    BY ONLY <2>1
  <2>3. Walks(f)
    BY ONLY <1>1, <2>2
  <2> HIDE DEF Walks
  <2> QED BY ONLY <2>3
<1>3. \A k \in 0..Len(t) : f[k] = below[k]
  <2>1. \A k \in 0..Len(t) :
          below[k] = IF k = 0 THEN d ELSE Last(Entries(below[k - 1])[t[k] + 1])
    <3> HIDE DEF below
    <3> QED BY ONLY <1>2
  <2> HIDE DEF below, Walks
  <2>2. f[0] = below[0]
    <3>1. 0 \in 0..Len(t)
      BY ONLY <1>0
    <3> QED BY ONLY <1>1, <2>1, <3>1
  <2>3. ASSUME NEW k \in 1..Len(t), f[k - 1] = below[k - 1] PROVE f[k] = below[k]
    <3>1. k \in 0..Len(t) /\ k # 0
      BY ONLY <1>0
    <3>2. f[k] = Last(Entries(f[k - 1])[t[k] + 1])
      BY ONLY <1>1, <3>1
    <3>3. below[k] = Last(Entries(below[k - 1])[t[k] + 1])
      BY ONLY <2>1, <3>1
    <3> QED BY ONLY <2>3, <3>2, <3>3
  <2> QED BY ONLY <1>0, <2>2, <2>3, SameWalk
<1>4. BelowOf(d, t) = below[Len(t)]
  BY DEF BelowOf
<1>5. Len(t) \in 0..Len(t)
  BY <1>0
<1>6. f[Len(t)] \in Containers
  BY <1>5 DEF Path
<1> QED BY <1>3, <1>4, <1>5, <1>6

\* A trace within the data is followed up and down.
LEMMA LeadsDown ==
  ASSUME NEW d, NEW t \in Traces, Leads(d, t), NEW i \in Index,
         i < Length(BelowOf(d, t)), Value(BelowOf(d, t), i) \in Containers
  PROVE  Leads(d, Append(t, i))
<1>1. PICK f : Path(d, t, f)
  BY DEF Leads
<1> DEFINE n == Len(t)
           u == Append(t, i)
           g == [k \in 0..n + 1 |-> IF k <= n THEN f[k] ELSE Value(f[n], i)]
<1>2. n \in Nat /\ BelowOf(d, t) = f[n]
  BY <1>1, PathEnds, TraceHas
<1>3. /\ Len(u) = n + 1
      /\ \A k \in 1..n : u[k] = t[k]
      /\ u[n + 1] = i
  BY AppendProperties DEF Traces
<1>4. g \in [0..Len(u) -> Containers]
  <2>1. ASSUME NEW k \in 0..n + 1 PROVE g[k] \in Containers
    <3>1. k <= n => k \in 0..n
      BY <1>2
    <3>2. k <= n => f[k] \in Containers
      BY <1>1, <3>1 DEF Path
    <3>3. Value(f[n], i) \in Containers
      BY <1>2
    <3> QED BY <3>2, <3>3
  <2>2. g \in [0..n + 1 -> Containers]
    BY <2>1
  <2> QED BY <1>3, <2>2
<1>5. g[0] = d
  <2>1. 0 \in 0..n + 1 /\ 0 <= n
    BY <1>2
  <2> QED BY <1>1, <2>1 DEF Path
<1>6. ASSUME NEW k \in 1..Len(u)
      PROVE  u[k] < Length(g[k - 1]) /\ g[k] = Value(g[k - 1], u[k])
  <2>1. k \in 0..n + 1 /\ k - 1 \in 0..n + 1 /\ k - 1 <= n
    BY <1>2, <1>3
  <2>2. g[k - 1] = f[k - 1]
    BY <2>1
  <2>3. CASE k <= n
    <3>1. k \in 1..n
      BY <2>1, <2>3
    <3>2. g[k] = f[k]
      BY <2>1, <2>3
    <3>3. t[k] < Length(f[k - 1]) /\ f[k] = Value(f[k - 1], t[k])
      BY <1>1, <3>1 DEF Path
    <3>4. u[k] = t[k]
      BY <1>3, <3>1
    <3> QED BY ONLY <2>2, <3>2, <3>3, <3>4
  <2>4. CASE ~(k <= n)
    <3>1. k = n + 1 /\ k - 1 = n
      BY <1>2, <2>1, <2>4
    <3>2. g[k] = Value(f[n], i)
      BY <2>1, <2>4
    <3>3. u[k] = i
      BY <1>3, <3>1
    <3>4. i < Length(f[n])
      BY <1>2
    <3>5. g[k - 1] = f[n]
      BY <2>2, <3>1
    <3> QED BY ONLY <3>2, <3>3, <3>4, <3>5
  <2> QED BY <2>3, <2>4
<1>7. Path(d, u, g)
  <2> HIDE DEF g, u
  <2> QED BY ONLY <1>4, <1>5, <1>6 DEF Path
<1> QED BY <1>7 DEF Leads

LEMMA LeadsUp ==
  ASSUME NEW d, NEW t \in Traces, Leads(d, t), t # <<>>
  PROVE  Leads(d, Front(t)) /\ Front(t) \in Traces /\ Len(Front(t)) < Len(t)
<1>1. PICK f : Path(d, t, f)
  BY DEF Leads
<1> DEFINE n == Len(t)
           u == Front(t)
           g == [k \in 0..n - 1 |-> f[k]]
<1>2. n \in Nat /\ n > 0
  <2>1. t \in Seq(Index)
    BY DEF Traces
  <2> QED BY <2>1, EmptySeq
<1>3. /\ u \in Traces
      /\ Len(u) = n - 1
      /\ \A k \in 1..n - 1 : u[k] = t[k]
  <2>1. \A k \in 1..n - 1 : t[k] \in Index
    BY <1>2, TraceHas
  <2>2. /\ u \in Seq(Index)
        /\ Len(u) = IF 1 <= n - 1 THEN (n - 1) - 1 + 1 ELSE 0
        /\ \A k \in 1..(n - 1) - 1 + 1 : u[k] = t[1 + k - 1]
    BY ONLY <1>2, <2>1, SubSeqProperties DEF Front
  <2>3. \A k \in 1..n - 1 : k \in 1..(n - 1) - 1 + 1 /\ 1 + k - 1 = k
    BY <1>2
  <2>4. Len(u) = n - 1
    <3> HIDE DEF n, u
    <3> QED BY ONLY <1>2, <2>2
  <2> QED BY <2>2, <2>3, <2>4 DEF Traces
<1>4. g \in [0..Len(u) -> Containers]
  <2>1. \A k \in 0..n - 1 : k \in 0..n
    BY <1>2
  <2>2. \A k \in 0..n - 1 : f[k] \in Containers
    BY <1>1, <2>1 DEF Path
  <2> QED BY <1>3, <2>2
<1>5. g[0] = d
  <2>1. 0 \in 0..n - 1
    BY <1>2
  <2> QED BY <1>1, <2>1 DEF Path
<1>6. ASSUME NEW k \in 1..Len(u)
      PROVE  u[k] < Length(g[k - 1]) /\ g[k] = Value(g[k - 1], u[k])
  <2>1. k \in 0..n - 1 /\ k - 1 \in 0..n - 1 /\ k \in 1..n /\ k \in 1..n - 1
    BY <1>2, <1>3
  <2>2. g[k - 1] = f[k - 1] /\ g[k] = f[k] /\ u[k] = t[k]
    BY <1>3, <2>1
  <2>3. t[k] < Length(f[k - 1]) /\ f[k] = Value(f[k - 1], t[k])
    BY <1>1, <2>1 DEF Path
  <2> QED BY ONLY <2>2, <2>3
<1>7. Path(d, u, g)
  <2> HIDE DEF g, u
  <2> QED BY ONLY <1>4, <1>5, <1>6 DEF Path
<1> QED BY <1>2, <1>3, <1>7 DEF Leads

\* parser_getInnerField finds the container that the trace leads to, and knows its
\* length, but for that of the data, which is what was counted before.
LEMMA LevelIs ==
  ASSUME NEW t \in Traces, DataValid(tx), Leads(tx.data, t)
  PROVE  parser_getInnerField(t) =
           [at   |-> BelowOf(tx.data, t).kids,
            type |-> BelowOf(tx.data, t).kind,
            cnt  |-> IF t = <<>> THEN base_level_item_cnt
                     ELSE Length(BelowOf(tx.data, t))]
<1>1. PICK f : Path(tx.data, t, f)
  BY DEF Leads
<1> DEFINE Level(n, c) == [at |-> n.kids, type |-> n.kind, cnt |-> c]
           base == Level(tx.data, base_level_item_cnt)
           h == [k \in 0..Len(t) |-> IF k = 0 THEN base ELSE Level(f[k], Length(f[k]))]
           Walks(g) ==
             g = [k \in 0..Len(t) |->
                    IF k = 0
                    THEN [at |-> tx.data.kids, type |-> "map", cnt |-> base_level_item_cnt]
                    ELSE Followed(g[k - 1], t[k])]
           level == CHOOSE g : Walks(g)
<1>0. Len(t) \in Nat /\ 0 \in 0..Len(t) /\ Len(t) \in 0..Len(t)
  BY TraceHas
<1>2. ASSUME NEW n \in Containers, NEW i \in Nat, i < Length(n), NEW c
      PROVE  Followed(Level(n, c), i) = Level(Value(n, i), Length(Value(n, i)))
  <2>1. Head(Advanced(n.kids, Stride(n.kind) * i + Stride(n.kind) - 1)) = Value(n, i)
    BY <1>2, ValueIs
  <2>2. Level(n, c).at = n.kids /\ Level(n, c).type = n.kind
    OBVIOUS
  <2> HIDE DEF Level
  <2>3. Followed(Level(n, c), i) =
          LET item == Head(Advanced(n.kids, Stride(n.kind) * i + Stride(n.kind) - 1))
          IN [at |-> item.kids, type |-> item.kind, cnt |-> Length(item)]
    BY <2>2 DEF Followed
  <2>4. Followed(Level(n, c), i) =
          [at   |-> Value(n, i).kids,
           type |-> Value(n, i).kind,
           cnt  |-> Length(Value(n, i))]
    BY <2>1, <2>3
  <2> QED BY <2>4 DEF Level
<1>3. ASSUME NEW k \in 1..Len(t)
      PROVE  /\ f[k - 1] \in Containers
             /\ t[k] \in Nat
             /\ t[k] < Length(f[k - 1])
             /\ f[k] = Value(f[k - 1], t[k])
             /\ \E c : h[k - 1] = Level(f[k - 1], c)
             /\ h[k] = Level(f[k], Length(f[k]))
  <2>1. k \in 0..Len(t) /\ k - 1 \in 0..Len(t) /\ k # 0
    BY <1>0
  <2>2. /\ f[k - 1] \in Containers
        /\ t[k] < Length(f[k - 1])
        /\ f[k] = Value(f[k - 1], t[k])
    BY <1>1, <2>1 DEF Path
  <2>3. t[k] \in Nat
    <3>1. t[k] \in 0..255
      BY ONLY TraceHas, t \in Traces, k \in 1..Len(t)
    <3>2. 0..255 \subseteq Nat
      OBVIOUS
    <3> QED BY ONLY <3>1, <3>2
  <2>4. \E c : h[k - 1] = Level(f[k - 1], c)
    <3>1. CASE k - 1 = 0
      <4>1. h[k - 1] = Level(f[k - 1], base_level_item_cnt)
        BY <1>0, <1>1, <3>1 DEF Path
      <4> HIDE DEF h, Level
      <4> QED BY <4>1
    <3>2. CASE k - 1 # 0
      <4>1. h[k - 1] = Level(f[k - 1], Length(f[k - 1]))
        BY <2>1, <3>2
      <4> HIDE DEF h, Level
      <4> QED BY <4>1
    <3> QED BY <3>1, <3>2
  <2>5. h[k] = Level(f[k], Length(f[k]))
    BY <2>1
  <2> QED BY <2>2, <2>3, <2>4, <2>5
<1>4. tx.data.kind = "map" /\ h[0] = base
  BY <1>0 DEF DataValid
<1>5. ASSUME NEW k \in 1..Len(t) PROVE h[k] = Followed(h[k - 1], t[k])
  <2>1. PICK c : h[k - 1] = Level(f[k - 1], c)
    BY <1>3
  <2> HIDE DEF h, Level
  <2>2. Followed(Level(f[k - 1], c), t[k]) = Level(f[k], Length(f[k]))
    BY <1>2, <1>3
  <2> QED BY <1>3, <2>1, <2>2
<1>6. Walks(h)
  <2>1. ASSUME NEW k \in 0..Len(t)
        PROVE  h[k] = IF k = 0
                      THEN [at |-> tx.data.kids, type |-> "map", cnt |-> base_level_item_cnt]
                      ELSE Followed(h[k - 1], t[k])
    <3>1. k # 0 => k \in 1..Len(t)
      BY <1>0
    <3>2. base = [at |-> tx.data.kids, type |-> "map", cnt |-> base_level_item_cnt]
      BY <1>4
    <3> HIDE DEF h, base
    <3> QED BY <1>4, <1>5, <3>1, <3>2
  <2>2. h = [k \in 0..Len(t) |-> h[k]]
    OBVIOUS
  <2> HIDE DEF h
  <2> QED BY <2>1, <2>2
<1>7. Walks(level)
  <2> HIDE DEF h, Walks
  <2> QED BY <1>6
<1>8. \A k \in 0..Len(t) : h[k] = level[k]
  <2> HIDE DEF h, level
  <2>1. h[0] = level[0]
    <3>1. level[0] = [at |-> tx.data.kids, type |-> "map", cnt |-> base_level_item_cnt]
      BY <1>0, <1>7
    <3>2. h[0] = [at |-> tx.data.kids, type |-> "map", cnt |-> base_level_item_cnt]
      BY <1>0, <1>6
    <3> QED BY <3>1, <3>2
  <2>2. ASSUME NEW k \in 1..Len(t), h[k - 1] = level[k - 1] PROVE h[k] = level[k]
    <3>1. k \in 0..Len(t) /\ k # 0
      BY <1>0
    <3>2. level[k] = Followed(level[k - 1], t[k])
      BY <1>7, <3>1
    <3> QED BY <1>5, <2>2, <3>2
  <2> QED BY ONLY <1>0, <2>1, <2>2, SameWalk
<1>9. parser_getInnerField(t) = level[Len(t)]
  BY DEF parser_getInnerField
<1>10. parser_getInnerField(t) = h[Len(t)]
  BY <1>0, <1>8, <1>9
<1>11. f[Len(t)] = BelowOf(tx.data, t)
  BY <1>1, PathEnds
<1>12. CASE t = <<>>
  <2>1. Len(t) = 0 /\ f[0] = tx.data
    BY <1>1, <1>12 DEF Path
  <2>2. parser_getInnerField(t) = Level(BelowOf(tx.data, t), base_level_item_cnt)
    BY <1>4, <1>10, <1>11, <2>1
  <2> QED BY <1>12, <2>2
<1>13. CASE t # <<>>
  <2>1. Len(t) \in 1..Len(t)
    <3>1. t \in Seq(Index)
      BY DEF Traces
    <3> QED BY <1>0, <1>13, <3>1, EmptySeq
  <2>2. parser_getInnerField(t) = Level(f[Len(t)], Length(f[Len(t)]))
    <3> HIDE DEF h, Level
    <3> QED BY <1>3, <1>10, <2>1
  <2> QED BY <1>11, <1>13, <2>2
<1> QED BY <1>12, <1>13

\* parser_printInnerField shows the entry.
LEMMA PrintedIs ==
  ASSUME NEW n \in Containers, NEW i \in Nat, i < Length(n)
  PROVE  LET entry == Entries(n)[i + 1]
         IN Printed(n.kids, n.kind, i) = [k \in DOMAIN entry |-> Shown(entry[k])]
<1>0. n.kids \in Seq(Datum) /\ Len(n.kids) \in Nat
  BY ContainerKids
<1>1. CASE n.kind = "map"
  <2> DEFINE rest == Advanced(n.kids, 2 * i)
             entry == <<n.kids[2 * i + 1], n.kids[2 * i + 2]>>
  <2>1. 2 * i \in Nat /\ 2 * i + 2 <= Len(n.kids) /\ Stride(n.kind) = 2
    BY <1>1, MapHas
  <2>2. Len(rest) = Len(n.kids) - 2 * i
    <3>1. 2 * i < Len(n.kids)
      BY <1>0, <2>1
    <3> QED BY ONLY <1>0, <2>1, <3>1, AdvancedIs
  <2>3. \A k \in 1..2 : rest[k] = entry[k]
    <3>1. 1 \in 1..(Len(n.kids) - 2 * i) /\ 2 \in 1..(Len(n.kids) - 2 * i)
      BY <1>0, <2>1
    <3>2. rest[1] = n.kids[2 * i + 1] /\ rest[2] = n.kids[2 * i + 2]
      BY <1>0, <2>1, <3>1, AdvancedIs
    <3>3. \A k \in 1..2 : k = 1 \/ k = 2
      OBVIOUS
    <3> QED BY <3>2, <3>3
  <2>4. (IF Len(rest) < 2 THEN Len(rest) ELSE 2) = 2
    BY <1>0, <2>1, <2>2
  <2>5. DOMAIN entry = 1..2
    OBVIOUS
  <2> HIDE DEF rest, entry
  <2>6. Printed(n.kids, n.kind, i) = [k \in 1..2 |-> Shown(rest[k])]
    BY <2>1, <2>4 DEF Printed, rest
  <2>7. Entries(n)[i + 1] = entry
    BY <1>1, MapEntry DEF entry
  <2> QED BY <2>3, <2>5, <2>6, <2>7
<1>2. CASE n.kind = "array"
  <2> DEFINE rest == Advanced(n.kids, i)
             entry == <<n.kids[i + 1]>>
  <2>1. i < Len(n.kids) /\ Stride(n.kind) = 1 /\ 1 * i = i
    BY <1>2, ArrayHas
  <2>2. Len(rest) = Len(n.kids) - i
    BY <1>0, <2>1, AdvancedIs
  <2>3. \A k \in 1..1 : rest[k] = entry[k]
    <3>1. 1 \in 1..(Len(n.kids) - i)
      BY <1>0, <2>1
    <3>2. rest[1] = n.kids[i + 1]
      BY <1>0, <2>1, <3>1, AdvancedIs
    <3>3. \A k \in 1..1 : k = 1
      OBVIOUS
    <3> QED BY <3>2, <3>3
  <2>4. (IF Len(rest) < 1 THEN Len(rest) ELSE 1) = 1
    BY <1>0, <2>1, <2>2
  <2>5. DOMAIN entry = 1..1
    OBVIOUS
  <2> HIDE DEF rest, entry
  <2>6. Printed(n.kids, n.kind, i) = [k \in 1..1 |-> Shown(rest[k])]
    BY <2>1, <2>4 DEF Printed, rest
  <2>7. Entries(n)[i + 1] = entry
    BY <1>2, ArrayEntry DEF entry
  <2> QED BY <2>3, <2>5, <2>6, <2>7
<1> QED BY <1>1, <1>2, ContainerKids

-----------------------------------------------------------------------------
(* The flags.                                                              *)

FlagRecords == [data : BOOLEAN, counted : BOOLEAN]

\* What a page leaves: the first flag is that of the data's page, and behind it
\* the second is down, but for an Upgrade.
LEMMA DisplayedIs ==
  ASSUME NEW f \in FlagRecords, NEW t, NEW p
  PROVE  /\ Displayed(f, t, p) \in FlagRecords
         /\ IsContract(t) => (Displayed(f, t, p).data <=> DataValid(t) /\ p = DATA_INDEX)
         /\ IsContract(t) /\ Displayed(f, t, p).data /\ t.method # "upgrade" =>
              ~Displayed(f, t, p).counted
         /\ ~IsContract(t) => Displayed(f, t, p) = f
<1>1. CASE ~IsContract(t)
  BY <1>1 DEF Displayed
<1>2. CASE IsContract(t) /\ DataValid(t) /\ p = DATA_INDEX
  <2> DEFINE new == [data |-> TRUE, counted |-> f.counted /\ t.method = "upgrade"]
  <2>1. Displayed(f, t, p) = new
    BY <1>2 DEF Displayed
  <2>2. new \in FlagRecords /\ new.data
    BY DEF FlagRecords
  <2>3. t.method # "upgrade" => ~new.counted
    OBVIOUS
  <2> QED BY <1>2, <2>1, <2>2, <2>3
<1>3. CASE IsContract(t) /\ ~(DataValid(t) /\ p = DATA_INDEX)
  <2>1. Displayed(f, t, p) = [f EXCEPT !.data = FALSE]
    BY <1>3 DEF Displayed
  <2>2. [f EXCEPT !.data = FALSE] \in FlagRecords /\ ~[f EXCEPT !.data = FALSE].data
    BY DEF FlagRecords
  <2> QED BY <1>3, <2>1, <2>2
<1> QED BY <1>1, <1>2, <1>3

Lowered(f) == [f EXCEPT !.data = FALSE]

LEMMA LoweredIs ==
  ASSUME NEW f \in FlagRecords
  PROVE  /\ Lowered(f) \in FlagRecords
         /\ Lowered(f).counted = f.counted
         /\ Lowered(Lowered(f)) = Lowered(f)
<1>1. Lowered(f) \in FlagRecords /\ Lowered(f).counted = f.counted /\ Lowered(f).data = FALSE
  BY DEF FlagRecords, Lowered
<1>2. ASSUME NEW g \in FlagRecords, g.data = FALSE PROVE Lowered(g) = g
  BY <1>2, Zenon DEF FlagRecords, Lowered
<1> QED BY <1>1, <1>2

\* What the walk of parser_validate has left behind the page p.
OpenFlags(f, t) == [data |-> TRUE, counted |-> f.counted /\ t.method = "upgrade"]

LeftAt(f, t, p) ==
  IF ~IsContract(t) THEN f
  ELSE IF ~DataValid(t) \/ p < DATA_INDEX THEN Lowered(f)
  ELSE IF p = DATA_INDEX THEN OpenFlags(f, t)
  ELSE Lowered(OpenFlags(f, t))

\* The pages of a transaction are numbered from 0; that of the data is not the last.
LEMMA PagesAre ==
  ASSUME NEW t, t.tokens \in Nat
  PROVE  /\ LastPage(t) \in Nat
         /\ \A p \in Pages(t) : p \in Nat
         /\ DataValid(t) => DATA_INDEX + 1 \in Pages(t)
<1>1. LastPage(t) \in Nat
  BY DEF LastPage
<1>2. DataValid(t) => LastPage(t) >= 5
  BY DEF LastPage, DataValid
<1> QED BY <1>1, <1>2 DEF Pages, DATA_INDEX

LEMMA LeftBehind ==
  ASSUME NEW f \in FlagRecords, NEW t, t.tokens \in Nat, NEW p \in Pages(t)
  PROVE  /\ LeftAt(f, t, p) = Displayed(IF p = 0 THEN f ELSE LeftAt(f, t, p - 1), t, p)
         /\ LeftAt(f, t, p) \in FlagRecords
<1>0. p \in Nat /\ (p # 0 => p - 1 \in Nat) /\ DATA_INDEX = 2
  BY PagesAre DEF DATA_INDEX
<1> DEFINE before == IF p = 0 THEN f ELSE LeftAt(f, t, p - 1)
           open == OpenFlags(f, t)
<1>1. open \in FlagRecords
  <2>1. f.counted \in BOOLEAN
    BY DEF FlagRecords
  <2> QED BY <2>1 DEF OpenFlags, FlagRecords
<1>2. \A g \in FlagRecords : Lowered(g) \in FlagRecords /\ Lowered(Lowered(g)) = Lowered(g)
  BY LoweredIs
<1>3. OpenFlags(Lowered(f), t) = open
  BY LoweredIs DEF OpenFlags
<1>4. \A g : Displayed(g, t, p) = IF ~IsContract(t) THEN g
                                 ELSE IF DataValid(t) /\ p = 2 THEN OpenFlags(g, t)
                                 ELSE Lowered(g)
  BY <1>0 DEF Displayed, OpenFlags, Lowered
<1>5. CASE ~IsContract(t)
  BY <1>4, <1>5 DEF LeftAt
<1>6. CASE IsContract(t) /\ (~DataValid(t) \/ p < 2)
  <2>1. before = f \/ before = Lowered(f)
    BY <1>0, <1>6 DEF LeftAt
  <2>2. LeftAt(f, t, p) = Lowered(f)
    BY <1>0, <1>6 DEF LeftAt
  <2>3. Displayed(before, t, p) = Lowered(before)
    <3> HIDE DEF before
    <3> QED BY <1>0, <1>4, <1>6
  <2> HIDE DEF before
  <2>4. Displayed(before, t, p) = Lowered(f)
    BY <1>2, <2>1, <2>3
  <2> QED BY <1>2, <2>2, <2>4 DEF before
<1>7. CASE IsContract(t) /\ DataValid(t) /\ p = 2
  <2>1. before = Lowered(f)
    BY <1>0, <1>7 DEF LeftAt
  <2>2. LeftAt(f, t, p) = open
    BY <1>0, <1>7 DEF LeftAt
  <2> HIDE DEF before, open
  <2>3. Displayed(before, t, p) = OpenFlags(before, t)
    BY <1>4, <1>7
  <2>4. Displayed(before, t, p) = open
    BY <1>3, <2>1, <2>3
  <2> QED BY <1>1, <2>2, <2>4 DEF before
<1>8. CASE IsContract(t) /\ DataValid(t) /\ p > 2
  <2>1. before = open \/ before = Lowered(open)
    BY <1>0, <1>8 DEF LeftAt
  <2>2. LeftAt(f, t, p) = Lowered(open)
    BY <1>0, <1>8 DEF LeftAt
  <2> HIDE DEF before, open
  <2>3. Displayed(before, t, p) = Lowered(before)
    BY <1>0, <1>4, <1>8
  <2>4. Displayed(before, t, p) = Lowered(open)
    BY <1>1, <1>2, <2>1, <2>3
  <2> QED BY <1>1, <1>2, <2>2, <2>4 DEF before
<1> QED BY <1>0, <1>5, <1>6, <1>7, <1>8

LEMMA ValidatedIs ==
  ASSUME Flags \in FlagRecords, NEW t, t.tokens \in Nat
  PROVE  /\ Validated(t) \in FlagRecords
         /\ ~IsContract(t) => Validated(t) = Flags
<1> DEFINE f == Flags
           n == LastPage(t)
           Walks(g) ==
             g = [p \in Pages(t) |-> Displayed(IF p = 0 THEN Flags ELSE g[p - 1], t, p)]
           left == [p \in Pages(t) |-> LeftAt(f, t, p)]
           walked == CHOOSE g : Walks(g)
<1>0. n \in Nat /\ Pages(t) = 0..n /\ n \in 0..n /\ 0 \in 0..n
  BY PagesAre DEF Pages
<1>1. Walks(left)
  <2>1. ASSUME NEW p \in Pages(t)
        PROVE  left[p] = Displayed(IF p = 0 THEN Flags ELSE left[p - 1], t, p)
    <3>1. p # 0 => p - 1 \in Pages(t)
      BY <1>0
    <3>2. p # 0 => left[p - 1] = LeftAt(f, t, p - 1)
      BY <3>1
    <3>3. left[p] = LeftAt(f, t, p)
      OBVIOUS
    <3> HIDE DEF left, f
    <3> QED BY <3>2, <3>3, LeftBehind DEF f
  <2> QED BY <2>1
<1>2. Walks(walked)
  <2> HIDE DEF left, Walks
  <2> QED BY <1>1
<1>3. \A p \in 0..n : left[p] = walked[p]
  <2> HIDE DEF left, walked, n
  <2>1. left[0] = walked[0]
    BY <1>0, <1>1, <1>2
  <2>2. ASSUME NEW p \in 1..n, left[p - 1] = walked[p - 1] PROVE left[p] = walked[p]
    <3>1. p \in Pages(t) /\ p # 0
      BY <1>0
    <3>2. left[p] = Displayed(left[p - 1], t, p)
      BY <1>1, <3>1
    <3>3. walked[p] = Displayed(walked[p - 1], t, p)
      BY <1>2, <3>1
    <3> QED BY <2>2, <3>2, <3>3
  <2>3. \A p \in 1..n : left[p - 1] = walked[p - 1] => left[p] = walked[p]
    BY ONLY <2>2
  <2>4. n \in Nat
    BY ONLY <1>0
  <2> QED BY ONLY <2>1, <2>3, <2>4, SameWalk
<1>4. Validated(t) = walked[n]
  BY DEF Validated
<1>5. Validated(t) = LeftAt(f, t, n)
  <2>1. left[n] = LeftAt(f, t, n)
    BY <1>0
  <2> QED BY <1>0, <1>3, <1>4, <2>1
<1>6. LeftAt(f, t, n) \in FlagRecords
  <2> HIDE DEF f, n
  <2> QED BY <1>0, LeftBehind DEF f
<1>7. ~IsContract(t) => LeftAt(f, t, n) = f
  BY DEF LeftAt
<1> QED BY <1>5, <1>6, <1>7

-----------------------------------------------------------------------------
(* The invariant.                                                          *)

ViewRecords ==
  [mode : {"idle", "review", "inspect"}, trace : Traces, read : Traces,
   counted : BOOLEAN, stale : BOOLEAN]

Types ==
  /\ tx.data \in Datum \cup {NoData}
  /\ tx.tokens \in Nat
  /\ page \in Nat
  /\ view \in ViewRecords
  /\ Len(view.trace) < MaxDepth
  /\ on_data_field \in BOOLEAN
  /\ num_items_initialized \in BOOLEAN
  /\ base_level_item_cnt \in Nat
  /\ current_type_item_cnt \in Nat

\* Outside a walk the view remembers nothing of one.
Outside == ~Inspecting => view = Reviewing \/ view = Closed

\* Where the data can be opened its counts are due, but for an Upgrade.
DueAtOpening == on_data_field /\ tx.method # "upgrade" => ~num_items_initialized

\* A walk stays in the data, and the counts are of it: that of the data from the
\* first count on, that of a level from the reading on.  The counts an Upgrade is
\* opened with are not of its own level.
Walking ==
  Inspecting =>
    /\ DataValid(tx) /\ page = DATA_INDEX /\ ~on_data_field
    /\ Leads(tx.data, view.trace)
    /\ Leads(tx.data, view.read)
    /\ view.stale => tx.method = "upgrade"
    /\ IF view.counted THEN num_items_initialized
       ELSE /\ view.trace = <<>> /\ view.read = <<>>
            /\ num_items_initialized => view.stale
    /\ view.counted /\ ~view.stale => base_level_item_cnt = Length(tx.data)
    /\ view.counted /\ ~(view.stale /\ view.read = <<>>) =>
         current_type_item_cnt = Length(BelowOf(tx.data, view.read))

IInv == Types /\ Outside /\ OpensDataOnly /\ DueAtOpening /\ Walking

\* An item has been shown only once the data was counted.
ItemsCounted == answer.op = "item" => view.counted

LEMMA LeadsNowhere ==
  ASSUME NEW d \in Containers
  PROVE  <<>> \in Traces /\ Len(<<>>) = 0 /\ Leads(d, <<>>) /\ BelowOf(d, <<>>) = d
<1> DEFINE f == [k \in 0..0 |-> d]
<1>1. <<>> \in Traces /\ Len(<<>>) = 0
  BY DEF Traces
<1>2. f \in [0..0 -> Containers] /\ f[0] = d
  OBVIOUS
<1>3. Path(d, <<>>, f)
  <2> HIDE DEF f
  <2>1. 1..Len(<<>>) = {}
    BY <1>1
  <2> QED BY <1>1, <1>2, <2>1 DEF Path
<1>4. BelowOf(d, <<>>) = d
  BY <1>1, <1>2, <1>3, PathEnds
<1> QED BY <1>1, <1>3, <1>4 DEF Leads

LEMMA OpenedIs ==
  ASSUME Types, DataValid(tx)
  PROVE  tx.data \in Containers
BY DEF Types, DataValid, Containers

LEMMA LengthIs ==
  ASSUME NEW n \in Containers
  PROVE  Length(n) \in Nat
BY MapHas, ArrayHas, ContainerKids

\* The container a trace ends at.
LEMMA EndIs ==
  ASSUME NEW d, NEW t \in Traces, Leads(d, t)
  PROVE  BelowOf(d, t) \in Containers /\ Length(BelowOf(d, t)) \in Nat
BY PathEnds, LengthIs DEF Leads

LEMMA StartIs ==
  /\ Reviewing \in ViewRecords /\ Reviewing.mode = "review" /\ Reviewing.trace = <<>>
  /\ Closed \in ViewRecords /\ Closed.mode = "idle" /\ Closed.trace = <<>>
  /\ 0 < MaxDepth
<1>1. <<>> \in Traces
  BY DEF Traces
<1>2. 0 < MaxDepth
  BY InnerAssumption
<1> QED BY <1>1, <1>2 DEF Reviewing, Closed, ViewRecords

LEMMA InitInv ==
  ASSUME Init
  PROVE  IInv
<1>1. Types
  BY StartIs DEF Init, Types
<1>2. Outside /\ OpensDataOnly /\ DueAtOpening
  BY DEF Init, Outside, OpensDataOnly, DueAtOpening
<1>3. Walking
  BY StartIs DEF Init, Walking, Inspecting
<1> QED BY <1>1, <1>2, <1>3 DEF IInv

\* A page of the review: the flags are those it leaves.
LEMMA FlagsHave ==
  ASSUME Types
  PROVE  /\ Flags \in FlagRecords
         /\ Flags.data = on_data_field
         /\ Flags.counted = num_items_initialized
BY DEF Types, Flags, FlagRecords

LEMMA ReceiveInv ==
  ASSUME IInv, NEW t \in Transaction, Receive(t)
  PROVE  IInv'
<1> DEFINE f == Displayed(Validated(t), t, 0)
<1>1. Flags \in FlagRecords /\ ~Flags.data
  <2>1. ~on_data_field
    BY DEF IInv, OpensDataOnly, Receive
  <2> QED BY <2>1, FlagsHave DEF IInv
<1>2. f \in FlagRecords /\ ~f.data
  <2>1. /\ Validated(t) \in FlagRecords
        /\ ~IsContract(t) => Validated(t) = Flags
    BY <1>1, ValidatedIs, DataAssumption
  <2>2. 0 # DATA_INDEX
    BY DEF DATA_INDEX
  <2> QED BY <1>1, <2>1, <2>2, DisplayedIs
<1>3. on_data_field' = FALSE /\ num_items_initialized' \in BOOLEAN
  BY <1>2 DEF Receive, SetFlags, FlagRecords
<1>4. view' = Reviewing /\ page' = 0 /\ tx' = t /\ UNCHANGED counts
  BY DEF Receive
<1>5. Types'
  <2>1. t.data \in Datum \cup {NoData} /\ t.tokens \in Nat
    BY DataAssumption
  <2> QED BY <1>3, <1>4, <2>1, StartIs DEF Types, IInv, counts
<1> QED BY <1>3, <1>4, <1>5, StartIs
        DEF IInv, Outside, OpensDataOnly, DueAtOpening, Walking, Inspecting

LEMMA TurnInv ==
  ASSUME IInv, NEW p \in Pages(tx), Turn(p)
  PROVE  IInv'
<1> DEFINE f == Displayed(Flags, tx, p)
<1>1. Flags \in FlagRecords
  BY FlagsHave DEF IInv
<1>2. /\ f \in FlagRecords
      /\ f.data => DataValid(tx) /\ p = DATA_INDEX
      /\ f.data /\ tx.method # "upgrade" => ~f.counted
  <2>1. CASE IsContract(tx)
    BY <1>1, <2>1, DisplayedIs
  <2>2. CASE ~IsContract(tx)
    <3>1. f = Flags
      BY <1>1, <2>2, DisplayedIs
    <3>2. ~Flags.data
      BY <2>2, FlagsHave DEF IInv, OpensDataOnly, DataValid
    <3> QED BY <1>1, <3>1, <3>2
  <2> QED BY <2>1, <2>2
<1>3. /\ on_data_field' = f.data /\ num_items_initialized' = f.counted
      /\ on_data_field' \in BOOLEAN /\ num_items_initialized' \in BOOLEAN
  <2>1. f.data \in BOOLEAN /\ f.counted \in BOOLEAN
    BY <1>2 DEF FlagRecords
  <2> QED BY <2>1 DEF Turn, SetFlags
<1>4. /\ view' = view /\ view.mode = "review" /\ page' = p /\ tx' = tx
      /\ UNCHANGED counts /\ p \in Nat
  BY PagesAre DEF Turn, IInv, Types
<1>5. Types'
  BY <1>3, <1>4 DEF Types, IInv, counts
<1> HIDE DEF f
<1>6. OpensDataOnly' /\ DueAtOpening'
  BY <1>2, <1>3, <1>4 DEF OpensDataOnly, DueAtOpening, DataValid, IsContract, DATA_INDEX
<1> QED BY <1>4, <1>5, <1>6 DEF IInv, Outside, Walking, Inspecting

LEMMA LeaveInv ==
  ASSUME IInv, Leave
  PROVE  IInv'
<1>1. ~on_data_field
  <2>1. DataValid(tx) => DATA_INDEX + 1 \in Pages(tx) /\ DATA_INDEX # 0
    BY PagesAre DEF IInv, Types, DATA_INDEX
  <2> QED BY <2>1 DEF IInv, OpensDataOnly, Leave
<1>2. view' = Closed /\ UNCHANGED <<tx, page, flags, counts>>
  BY DEF Leave
<1>3. Types'
  BY <1>2, StartIs DEF Types, IInv, counts, flags
<1> QED BY <1>1, <1>2, <1>3, StartIs
        DEF IInv, Outside, OpensDataOnly, DueAtOpening, Walking, Inspecting, flags

LEMMA OpenInv ==
  ASSUME IInv, Open
  PROVE  IInv'
<1>1. /\ on_data_field' = FALSE
      /\ UNCHANGED <<tx, page, num_items_initialized, counts>>
      /\ view \in ViewRecords /\ view = Reviewing
  BY StartIs DEF Open, IInv, Types, Outside, Inspecting
<1>2. CASE ~on_data_field
  <2>1. view' = view
    BY <1>2 DEF Open
  <2>2. Types'
    BY <1>1, <2>1 DEF Types, IInv, counts
  <2> QED BY <1>1, <2>1, <2>2, StartIs
          DEF IInv, Outside, OpensDataOnly, DueAtOpening, Walking, Inspecting
<1>3. CASE on_data_field
  <2>1. view' = [view EXCEPT !.mode = "inspect", !.stale = num_items_initialized]
    BY <1>3 DEF Open
  <2>2. /\ view' \in ViewRecords
        /\ view'.mode = "inspect" /\ view'.stale = num_items_initialized
        /\ view'.trace = <<>> /\ view'.read = <<>> /\ ~view'.counted
    <3>1. num_items_initialized \in BOOLEAN
      BY DEF IInv, Types
    <3>2. view.trace = <<>> /\ view.read = <<>> /\ view.counted = FALSE
      BY <1>1 DEF Reviewing
    <3> QED BY <1>1, <2>1, <3>1, <3>2 DEF ViewRecords
  <2>3. DataValid(tx) /\ page = DATA_INDEX
    BY <1>3 DEF IInv, OpensDataOnly
  <2>4. tx.data \in Containers
    BY <2>3, OpenedIs DEF IInv
  <2>5. Leads(tx.data, <<>>) /\ Len(<<>>) < MaxDepth
    BY <2>4, LeadsNowhere, StartIs
  <2>6. num_items_initialized => tx.method = "upgrade"
    BY <1>3 DEF IInv, DueAtOpening
  <2>7. Types'
    BY <1>1, <2>2, <2>5 DEF Types, IInv, counts
  <2>8. Walking'
    <3>1. DataValid(tx)' /\ page' = DATA_INDEX
      BY <1>1, <2>3 DEF DataValid, IsContract
    <3> QED BY <1>1, <2>2, <2>5, <2>6, <3>1 DEF Walking, DATA_INDEX
  <2> QED BY <1>1, <2>2, <2>7, <2>8
          DEF IInv, Outside, OpensDataOnly, DueAtOpening, Inspecting
<1> QED BY <1>2, <1>3 DEF IInv, Types

\* What an open walk has, spelled out.
LEMMA WalkHas ==
  ASSUME IInv, Inspecting
  PROVE  /\ view \in ViewRecords /\ view.trace \in Traces /\ view.read \in Traces
         /\ DataValid(tx) /\ tx.data \in Containers
         /\ Leads(tx.data, view.trace) /\ Leads(tx.data, view.read)
         /\ BelowOf(tx.data, view.trace) \in Containers
         /\ Length(BelowOf(tx.data, view.trace)) \in Nat
         /\ BelowOf(tx.data, <<>>) = tx.data
         /\ Length(tx.data) \in Nat
<1>1. /\ view \in ViewRecords /\ view.trace \in Traces /\ view.read \in Traces
      /\ DataValid(tx)
      /\ Leads(tx.data, view.trace) /\ Leads(tx.data, view.read)
  BY DEF IInv, Types, Walking, ViewRecords
<1>2. tx.data \in Containers
  BY <1>1, OpenedIs DEF IInv
<1> QED BY <1>1, <1>2, EndIs, LeadsNowhere, LengthIs

LEMMA GetCountInv ==
  ASSUME IInv, GetCount
  PROVE  IInv'
<1>1. /\ Inspecting /\ num_items_initialized' = TRUE
      /\ view' = [view EXCEPT !.counted = TRUE]
      /\ UNCHANGED <<tx, page, on_data_field>>
  BY DEF GetCount
<1>2. /\ view' \in ViewRecords
      /\ view'.mode = view.mode /\ view'.trace = view.trace /\ view'.read = view.read
      /\ view'.stale = view.stale /\ view'.counted = TRUE
  BY <1>1, WalkHas DEF ViewRecords
<1>3. IF num_items_initialized THEN UNCHANGED counts
      ELSE base_level_item_cnt' = Length(tx.data) /\ current_type_item_cnt' = Length(tx.data)
  BY DEF GetCount, Counted
<1>4. Types'
  BY <1>1, <1>2, <1>3, WalkHas DEF Types, IInv, counts
<1>5. DataValid(tx)' <=> DataValid(tx)
  BY <1>1 DEF DataValid, IsContract
<1>6. Walking'
  <2>1. CASE view.counted
    <3>1. UNCHANGED counts
      BY <1>1, <1>3, <2>1 DEF IInv, Walking
    <3> QED BY <1>1, <1>2, <1>5, <2>1, <3>1 DEF IInv, Walking, counts, Inspecting
  <2>2. CASE ~view.counted
    <3>1. view.trace = <<>> /\ view.read = <<>>
      BY <1>1, <2>2 DEF IInv, Walking
    <3>2. ~view.stale =>
            /\ base_level_item_cnt' = Length(tx.data)
            /\ current_type_item_cnt' = Length(tx.data)
      BY <1>1, <1>3, <2>2 DEF IInv, Walking
    <3>3. Length(BelowOf(tx.data, <<>>)) = Length(tx.data)
      BY <1>1, WalkHas
    <3> QED BY <1>1, <1>2, <1>5, <2>2, <3>1, <3>2, <3>3 DEF IInv, Walking, Inspecting
  <2> QED BY <2>1, <2>2, WalkHas, <1>1 DEF ViewRecords
<1> QED BY <1>1, <1>2, <1>4, <1>6 DEF IInv, Walking, Outside, OpensDataOnly, DueAtOpening, Inspecting

LEMMA GetItemInv ==
  ASSUME IInv, NEW i \in Index, GetItem(i)
  PROVE  IInv'
<1>1. /\ Inspecting /\ view.counted
      /\ view' = [view EXCEPT !.read = view.trace]
      /\ UNCHANGED <<tx, page, flags, base_level_item_cnt>>
      /\ current_type_item_cnt' = parser_getInnerField(view.trace).cnt
  BY DEF GetItem
<1>2. /\ view' \in ViewRecords
      /\ view'.mode = view.mode /\ view'.trace = view.trace /\ view'.read = view.trace
      /\ view'.stale = view.stale /\ view'.counted = view.counted
  BY <1>1, WalkHas DEF ViewRecords
<1>3. parser_getInnerField(view.trace).cnt =
        IF view.trace = <<>> THEN base_level_item_cnt
        ELSE Length(BelowOf(tx.data, view.trace))
  BY <1>1, LevelIs, WalkHas
<1>4. Types'
  BY <1>1, <1>2, <1>3, WalkHas DEF Types, IInv, flags
<1>5. DataValid(tx)' <=> DataValid(tx)
  BY <1>1 DEF DataValid, IsContract
<1>6. ~(view.stale /\ view.trace = <<>>) =>
        current_type_item_cnt' = Length(BelowOf(tx.data, view.trace))
  <2>1. ~view.stale /\ view.trace = <<>> => base_level_item_cnt = Length(tx.data)
    BY <1>1 DEF IInv, Walking
  <2>2. BelowOf(tx.data, <<>>) = tx.data
    BY <1>1, WalkHas
  <2> QED BY <1>1, <1>3, <2>1, <2>2
<1>7. Walking'
  BY <1>1, <1>2, <1>5, <1>6, WalkHas DEF IInv, Walking, flags, Inspecting
<1> QED BY <1>1, <1>2, <1>4, <1>7
        DEF IInv, Walking, Outside, OpensDataOnly, DueAtOpening, Inspecting, flags

\* parser_canInspectItem says of an item what kind of datum it is.
LEMMA ContainerIs ==
  ASSUME IInv, Inspecting, NEW i \in Index
  PROVE  LET n == BelowOf(tx.data, view.trace) IN
         /\ IsContainer(view.trace, i) <=> i < Length(n) /\ Value(n, i).kind # "leaf"
         /\ i < Length(n) => Value(n, i) \in Datum
<1> DEFINE n == BelowOf(tx.data, view.trace)
           rest == Advanced(n.kids, Stride(n.kind) * i + Stride(n.kind) - 1)
<1>0. i \in Nat /\ n \in Containers
  <2>1. i \in 0..255
    BY InnerAssumption
  <2> QED BY <2>1, WalkHas
<1>1. /\ parser_getInnerField(view.trace).at = n.kids
      /\ parser_getInnerField(view.trace).type = n.kind
  BY LevelIs, WalkHas
<1> HIDE DEF n
<1>2. IsContainer(view.trace, i) <=> rest # <<>> /\ rest[1].kind \in {"array", "map"}
  BY <1>1 DEF IsContainer
<1>3. /\ rest # <<>> <=> i < Length(n)
      /\ i < Length(n) => rest[1] = Value(n, i) /\ Value(n, i) \in Datum
  BY <1>0, ValueIs
<1> HIDE DEF rest
<1>4. i < Length(n) => Value(n, i).kind \in {"leaf", "array", "map"}
  BY <1>3, DataAssumption
<1> QED BY <1>2, <1>3, <1>4 DEF n

LEMMA DescendInv ==
  ASSUME IInv, ItemsCounted, NEW i \in Index, Descend(i)
  PROVE  IInv'
<1> DEFINE n == BelowOf(tx.data, view.trace)
<1>1. /\ Inspecting
      /\ Len(view.trace) + 1 < MaxDepth
      /\ view' = IF IsContainer(view.trace, i)
                 THEN [view EXCEPT !.trace = Append(view.trace, i)] ELSE view
      /\ UNCHANGED <<tx, page, flags, counts>>
  BY DEF Descend
<1>2. DataValid(tx)' <=> DataValid(tx)
  BY <1>1 DEF DataValid, IsContract
<1>3. CASE ~IsContainer(view.trace, i)
  <2>1. UNCHANGED <<view, tx, page, flags, counts>>
    BY <1>1, <1>3
  <2> QED BY <1>2, <2>1
          DEF IInv, Types, Walking, Outside, OpensDataOnly, DueAtOpening, Inspecting, flags, counts
<1>4. CASE IsContainer(view.trace, i)
  <2>1. i < Length(n) /\ Value(n, i) \in Containers
    BY <1>1, <1>4, ContainerIs DEF Containers
  <2>2. Leads(tx.data, Append(view.trace, i))
    BY <1>1, <2>1, LeadsDown, WalkHas
  <2>3. /\ Append(view.trace, i) \in Traces
        /\ Len(Append(view.trace, i)) = Len(view.trace) + 1
    BY <1>1, WalkHas, AppendProperties DEF Traces
  <2>4. /\ view' \in ViewRecords
        /\ view'.mode = view.mode /\ view'.trace = Append(view.trace, i)
        /\ view'.read = view.read /\ view'.stale = view.stale /\ view'.counted = view.counted
    BY <1>1, <1>4, <2>3, WalkHas DEF ViewRecords
  <2>5. view.counted
    BY DEF Descend, ItemsCounted
  <2>6. Types'
    BY <1>1, <2>3, <2>4 DEF Types, IInv, flags, counts
  <2>7. Walking'
    BY <1>1, <1>2, <2>2, <2>4, <2>5 DEF IInv, Walking, flags, counts, Inspecting
  <2> QED BY <1>1, <2>4, <2>6, <2>7
          DEF IInv, Walking, Outside, OpensDataOnly, DueAtOpening, Inspecting, flags, counts
<1> QED BY <1>3, <1>4

LEMMA AscendInv ==
  ASSUME IInv, Ascend
  PROVE  IInv'
<1>1. Inspecting /\ UNCHANGED <<tx, page, counts>>
  BY DEF Ascend
<1>2. DataValid(tx)' <=> DataValid(tx)
  BY <1>1 DEF DataValid, IsContract
<1>3. CASE view.trace # <<>>
  <2>1. view' = [view EXCEPT !.trace = Front(view.trace)] /\ UNCHANGED flags
    BY <1>3 DEF Ascend
  <2>2. /\ Leads(tx.data, Front(view.trace)) /\ Front(view.trace) \in Traces
        /\ Len(Front(view.trace)) < Len(view.trace)
    BY <1>1, <1>3, LeadsUp, WalkHas
  <2>3. /\ view' \in ViewRecords
        /\ view'.mode = view.mode /\ view'.trace = Front(view.trace)
        /\ view'.read = view.read /\ view'.stale = view.stale /\ view'.counted = view.counted
    BY <1>1, <2>1, <2>2, WalkHas DEF ViewRecords
  <2>4. Len(Front(view.trace)) < MaxDepth
    <3>1. Len(view.trace) \in Nat /\ Len(Front(view.trace)) \in Nat
      BY <1>1, <2>2, TraceHas, WalkHas
    <3>2. MaxDepth \in Nat /\ Len(view.trace) < MaxDepth
      BY InnerAssumption DEF IInv, Types
    <3> QED BY ONLY <2>2, <3>1, <3>2
  <2>5. view.counted
    BY <1>1, <1>3 DEF IInv, Walking
  <2>6. Types'
    BY <1>1, <2>1, <2>3, <2>4 DEF Types, IInv, flags, counts
  <2>7. Walking'
    BY <1>1, <1>2, <2>1, <2>2, <2>3, <2>5 DEF IInv, Walking, flags, counts, Inspecting
  <2> QED BY <1>1, <2>1, <2>3, <2>6, <2>7
          DEF IInv, Walking, Outside, OpensDataOnly, DueAtOpening, Inspecting, flags, counts
<1>4. CASE view.trace = <<>>
  <2> DEFINE f == Displayed(Flags, tx, page)
  <2>1. view' = Reviewing /\ SetFlags(f)
    BY <1>4 DEF Ascend
  <2>2. IsContract(tx) /\ DataValid(tx) /\ page = DATA_INDEX
    BY <1>1, WalkHas DEF IInv, Walking, DataValid
  <2>3. f \in FlagRecords /\ (f.data /\ tx.method # "upgrade" => ~f.counted)
    BY <2>2, FlagsHave, DisplayedIs DEF IInv
  <2>4. f.data \in BOOLEAN /\ f.counted \in BOOLEAN
    BY <2>3 DEF FlagRecords
  <2> HIDE DEF f
  <2>5. Types'
    BY <1>1, <2>1, <2>4, StartIs DEF Types, IInv, SetFlags, counts
  <2> QED BY <1>1, <1>2, <2>1, <2>2, <2>3, <2>5, StartIs
          DEF IInv, Walking, Outside, OpensDataOnly, DueAtOpening, Inspecting, SetFlags
<1> QED BY <1>3, <1>4

LEMMA StutterInv ==
  ASSUME IInv, UNCHANGED vars
  PROVE  IInv'
BY DEF IInv, Types, Walking, Outside, OpensDataOnly, DueAtOpening, Inspecting, DataValid,
       IsContract, vars, flags, counts

-----------------------------------------------------------------------------
(* The answers.                                                            *)

AInv == ItemsCounted /\ ItemIsOfLevel /\ CountIsOfLevel

LEMMA BelowIs ==
  /\ \A t : Below(t) = BelowOf(tx.data, t)
  /\ Below(view.trace)' = BelowOf(tx'.data, view'.trace)
  /\ Below(view.read)' = BelowOf(tx'.data, view'.read)
  /\ Below(answer.from)' = BelowOf(tx'.data, answer'.from)
BY DEF Below, BelowOf

\* Only what the view has asked for last is said of its answer.
LEMMA SilentAnswer ==
  ASSUME answer'.op \notin {"item", "can", "count"}
  PROVE  AInv'
BY DEF AInv, ItemsCounted, ItemIsOfLevel, ItemShown, ItemOpens, CountIsOfLevel

LEMMA GetCountAnswer ==
  ASSUME IInv, GetCount
  PROVE  AInv'
<1>1. /\ Inspecting
      /\ IF num_items_initialized THEN UNCHANGED counts
         ELSE current_type_item_cnt' = Length(tx.data)
      /\ answer' = [op |-> "count", num |-> current_type_item_cnt' % 256]
      /\ view' = [view EXCEPT !.counted = TRUE]
      /\ tx' = tx
  BY DEF GetCount, Counted
<1>2. view'.read = view.read /\ view'.stale = view.stale
  BY <1>1, WalkHas DEF ViewRecords
<1>3. ASSUME ~(tx.method = "upgrade" /\ view.stale /\ view.read = <<>>)
      PROVE  current_type_item_cnt' = Length(BelowOf(tx.data, view.read))
  <2>1. ~(view.stale /\ view.read = <<>>)
    BY <1>1, <1>3 DEF IInv, Walking
  <2>2. CASE view.counted
    <3>1. UNCHANGED counts
      BY <1>1, <2>2 DEF IInv, Walking
    <3> QED BY <1>1, <2>1, <2>2, <3>1 DEF IInv, Walking, counts
  <2>3. CASE ~view.counted
    <3>1. view.read = <<>> /\ ~num_items_initialized
      BY <1>1, <2>1, <2>3 DEF IInv, Walking
    <3>2. BelowOf(tx.data, <<>>) = tx.data
      BY <1>1, WalkHas
    <3> QED BY <1>1, <3>1, <3>2
  <2> QED BY <2>2, <2>3
<1>4. CountIsOfLevel'
  BY <1>1, <1>2, <1>3, BelowIs DEF CountIsOfLevel, CountsOfEarlier
<1> QED BY <1>1, <1>4 DEF AInv, ItemsCounted, ItemIsOfLevel, ItemShown, ItemOpens

LEMMA GetItemAnswer ==
  ASSUME IInv, NEW i \in Index, GetItem(i)
  PROVE  AInv'
<1> DEFINE n == BelowOf(tx.data, view.trace)
           cnt == IF view.trace = <<>> THEN base_level_item_cnt ELSE Length(n)
           entry == Entries(n)[i + 1]
<1>1. /\ Inspecting /\ view.counted
      /\ view' = [view EXCEPT !.read = view.trace]
      /\ tx' = tx
  BY DEF GetItem
<1>2. /\ view'.trace = view.trace /\ view'.stale = view.stale /\ view'.counted = view.counted
  BY <1>1, WalkHas DEF ViewRecords
<1>3. i \in 0..255 /\ i \in Nat /\ n \in Containers /\ Length(n) \in Nat
  <2>1. i \in 0..255
    BY InnerAssumption
  <2>2. i \in Nat
    BY <2>1
  <2>3. n \in Containers /\ Length(n) \in Nat
    BY <1>1, WalkHas
  <2> QED BY <2>1, <2>2, <2>3
<1>4. parser_getInnerField(view.trace) = [at |-> n.kids, type |-> n.kind, cnt |-> cnt]
  BY <1>1, LevelIs, WalkHas
<1> HIDE DEF n, cnt
<1>5. answer' = [op |-> "item", at |-> i, ok |-> i < cnt % 256,
                 shown |-> IF i < cnt % 256 THEN Printed(n.kids, n.kind, i) ELSE <<>>]
  BY <1>4 DEF GetItem
<1>6. i < Length(n) =>
        Printed(n.kids, n.kind, i) = [k \in DOMAIN entry |-> Shown(entry[k])]
  BY <1>3, PrintedIs
<1>7. ASSUME Length(n) < 256,
             ~(tx.method = "upgrade" /\ view.stale /\ view.trace = <<>>)
      PROVE  i < cnt % 256 <=> i < Length(n)
  <2>1. ~(view.stale /\ view.trace = <<>>)
    BY <1>1, <1>7 DEF IInv, Walking
  <2>2. view.trace = <<>> => n = tx.data
    BY <1>1, WalkHas DEF n
  <2>3. cnt = Length(n)
    BY <1>1, <2>1, <2>2 DEF IInv, Walking, cnt
  <2>4. Length(n) % 256 = Length(n)
    BY <1>3, <1>7
  <2> QED BY <2>3, <2>4
<1>8. Below(view.trace)' = n
  BY <1>1, <1>2, BelowIs DEF n
<1>9. CountsOfEarlier' <=> tx.method = "upgrade" /\ view.stale
  BY <1>1, <1>2 DEF CountsOfEarlier
<1>10. ItemShown'
  BY <1>2, <1>5, <1>6, <1>7, <1>8, <1>9 DEF ItemShown
<1> QED BY <1>1, <1>2, <1>5, <1>10
        DEF AInv, ItemsCounted, ItemIsOfLevel, ItemOpens, CountIsOfLevel

LEMMA DescendAnswer ==
  ASSUME IInv, NEW i \in Index, Descend(i)
  PROVE  AInv'
<1> DEFINE n == BelowOf(tx.data, view.trace)
<1>1. /\ Inspecting
      /\ answer' = [op |-> "can", at |-> i, yes |-> IsContainer(view.trace, i),
                    from |-> view.trace]
      /\ tx' = tx
  BY DEF Descend
<1>2. Below(answer.from)' = n
  BY <1>1, BelowIs
<1>3. IsContainer(view.trace, i) <=> i < Length(n) /\ Value(n, i).kind # "leaf"
  BY <1>1, ContainerIs
<1>4. Len(Entries(n)) = Length(n)
  <2>1. Length(n) \in Nat
    BY <1>1, WalkHas
  <2> HIDE DEF n
  <2> QED BY <2>1 DEF Entries
<1> HIDE DEF n
<1>5. ItemOpens'
  BY <1>1, <1>2, <1>3, <1>4 DEF ItemOpens, Value
<1> QED BY <1>1, <1>5 DEF AInv, ItemsCounted, ItemIsOfLevel, ItemShown, CountIsOfLevel

LEMMA StutterAnswer ==
  ASSUME AInv, UNCHANGED vars
  PROVE  AInv'
<1>1. /\ Below(view.trace)' = Below(view.trace)
      /\ Below(view.read)' = Below(view.read)
      /\ Below(answer.from)' = Below(answer.from)
  BY BelowIs DEF vars
<1> QED BY <1>1 DEF AInv, ItemsCounted, ItemIsOfLevel, ItemShown, ItemOpens, CountIsOfLevel,
                    CountsOfEarlier, vars

LEMMA NextInv ==
  ASSUME IInv, AInv, [Next]_vars
  PROVE  IInv' /\ AInv'
<1>1. ASSUME NEW t \in Transaction, Receive(t) PROVE IInv' /\ AInv'
  <2>1. answer'.op \notin {"item", "can", "count"}
    BY <1>1 DEF Receive, Nothing
  <2> QED BY <1>1, <2>1, ReceiveInv, SilentAnswer
<1>2. ASSUME NEW p \in Pages(tx), Turn(p) PROVE IInv' /\ AInv'
  <2>1. answer'.op \notin {"item", "can", "count"}
    BY <1>2 DEF Turn, Nothing
  <2> QED BY <1>2, <2>1, TurnInv, SilentAnswer
<1>3. ASSUME NEW i \in Index, GetItem(i) PROVE IInv' /\ AInv'
  BY <1>3, GetItemInv, GetItemAnswer
<1>4. ASSUME NEW i \in Index, Descend(i) PROVE IInv' /\ AInv'
  BY <1>4, DescendInv, DescendAnswer DEF AInv
<1>5. ASSUME GetCount PROVE IInv' /\ AInv'
  BY <1>5, GetCountInv, GetCountAnswer
<1>6. ASSUME Open \/ Ascend \/ Leave PROVE IInv' /\ AInv'
  <2>1. answer'.op \notin {"item", "can", "count"}
    BY <1>6 DEF Open, Ascend, Leave, Nothing
  <2> QED BY <1>6, <2>1, OpenInv, AscendInv, LeaveInv, SilentAnswer
<1>7. ASSUME UNCHANGED vars PROVE IInv' /\ AInv'
  BY <1>7, StutterInv, StutterAnswer
<1> QED BY <1>1, <1>2, <1>3, <1>4, <1>5, <1>6, <1>7 DEF Next

LEMMA InnerInv == Spec => [](IInv /\ AInv)
<1>1. Init => IInv /\ AInv
  <2>1. Init => AInv
    BY DEF Init, Nothing, AInv, ItemsCounted, ItemIsOfLevel, ItemShown, ItemOpens, CountIsOfLevel
  <2> QED BY <2>1, InitInv
<1> QED BY <1>1, NextInv, PTL DEF Spec

-----------------------------------------------------------------------------
(* The theorems.                                                           *)

\* The flags, the counts and the place of the user are what they are declared to
\* be; a walk is in the data of the transaction on the screen and within the
\* levels that the view can trace.
THEOREM InnerTypeCorrect == Spec => []TypeOK
<1>1. IInv => TypeOK
  BY DEF IInv, Types, Walking, TypeOK, ViewRecords, Traces
<1> QED BY <1>1, InnerInv, PTL

\* What stands on the screen is the entry of the container that the user has
\* walked to, and what opens is a container, for data of any depth: the three
\* functions that follow a trace agree (parser_getInnerField,
\* parser_printInnerField, parser_canInspectItem).
THEOREM ItemsAreOfLevel == Spec => []ItemIsOfLevel
BY InnerInv, PTL DEF AInv

\* The number of items that the view is told is that of the level it is at, or
\* was read last (parser_getInnerNumItems), for data of any depth.
THEOREM CountsAreOfLevel == Spec => []CountIsOfLevel
BY InnerInv, PTL DEF AInv

\* The page that opens is the data of the transaction on the screen, whatever
\* transactions came before (on_data_field).
THEOREM OnlyDataOpens == Spec => []OpensDataOnly
BY InnerInv, PTL DEF IInv
=============================================================================
