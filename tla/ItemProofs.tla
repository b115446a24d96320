----------------------------- MODULE ItemProofs -----------------------------
(***************************************************************************)
(* Proofs about TxReader and the items of ReviewItems: what is shown is    *)
(* the items of the transaction that was read, one after the other, and    *)
(* each of them could be read.                                             *)
(***************************************************************************)
EXTENDS TxReader, SequenceTheorems, FiniteSetTheorems, FunctionTheorems, TLAPS

AnyMeta ==
  [chain_context : Chains \cup {"none"},
   runtime_id : {"zero", "stale", "runtime_id"}, has_orig_to : BOOLEAN]

AnyLeft == [method : TxMethods \cup {"none"}, n : Nat, m : Nat]

AnyItem == {parser_getItem(t, i, n) : t \in AnyTx, i \in Nat, n \in Nat}

\* The items read so far are the first ones of the transaction.
ShownInOrder ==
  /\ shown \in Seq(AnyItem)
  /\ \A i \in 1..Len(shown) :
       /\ shown[i] = parser_getItem(tx, i - 1, numItems)
       /\ shown[i] # NoItem
       /\ shown[i][1] # "Token" => Readable(tx, shown[i])

\* What is walked over was read from the message in the buffer, after some
\* earlier content of the metadata and of the union.
ReadFromMessage ==
  status # "refused" =>
    /\ parser_parse(message)
    /\ numItems = parser_getNumItems(tx)
    /\ \E old \in AnyMeta, before \in AnyLeft :
         meta = MetaAfter(old, message) /\ tx = Parsed(message, old, before)

AllRead == status = "ok" => idx = numItems

ReaderInv == ReaderTypeOK /\ ShownInOrder /\ ReadFromMessage /\ AllRead

-----------------------------------------------------------------------------
(* What a reading gives. *)

LEMMA MetaStays ==
  ASSUME NEW old \in AnyMeta, NEW m \in AnyMessage
  PROVE  MetaAfter(old, m) \in AnyMeta
<1> m.chain \in Chains
  BY DEF AnyMessage
<1>1. CASE m.context # "meta"
  BY <1>1 DEF AnyMeta, MetaAfter
<1>2. CASE m.context = "meta"
  <2> DEFINE a == MetaAfter(old, m)
  <2>1. a = [chain_context |-> a.chain_context, runtime_id |-> a.runtime_id,
             has_orig_to |-> a.has_orig_to]
    BY <1>2 DEF MetaAfter
  <2>2. a.chain_context \in {m.chain, old.chain_context}
    BY <1>2 DEF MetaAfter
  <2>3. a.runtime_id \in {"runtime_id", "zero", "stale"}
    BY <1>2 DEF MetaAfter
  <2>4. old.chain_context \in Chains \cup {"none"} /\ old.has_orig_to \in BOOLEAN
    BY DEF AnyMeta
  <2>5. a.has_orig_to \in BOOLEAN
    <3> DEFINE id == /\ "chain_context" \in m.meta /\ Fine(m, {"chain_context"})
                     /\ "runtime_id" \in m.meta /\ Fine(m, {"runtime_id"})
    <3>1. CASE id
      <4>1. a.has_orig_to = ("orig_to" \in m.meta)
        BY <1>2, <3>1 DEF MetaAfter
      <4> QED BY <4>1
    <3>2. CASE ~id
      <4>1. a.has_orig_to = old.has_orig_to
        BY <1>2, <3>2 DEF MetaAfter
      <4> QED BY <4>1, <2>4
    <3> QED BY <3>1, <3>2
  <2>6. \A c \in Chains \cup {"none"}, r \in {"runtime_id", "zero", "stale"},
           o \in BOOLEAN :
          [chain_context |-> c, runtime_id |-> r, has_orig_to |-> o] \in AnyMeta
    BY DEF AnyMeta
  <2>7. a.chain_context \in Chains \cup {"none"}
    BY <2>2, <2>4
  <2> QED BY <2>1, <2>3, <2>5, <2>6, <2>7
<1> QED BY <1>1, <1>2

LEMMA StakingMethod ==
  ASSUME NEW m \in AnyMessage, _readTx(m)
  PROVE  Method(m) \in TxMethods
<1>1. m.method \in (TxMethods \ {"Upgrade", "CancelUpgrade"}) \cup {"SubmitProposal"}
  BY DEF _readTx, _readMethod
<1>2. CASE m.method = "SubmitProposal" /\ m.body = <<"upgrade">>
  BY <1>2 DEF Method, TxMethods
<1>3. CASE m.method = "SubmitProposal" /\ m.body # <<"upgrade">>
  BY <1>3 DEF Method, TxMethods
<1>4. CASE m.method # "SubmitProposal"
  <2>1. Method(m) = m.method
    BY <1>4 DEF Method
  <2> QED BY <1>1, <1>4, <2>1
<1> QED BY <1>2, <1>3, <1>4

LEMMA CallMethod ==
  ASSUME NEW m \in AnyMessage, _readRuntime(m)
  PROVE  RuntimeMethod(m) \in RuntimeMethods
  BY DEF _readRuntime, _readRuntimeCall, RuntimeMethod, RuntimeMethods

LEMMA KindOfMessage ==
  ASSUME NEW m \in AnyMessage, parser_parse(m)
  PROVE  /\ BlobType(m) \in {"tx", "entity", "metadata", "runtime"}
         /\ BlobType(m) = "tx" => _readTx(m)
         /\ BlobType(m) = "runtime" => _readRuntime(m)
         /\ BlobType(m) = "entity" => _readEntity(m)
         /\ BlobType(m) = "metadata" => _readEntityMetadata(m)
<1>1. BlobType(m) \in {"tx", "entity", "metadata", "runtime"}
  BY DEF parser_parse, _extractContextSuffix
<1> QED BY <1>1 DEF parser_parse

LEMMA LeftOf ==
  \A a \in TxMethods, n, k \in Nat : [method |-> a, n |-> n, m |-> k] \in AnyLeft
  BY DEF AnyLeft

LEMMA LeftNothing == Nothing \in AnyLeft
  BY DEF Nothing, AnyLeft

LEMMA TxLeftType ==
  ASSUME NEW m \in AnyMessage
  PROVE  TxLeft(m) \in AnyLeft
<1> m.n \in Nat /\ m.m \in Nat
  BY DEF AnyMessage
<1> LengthLeft(ListRead(m, 1), m.n) \in Nat /\ LengthLeft(ListRead(m, 2), m.m) \in Nat
    /\ LengthLeft(NodesRead(m), m.n) \in Nat
  BY DEF LengthLeft
<1>1. CASE ~_readMethod(m)
  BY <1>1, LeftNothing DEF TxLeft
<1>2. CASE _readMethod(m) /\ m.method = "SubmitProposal"
  <2> DEFINE a == IF _readTx(m) THEN Method(m) ELSE "Upgrade"
  <2>1. a \in TxMethods
    BY StakingMethod DEF TxMethods
  <2>2. TxLeft(m) = [method |-> a, n |-> 0, m |-> 0]
    BY <1>2 DEF TxLeft, Nothing
  <2> QED BY <2>1, <2>2, LeftOf
<1>3. CASE _readMethod(m) /\ m.method = "Amend"
  <2>1. TxLeft(m) = [method |-> "Amend", n |-> LengthLeft(ListRead(m, 1), m.n),
                     m |-> LengthLeft(ListRead(m, 2), m.m)]
    BY <1>3 DEF TxLeft
  <2>2. "Amend" \in TxMethods
    BY DEF TxMethods
  <2> QED BY <2>1, <2>2, LeftOf
<1>4. CASE _readMethod(m) /\ m.method = "RegisterEntity"
  <2>1. TxLeft(m) = [method |-> "RegisterEntity", n |-> LengthLeft(NodesRead(m), m.n),
                     m |-> 0]
    BY <1>4 DEF TxLeft, Nothing
  <2>2. "RegisterEntity" \in TxMethods
    BY DEF TxMethods
  <2> QED BY <2>1, <2>2, LeftOf
<1>5. CASE /\ _readMethod(m)
           /\ m.method \notin {"SubmitProposal", "Amend", "RegisterEntity"}
  <2>1. TxLeft(m) = [method |-> m.method, n |-> 0, m |-> 0]
    BY <1>5 DEF TxLeft, Nothing
  <2>2. m.method \in TxMethods
    BY <1>5 DEF _readMethod
  <2> QED BY <2>1, <2>2, LeftOf
<1> QED BY <1>1, <1>2, <1>3, <1>4, <1>5

LEMMA DescriptorLeftType ==
  ASSUME NEW m \in AnyMessage
  PROVE  DescriptorLeft(m) \in AnyLeft
<1> m.n \in Nat /\ m.m \in Nat
  BY DEF AnyMessage
<1> QED BY LeftNothing, LeftOf DEF DescriptorLeft

LEMMA LeftStays ==
  ASSUME NEW old \in AnyLeft, NEW m \in AnyMessage
  PROVE  LeftAfter(old, m) \in AnyLeft
<1>1. LeftAfter(old, m) \in {old, Nothing, TxLeft(m), DescriptorLeft(m)}
  BY DEF LeftAfter
<1> QED BY <1>1, LeftNothing, TxLeftType, DescriptorLeftType

LEMMA LeftCount ==
  ASSUME NEW left_ \in AnyLeft
  PROVE  TxCount(left_) \in Nat
<1> left_.n \in Nat /\ left_.m \in Nat
  BY DEF AnyLeft
<1> QED BY DEF TxCount

\* The method of what was read, without the CASE.
LEMMA MethodRead ==
  ASSUME NEW m \in AnyMessage, parser_parse(m), NEW old \in AnyMeta, NEW before
  PROVE  Parsed(m, old, before).method =
           IF BlobType(m) = "tx" THEN Method(m)
           ELSE IF BlobType(m) = "runtime" THEN RuntimeMethod(m)
           ELSE "none"
<1>1. CASE BlobType(m) = "tx"
  BY <1>1 DEF Parsed
<1>2. CASE BlobType(m) = "runtime"
  BY <1>2 DEF Parsed
<1>3. CASE BlobType(m) \in {"entity", "metadata"}
  BY <1>3 DEF Parsed
<1> QED BY <1>1, <1>2, <1>3, KindOfMessage

LEMMA ParsedType ==
  ASSUME NEW m \in AnyMessage, parser_parse(m), NEW old \in AnyMeta,
         NEW before \in AnyLeft
  PROVE  Parsed(m, old, before) \in AnyTx
<1> DEFINE t == Parsed(m, old, before)
<1>1. t.kind \in {"tx", "entity", "metadata", "runtime"} /\ t.kind = BlobType(m)
  BY KindOfMessage DEF Parsed
<1>2. t.method \in TxMethods \cup RuntimeMethods \cup {"none"}
  BY MethodRead, KindOfMessage, StakingMethod, CallMethod
<1>3. t.has_fee \in BOOLEAN /\ t.n \in Nat /\ t.m \in Nat /\ t.dataValid \in BOOLEAN
  BY DEF Parsed, AnyMessage
<1>4. t.optional \in SUBSET Range(Optional)
  BY DEF Parsed
<1>5. t.bad \in {"none", "Rate", "Bound", "Node", "Token", "To", "From", "Vote"} \X Nat
  BY DEF Parsed, AnyMessage, NoElement
<1>6. t = [kind |-> t.kind, method |-> t.method, has_fee |-> t.has_fee, n |-> t.n,
           m |-> t.m, stale |-> t.stale, dataValid |-> t.dataValid,
           optional |-> t.optional, bad |-> t.bad]
  BY DEF Parsed
<1>7. t.stale \in Nat
  <2>1. TxCount(LeftAfter(before, m)) \in Nat
    BY LeftStays, LeftCount
  <2> QED BY <2>1 DEF Parsed
<1> QED BY <1>1, <1>2, <1>3, <1>4, <1>5, <1>6, <1>7 DEF AnyTx

LEMMA OptionalCount ==
  ASSUME NEW o \in SUBSET Range(Optional)
  PROVE  IsFiniteSet(o) /\ Cardinality(o) \in 0..5
<1>1. Range(Optional) = {"Name", "URL", "Email", "Keybase", "Twitter"}
  BY DEF Range, Optional
<1>2. IsFiniteSet({"Name"}) /\ Cardinality({"Name"}) = 1
  BY FS_Singleton
<1>3. IsFiniteSet({"Name", "URL"}) /\ Cardinality({"Name", "URL"}) = 2
  BY <1>2, FS_AddElement, {"Name"} \cup {"URL"} = {"Name", "URL"}
<1>4. /\ IsFiniteSet({"Name", "URL", "Email"})
      /\ Cardinality({"Name", "URL", "Email"}) = 3
  BY <1>3, FS_AddElement, {"Name", "URL"} \cup {"Email"} = {"Name", "URL", "Email"}
<1>5. /\ IsFiniteSet({"Name", "URL", "Email", "Keybase"})
      /\ Cardinality({"Name", "URL", "Email", "Keybase"}) = 4
  BY <1>4, FS_AddElement,
     {"Name", "URL", "Email"} \cup {"Keybase"} = {"Name", "URL", "Email", "Keybase"}
<1>6. IsFiniteSet(Range(Optional)) /\ Cardinality(Range(Optional)) = 5
  BY <1>1, <1>5, FS_AddElement,
     {"Name", "URL", "Email", "Keybase"} \cup {"Twitter"} = Range(Optional)
<1> QED BY <1>6, FS_Subset, FS_CardinalityType

LEMMA CountType ==
  ASSUME NEW t \in AnyTx
  PROVE  parser_getNumItems(t) \in 0..255
<1> /\ t.n \in Nat /\ t.m \in Nat /\ t.stale \in Nat
    /\ t.optional \in SUBSET Range(Optional)
  BY DEF AnyTx
<1>1. TxCount(t) \in Nat
  BY DEF TxCount
<1>2. RuntimeCount(t) \in Nat
  BY DEF RuntimeCount, One
<1>3. _getNumItems(t) \in Nat
  BY <1>1, <1>2, OptionalCount DEF _getNumItems
<1> QED BY <1>3 DEF parser_getNumItems, One


-----------------------------------------------------------------------------
(* The invariant. *)

LEMMA InvInit == Init => ReaderInv
<1> SUFFICES ASSUME Init PROVE ReaderInv
  OBVIOUS
<1>1. message \in AnyMessage
  BY MessageAssumption DEF Init
<1>2. meta \in AnyMeta
  BY DEF Init, Ready, AnyMeta
<1>3. Unread \in AnyTx
  BY DEF Unread, AnyTx, NoElement
<1>4. TypeOK /\ shown \in Seq(AnyItem)
  BY <1>3, EmptySeq DEF Init, TypeOK
<1>5. left \in AnyLeft
  BY LeftNothing DEF Init
<1> QED BY <1>1, <1>2, <1>4, <1>5, MessageAssumption
    DEF Init, AnyLeft, ReaderInv, ReaderTypeOK, ShownInOrder, ReadFromMessage, AllRead,
        AnyMeta

LEMMA ReceiveKeeps ==
  ASSUME ReaderInv, NEW m \in Message, Receive(m)
  PROVE  ReaderInv'
<1> m \in AnyMessage
  BY MessageAssumption
<1> meta \in AnyMeta /\ left \in AnyLeft /\ received \in 0..MaxMessages
  BY DEF ReaderInv, ReaderTypeOK, AnyMeta, AnyLeft
<1>1. message' = m /\ meta' = MetaAfter(meta, m) /\ meta' \in AnyMeta
  BY MetaStays DEF Receive
<1>2. received' \in 0..MaxMessages /\ left' \in AnyLeft
  BY MessageAssumption, LeftStays DEF Receive
<1>3. shown' = <<>> /\ Len(shown') = 0 /\ shown' \in Seq(AnyItem) /\ idx' = 0
  BY EmptySeq DEF Receive
<1>4. CASE parser_parse(m)
  <2>1. /\ tx' = Parsed(m, meta, left) /\ numItems' = parser_getNumItems(tx')
        /\ status' = "walking"
    BY <1>4 DEF Receive
  <2>2. tx' \in AnyTx /\ numItems' \in 0..255
    BY <1>4, <2>1, ParsedType, CountType
  <2>3. TypeOK'
    <3>1. 0 <= numItems'
      BY <2>2
    <3> QED BY <1>3, <2>1, <2>2, <3>1 DEF TypeOK
  <2>4. ReadFromMessage'
    BY <1>1, <1>4, <2>1 DEF ReadFromMessage
  <2> QED BY <1>1, <1>2, <1>3, <2>1, <2>3, <2>4
      DEF ReaderInv, ReaderTypeOK, ShownInOrder, AllRead, AnyMeta, AnyLeft
<1>5. CASE ~parser_parse(m)
  <2>1. tx' = Unread /\ numItems' = 0 /\ status' = "refused"
    BY <1>5 DEF Receive
  <2>2. Unread \in AnyTx
    BY DEF Unread, AnyTx, NoElement
  <2>3. TypeOK'
    BY <1>3, <2>1, <2>2 DEF TypeOK
  <2> QED BY <1>1, <1>2, <1>3, <2>1, <2>3
      DEF ReaderInv, ReaderTypeOK, ShownInOrder, ReadFromMessage, AllRead, AnyMeta,
          AnyLeft
<1> QED BY <1>4, <1>5

LEMMA NextNat == \A i, n \in Nat : i < n => i + 1 <= n
  OBVIOUS

LEMMA ShowItemKeeps ==
  ASSUME ReaderInv, ShowItem, UNCHANGED <<message, meta, left, received>>
  PROVE  ReaderInv'
<1> /\ tx \in AnyTx /\ numItems \in 0..255 /\ status = "walking"
    /\ idx = Len(shown) /\ idx < numItems /\ shown \in Seq(AnyItem)
  BY DEF ReaderInv, ReaderTypeOK, TypeOK, ShownInOrder, ShowItem, Walking
<1> Len(shown) \in Nat
  BY LenProperties
<1> idx \in 0..254 /\ idx \in Nat /\ numItems \in Nat
  <2>1. \A l \in Nat, n \in 0..255 : l < n => l \in 0..254 /\ n \in Nat
    OBVIOUS
  <2>2. idx \in Nat /\ numItems \in 0..255 /\ idx < numItems
    OBVIOUS
  <2> QED BY <2>1, <2>2
<1>1. Current \in AnyItem
  <2> DEFINE c == parser_getItem(tx, idx, numItems)
  <2>1. \E t \in AnyTx, i \in Nat, n \in Nat : c = parser_getItem(t, i, n)
    OBVIOUS
  <2> QED BY <2>1 DEF Current, AnyItem
<1>2. /\ shown' = Append(shown, Current) /\ idx' = idx + 1
      /\ UNCHANGED <<tx, numItems, status>>
  BY DEF ShowItem
<1>3. /\ shown' \in Seq(AnyItem) /\ Len(shown') = Len(shown) + 1
      /\ \A i \in 1..Len(shown) : shown'[i] = shown[i]
      /\ shown'[Len(shown) + 1] = Current
  BY <1>1, <1>2, AppendProperties
<1>4. Current # NoItem /\ (Current[1] # "Token" => Readable(tx, Current))
  BY DEF ShowItem, Shows
<1>5. \A i \in 1..Len(shown') :
        /\ shown'[i] = parser_getItem(tx, i - 1, numItems)
        /\ shown'[i] # NoItem
        /\ shown'[i][1] # "Token" => Readable(tx, shown'[i])
  <2> SUFFICES ASSUME NEW i \in 1..Len(shown')
               PROVE  /\ shown'[i] = parser_getItem(tx, i - 1, numItems)
                      /\ shown'[i] # NoItem
                      /\ shown'[i][1] # "Token" => Readable(tx, shown'[i])
    OBVIOUS
  <2>1. CASE i \in 1..Len(shown)
    BY <1>3, <2>1 DEF ReaderInv, ShownInOrder
  <2>2. CASE i = Len(shown) + 1
    BY <1>3, <1>4, <2>2 DEF Current
  <2> QED BY <1>3, <2>1, <2>2
<1>6. TypeOK'
  <2>1. tx' \in AnyTx /\ numItems' \in 0..255 /\ status' = "walking"
    BY <1>2
  <2>2. idx' = Len(shown')
    BY <1>2, <1>3
  <2>3. idx' <= numItems'
    <3>1. idx + 1 <= numItems
      BY NextNat, Zenon
    <3>2. idx' = idx + 1 /\ numItems' = numItems
      BY <1>2
    <3> QED BY ONLY <3>1, <3>2, Zenon
  <2> QED BY ONLY <2>1, <2>2, <2>3 DEF TypeOK
<1>7. ShownInOrder'
  BY <1>2, <1>3, <1>5 DEF ShownInOrder
<1>8. ReaderTypeOK'
  <2>1. ReaderTypeOK
    BY DEF ReaderInv
  <2>2. UNCHANGED <<message, meta, left, received>>
    OBVIOUS
  <2> QED BY ONLY <1>6, <2>1, <2>2 DEF ReaderTypeOK
<1>9. ReadFromMessage'
  BY <1>2 DEF ReaderInv, ReadFromMessage
<1> QED BY <1>2, <1>7, <1>8, <1>9 DEF ReaderInv, AllRead

LEMMA WalkKeeps ==
  ASSUME ReaderInv, Walk
  PROVE  ReaderInv'
<1> UNCHANGED <<message, meta, left, received>>
  BY DEF Walk
<1>1. CASE ShowItem
  BY <1>1, ShowItemKeeps
<1>2. CASE Refuse
  BY <1>2 DEF Refuse, Walking, ReaderInv, ReaderTypeOK, TypeOK, ShownInOrder,
              ReadFromMessage, AllRead
<1>3. CASE Accept
  <2> numItems \in 0..255 /\ idx = Len(shown) /\ idx <= numItems
      /\ shown \in Seq(AnyItem)
    BY DEF ReaderInv, ReaderTypeOK, TypeOK, ShownInOrder
  <2> Len(shown) \in Nat
    BY LenProperties
  <2>1. AllRead'
    BY <1>3 DEF Accept, AllRead
  <2> QED BY <1>3, <2>1
      DEF Accept, ReaderInv, ReaderTypeOK, TypeOK, ShownInOrder, ReadFromMessage
<1> QED BY <1>1, <1>2, <1>3 DEF Walk, Next

LEMMA InvHolds == Spec => []ReaderInv
<1>1. ReaderInv /\ [ReaderNext]_readerVars => ReaderInv'
  <2> SUFFICES ASSUME ReaderInv, [ReaderNext]_readerVars PROVE ReaderInv'
    OBVIOUS
  <2>1. CASE Walk
    BY <2>1, WalkKeeps
  <2>2. ASSUME NEW m \in Message, Receive(m) PROVE ReaderInv'
    BY <2>2, ReceiveKeeps
  <2>3. CASE UNCHANGED readerVars
    BY <2>3 DEF readerVars, vars, ReaderInv, ReaderTypeOK, TypeOK, ShownInOrder,
                ReadFromMessage, AllRead
  <2> QED BY <2>1, <2>2, <2>3 DEF ReaderNext
<1> QED BY InvInit, <1>1, PTL DEF Spec

\* TxReader's type invariant: what every reading leaves is a transaction whose
\* items a byte counts, and the walk over them stays within the count.
THEOREM ReaderTypeCorrect == Spec => []ReaderTypeOK
  BY InvHolds, PTL DEF ReaderInv

\* A review that parser_validate lets begin has no list element that cannot be
\* read, no destination that its orig_to does not map to and no unknown vote, but
\* for the tokens that _getTokenAtIndex's caller does not check.
THEOREM ReviewIsReadable == Spec => []MalformedRefused
<1>1. ReaderInv => MalformedRefused
  <2> SUFFICES ASSUME ReaderInv, NEW item \in Range(shown), item[1] # "Token"
               PROVE  Readable(tx, item)
    BY DEF MalformedRefused
  <2>1. PICK i \in DOMAIN shown : item = shown[i]
    BY DEF Range
  <2>2. DOMAIN shown = 1..Len(shown)
    BY LenProperties DEF ReaderInv, ShownInOrder
  <2> QED BY <2>1, <2>2 DEF ReaderInv, ShownInOrder
<1> QED BY <1>1, InvHolds, PTL

-----------------------------------------------------------------------------
(* Sequences of items without repetition. *)

\* s is made of the items of C, each once.
Lists(s, C) == s \in Seq(C) /\ Range(s) = C /\ IsInjective(s)

LEMMA ListsCount ==
  ASSUME NEW s, NEW C, Lists(s, C)
  PROVE  Cardinality(C) = Len(s)
<1> s \in Seq(C) /\ Range(s) = C /\ IsInjective(s)
  BY DEF Lists
<1>1. Len(s) \in Nat /\ DOMAIN s = 1..Len(s) /\ s \in [1..Len(s) -> C]
  BY LenProperties
<1>2. s \in Surjection(1..Len(s), C)
  BY <1>1 DEF Surjection, Range
<1>3. s \in Injection(1..Len(s), C)
  BY <1>1 DEF Injection, IsInjective
<1>4. IsFiniteSet(1..Len(s)) /\ Cardinality(1..Len(s)) = Len(s)
  BY <1>1, FS_Interval
<1> QED BY <1>2, <1>3, <1>4, FS_Surjection

LEMMA ListsConcat ==
  ASSUME NEW s, NEW C, Lists(s, C), NEW t, NEW D, Lists(t, D),
         \A c \in C : c \notin D
  PROVE  Lists(s \o t, C \cup D) /\ Len(s \o t) = Len(s) + Len(t)
<1> DEFINE u == s \o t
<1>1. /\ s \in Seq(C \cup D) /\ DOMAIN s = 1..Len(s) /\ Len(s) \in Nat
      /\ t \in Seq(C \cup D) /\ DOMAIN t = 1..Len(t) /\ Len(t) \in Nat
  BY LenProperties, SeqMonotonic DEF Lists
<1>2. /\ u \in Seq(C \cup D) /\ Len(u) = Len(s) + Len(t)
      /\ \A i \in 1..(Len(s) + Len(t)) : u[i] = IF i <= Len(s) THEN s[i] ELSE t[i - Len(s)]
  BY <1>1, ConcatProperties
<1>3. DOMAIN u = 1..(Len(s) + Len(t))
  BY <1>2, LenProperties
<1>4. \A i \in 1..Len(s) : i \in DOMAIN u /\ u[i] = s[i]
  BY <1>1, <1>2, <1>3
<1>5. \A i \in 1..Len(t) : (i + Len(s)) \in DOMAIN u /\ u[i + Len(s)] = t[i]
  BY <1>1, <1>2, <1>3
<1>6. \A i \in DOMAIN u : \/ i \in 1..Len(s)
                          \/ \E j \in 1..Len(t) : i = j + Len(s)
  <2> SUFFICES ASSUME NEW i \in DOMAIN u, i \notin 1..Len(s)
               PROVE  \E j \in 1..Len(t) : i = j + Len(s)
    OBVIOUS
  <2>1. i - Len(s) \in 1..Len(t) /\ i = (i - Len(s)) + Len(s)
    BY <1>1, <1>3
  <2> QED BY <2>1
<1>7. \A i \in 1..Len(s) : s[i] \in C
  BY <1>1 DEF Lists, Range
<1>8. \A i \in 1..Len(t) : t[i] \in D
  BY <1>1 DEF Lists, Range
<1> HIDE DEF u
<1>9. Range(u) = C \cup D
  <2>1. \A c \in C : \E i \in DOMAIN u : u[i] = c
    BY <1>1, <1>4 DEF Lists, Range
  <2>2. \A d \in D : \E i \in DOMAIN u : u[i] = d
    BY <1>1, <1>5 DEF Lists, Range
  <2>3. \A i \in DOMAIN u : u[i] \in C \cup D
    BY <1>4, <1>5, <1>6, <1>7, <1>8
  <2> QED BY <2>1, <2>2, <2>3 DEF Range
<1>10. IsInjective(u)
  <2> SUFFICES ASSUME NEW i \in DOMAIN u, NEW j \in DOMAIN u, u[i] = u[j]
               PROVE  i = j
    BY DEF IsInjective
  <2>1. CASE i \in 1..Len(s) /\ j \in 1..Len(s)
    BY <2>1, <1>1, <1>4 DEF Lists, IsInjective
  <2>2. CASE i \notin 1..Len(s) /\ j \notin 1..Len(s)
    <3>1. PICK k \in 1..Len(t) : i = k + Len(s)
      BY <2>2, <1>6
    <3>2. PICK l \in 1..Len(t) : j = l + Len(s)
      BY <2>2, <1>6
    <3>3. t[k] = t[l]
      BY <3>1, <3>2, <1>5
    <3> QED BY <3>1, <3>2, <3>3, <1>1 DEF Lists, IsInjective
  <2>3. CASE i \in 1..Len(s) /\ j \notin 1..Len(s)
    BY <2>3, <1>4, <1>5, <1>6, <1>7, <1>8
  <2>4. CASE i \notin 1..Len(s) /\ j \in 1..Len(s)
    BY <2>4, <1>4, <1>5, <1>6, <1>7, <1>8
  <2> QED BY <2>1, <2>2, <2>3, <2>4
<1> QED BY <1>2, <1>9, <1>10 DEF Lists, u

ItemsOf(K) == {Item(k) : k \in K}

\* The same, for parts and a whole that have names of their own.
Joined(u, E, s, C, t, D) ==
  u = s \o t /\ E = C \cup D /\ \A c \in C : c \notin D

LEMMA ListsJoined ==
  ASSUME NEW u, NEW E, NEW s, NEW C, NEW t, NEW D,
         Joined(u, E, s, C, t, D), Lists(s, C), Lists(t, D)
  PROVE  Lists(u, E) /\ Len(u) = Len(s) + Len(t)
  BY ListsConcat DEF Joined

LEMMA ItemsApart ==
  ASSUME NEW A, NEW B, \A a \in A : a \notin B
  PROVE  \A x \in ItemsOf(A) : x \notin ItemsOf(B)
  BY DEF ItemsOf, Item

\* Elements are counted from one, other items have no number.
LEMMA ElementsApart ==
  ASSUME NEW A, NEW B, NEW n
  PROVE  \A x \in ItemsOf(A) : x \notin B \X (1..n)
  BY DEF ItemsOf, Item

LEMMA ListsNamed ==
  ASSUME NEW K, NEW keys \in Seq(K), Range(keys) = K, IsInjective(keys)
  PROVE  /\ Lists(Named(keys), ItemsOf(K))
         /\ Len(Named(keys)) = Len(keys)
         /\ \A i \in 1..Len(keys) : Named(keys)[i] = Item(keys[i])
<1> DEFINE C == ItemsOf(K)
<1>1. Len(keys) \in Nat /\ DOMAIN keys = 1..Len(keys) /\ keys \in [1..Len(keys) -> K]
  BY LenProperties
<1>2. \A i \in 1..Len(keys) : Named(keys)[i] = Item(keys[i])
  BY <1>1 DEF Named
<1>3. DOMAIN Named(keys) = 1..Len(keys)
  BY <1>1 DEF Named
<1>4. Range(Named(keys)) = C
  BY <1>1, <1>2, <1>3 DEF Range, ItemsOf
<1>5. Named(keys) \in [1..Len(keys) -> C]
  BY <1>1 DEF Named, ItemsOf
<1>6. Named(keys) \in Seq(C) /\ Len(Named(keys)) = Len(keys)
  BY <1>1, <1>3, <1>5, SeqDef
<1>7. IsInjective(Named(keys))
  BY <1>1, <1>2, <1>3 DEF IsInjective, Item
<1> QED BY <1>2, <1>4, <1>6, <1>7 DEF Lists

LEMMA NamedOne ==
  ASSUME NEW a
  PROVE  /\ Lists(Named(<<a>>), ItemsOf({a}))
         /\ Len(Named(<<a>>)) = 1
<1> DEFINE keys == <<a>>
           K == {a}
<1>1. keys \in Seq(K) /\ Len(keys) = 1 /\ DOMAIN keys = 1..1
  OBVIOUS
<1>2. keys[1] = a
  OBVIOUS
<1> HIDE DEF keys
<1>3. IsInjective(keys)
  BY <1>1, <1>2 DEF IsInjective
<1>4. Range(keys) = K
  <2>1. \A x \in Range(keys) : x \in K
    BY <1>1, <1>2 DEF Range
  <2>2. \A x \in K : \E i \in 1..1 : keys[i] = x
    BY <1>2
  <2> QED BY <1>1, <2>1, <2>2 DEF Range
<1> HIDE DEF K
<1>5. Lists(Named(keys), ItemsOf(K)) /\ Len(Named(keys)) = 1
  BY <1>1, <1>3, <1>4, ListsNamed
<1> QED BY <1>5 DEF keys, K

LEMMA NamedTwo ==
  ASSUME NEW a, NEW b,
         a # b
  PROVE  /\ Lists(Named(<<a, b>>), ItemsOf({a, b}))
         /\ Len(Named(<<a, b>>)) = 2
<1> DEFINE keys == <<a, b>>
           K == {a, b}
<1>1. keys \in Seq(K) /\ Len(keys) = 2 /\ DOMAIN keys = 1..2
  OBVIOUS
<1>2. keys[1] = a /\ keys[2] = b
  OBVIOUS
<1> HIDE DEF keys
<1>3. IsInjective(keys)
  BY <1>1, <1>2 DEF IsInjective
<1>4. Range(keys) = K
  <2>1. \A x \in Range(keys) : x \in K
    BY <1>1, <1>2 DEF Range
  <2>2. \A x \in K : \E i \in 1..2 : keys[i] = x
    BY <1>2
  <2> QED BY <1>1, <2>1, <2>2 DEF Range
<1> HIDE DEF K
<1>5. Lists(Named(keys), ItemsOf(K)) /\ Len(Named(keys)) = 2
  BY <1>1, <1>3, <1>4, ListsNamed
<1> QED BY <1>5 DEF keys, K

LEMMA NamedThree ==
  ASSUME NEW a, NEW b, NEW c,
         a # b, a # c, b # c
  PROVE  /\ Lists(Named(<<a, b, c>>), ItemsOf({a, b, c}))
         /\ Len(Named(<<a, b, c>>)) = 3
<1> DEFINE keys == <<a, b, c>>
           K == {a, b, c}
<1>1. keys \in Seq(K) /\ Len(keys) = 3 /\ DOMAIN keys = 1..3
  OBVIOUS
<1>2. keys[1] = a /\ keys[2] = b /\ keys[3] = c
  OBVIOUS
<1> HIDE DEF keys
<1>3. IsInjective(keys)
  BY <1>1, <1>2 DEF IsInjective
<1>4. Range(keys) = K
  <2>1. \A x \in Range(keys) : x \in K
    BY <1>1, <1>2 DEF Range
  <2>2. \A x \in K : \E i \in 1..3 : keys[i] = x
    BY <1>2
  <2> QED BY <1>1, <2>1, <2>2 DEF Range
<1> HIDE DEF K
<1>5. Lists(Named(keys), ItemsOf(K)) /\ Len(Named(keys)) = 3
  BY <1>1, <1>3, <1>4, ListsNamed
<1> QED BY <1>5 DEF keys, K

LEMMA NamedFour ==
  ASSUME NEW a, NEW b, NEW c, NEW d,
         a # b, a # c, a # d, b # c, b # d, c # d
  PROVE  /\ Lists(Named(<<a, b, c, d>>), ItemsOf({a, b, c, d}))
         /\ Len(Named(<<a, b, c, d>>)) = 4
<1> DEFINE keys == <<a, b, c, d>>
           K == {a, b, c, d}
<1>1. keys \in Seq(K) /\ Len(keys) = 4 /\ DOMAIN keys = 1..4
  OBVIOUS
<1>2. keys[1] = a /\ keys[2] = b /\ keys[3] = c /\ keys[4] = d
  OBVIOUS
<1> HIDE DEF keys
<1>3. IsInjective(keys)
  BY <1>1, <1>2 DEF IsInjective
<1>4. Range(keys) = K
  <2>1. \A x \in Range(keys) : x \in K
    BY <1>1, <1>2 DEF Range
  <2>2. \A x \in K : \E i \in 1..4 : keys[i] = x
    BY <1>2
  <2> QED BY <1>1, <2>1, <2>2 DEF Range
<1> HIDE DEF K
<1>5. Lists(Named(keys), ItemsOf(K)) /\ Len(Named(keys)) = 4
  BY <1>1, <1>3, <1>4, ListsNamed
<1> QED BY <1>5 DEF keys, K

LEMMA NamedFive ==
  ASSUME NEW a, NEW b, NEW c, NEW d, NEW e,
         a # b, a # c, a # d, a # e, b # c, b # d, b # e, c # d, c # e,
         d # e
  PROVE  /\ Lists(Named(<<a, b, c, d, e>>), ItemsOf({a, b, c, d, e}))
         /\ Len(Named(<<a, b, c, d, e>>)) = 5
<1> DEFINE keys == <<a, b, c, d, e>>
           K == {a, b, c, d, e}
<1>1. keys \in Seq(K) /\ Len(keys) = 5 /\ DOMAIN keys = 1..5
  OBVIOUS
<1>2. keys[1] = a /\ keys[2] = b /\ keys[3] = c /\ keys[4] = d /\ keys[5] = e
  OBVIOUS
<1> HIDE DEF keys
<1>3. IsInjective(keys)
  BY <1>1, <1>2 DEF IsInjective
<1>4. Range(keys) = K
  <2>1. \A x \in Range(keys) : x \in K
    BY <1>1, <1>2 DEF Range
  <2>2. \A x \in K : \E i \in 1..5 : keys[i] = x
    BY <1>2
  <2> QED BY <1>1, <2>1, <2>2 DEF Range
<1> HIDE DEF K
<1>5. Lists(Named(keys), ItemsOf(K)) /\ Len(Named(keys)) = 5
  BY <1>1, <1>3, <1>4, ListsNamed
<1> QED BY <1>5 DEF keys, K

LEMMA NamedSeven ==
  ASSUME NEW a, NEW b, NEW c, NEW d, NEW e, NEW f, NEW g,
         a # b, a # c, a # d, a # e, a # f, a # g, b # c, b # d, b # e,
         b # f, b # g, c # d, c # e, c # f, c # g, d # e, d # f, d # g,
         e # f, e # g, f # g
  PROVE  /\ Lists(Named(<<a, b, c, d, e, f, g>>), ItemsOf({a, b, c, d, e, f, g}))
         /\ Len(Named(<<a, b, c, d, e, f, g>>)) = 7
<1> DEFINE keys == <<a, b, c, d, e, f, g>>
           K == {a, b, c, d, e, f, g}
<1>1. keys \in Seq(K) /\ Len(keys) = 7 /\ DOMAIN keys = 1..7
  OBVIOUS
<1>2. keys[1] = a /\ keys[2] = b /\ keys[3] = c /\ keys[4] = d /\ keys[5] = e /\ keys[6] = f /\ keys[7] = g
  OBVIOUS
<1> HIDE DEF keys
<1>3. IsInjective(keys)
  BY <1>1, <1>2 DEF IsInjective
<1>4. Range(keys) = K
  <2>1. \A x \in Range(keys) : x \in K
    BY <1>1, <1>2 DEF Range
  <2>2. \A x \in K : \E i \in 1..7 : keys[i] = x
    BY <1>2
  <2> QED BY <1>1, <2>1, <2>2 DEF Range
<1> HIDE DEF K
<1>5. Lists(Named(keys), ItemsOf(K)) /\ Len(Named(keys)) = 7
  BY <1>1, <1>3, <1>4, ListsNamed
<1> QED BY <1>5 DEF keys, K

LEMMA PlaceOfTwo ==
  ASSUME NEW n \in Nat, NEW a \in 1..2, NEW b \in 1..n
  PROVE  LET i == 2 * (b - 1) + a IN
         i \in 1..(n * 2) /\ ((i - 1) % 2) + 1 = a /\ ((i - 1) \div 2) + 1 = b
<1>1. CASE a = 1
  BY <1>1
<1>2. CASE a = 2
  BY <1>2
<1> QED BY <1>1, <1>2

LEMMA PlaceOfThree ==
  ASSUME NEW n \in Nat, NEW a \in 1..3, NEW b \in 1..n
  PROVE  LET i == 3 * (b - 1) + a IN
         i \in 1..(n * 3) /\ ((i - 1) % 3) + 1 = a /\ ((i - 1) \div 3) + 1 = b
<1>1. CASE a = 1
  BY <1>1
<1>2. CASE a = 2
  BY <1>2
<1>3. CASE a = 3
  BY <1>3
<1> QED BY <1>1, <1>2, <1>3

\* A list of elements with one, two or three keys.
LEMMA ListsElements ==
  ASSUME NEW K, NEW keys \in Seq(K), Range(keys) = K, IsInjective(keys),
         Len(keys) \in 1..3, NEW n \in Nat
  PROVE  /\ Lists(Elements(keys, n), K \X (1..n))
         /\ Len(Elements(keys, n)) = n * Len(keys)
<1> DEFINE e == Elements(keys, n)
           k == Len(keys)
           L == n * k
           r == [i \in 1..L |-> ((i - 1) % k) + 1]
           q == [i \in 1..L |-> ((i - 1) \div k) + 1]
<1>1. k \in 1..3 /\ L \in Nat /\ DOMAIN keys = 1..k /\ \A i \in 1..k : keys[i] \in K
  <2>1. n \in Nat /\ n * 2 \in Nat /\ n * 3 \in Nat /\ n * 1 \in Nat
    OBVIOUS
  <2> QED BY <2>1, LenProperties
<1>2. /\ \A i \in 1..L : r[i] \in 1..k /\ q[i] \in 1..n
      /\ \A i, j \in 1..L : r[i] = r[j] /\ q[i] = q[j] => i = j
  <2>1. CASE k = 1
    BY <2>1
  <2>2. CASE k = 2
    BY <2>2
  <2>3. CASE k = 3
    BY <2>3
  <2> QED BY <1>1, <2>1, <2>2, <2>3
<1>3. \A a \in 1..k, b \in 1..n : \E i \in 1..L : r[i] = a /\ q[i] = b
  <2> SUFFICES ASSUME NEW a \in 1..k, NEW b \in 1..n
               PROVE  \E i \in 1..L : r[i] = a /\ q[i] = b
    OBVIOUS
  <2>1. CASE k = 1
    <3>1. b \in 1..L /\ r[b] = a /\ q[b] = b
      BY <2>1
    <3> QED BY <3>1
  <2>2. CASE k = 2
    <3> DEFINE i == 2 * (b - 1) + a
    <3>1. i \in 1..(n * 2) /\ ((i - 1) % 2) + 1 = a /\ ((i - 1) \div 2) + 1 = b
      BY <2>2, PlaceOfTwo
    <3> HIDE DEF i
    <3>2. i \in 1..L /\ r[i] = a /\ q[i] = b
      BY <3>1, <2>2
    <3> QED BY <3>2
  <2>3. CASE k = 3
    <3> DEFINE i == 3 * (b - 1) + a
    <3>1. i \in 1..(n * 3) /\ ((i - 1) % 3) + 1 = a /\ ((i - 1) \div 3) + 1 = b
      BY <2>3, PlaceOfThree
    <3> HIDE DEF i
    <3>2. i \in 1..L /\ r[i] = a /\ q[i] = b
      BY <3>1, <2>3
    <3> QED BY <3>2
  <2> QED BY <1>1, <2>1, <2>2, <2>3
<1>4. DOMAIN e = 1..L /\ \A i \in 1..L : e[i] = <<keys[r[i]], q[i]>>
  BY DEF Elements
<1>5. e = [i \in 1..L |-> e[i]]
  BY DEF Elements
<1> HIDE DEF e, r, q, L, k
<1>6. \A i \in 1..L : e[i] \in K \X (1..n)
  <2> TAKE i \in 1..L
  <2>1. r[i] \in 1..k /\ q[i] \in 1..n
    BY <1>2
  <2>2. e[i] = <<keys[r[i]], q[i]>>
    BY <1>4
  <2> QED BY <1>1, <2>1, <2>2
<1>7. Range(e) = K \X (1..n)
  <2>1. ASSUME NEW p \in K \X (1..n) PROVE \E i \in 1..L : e[i] = p
    <3>1. PICK a \in 1..k : p[1] = keys[a]
      BY <1>1 DEF Range
    <3>2. p[2] \in 1..n /\ p = <<p[1], p[2]>>
      OBVIOUS
    <3>3. PICK i \in 1..L : r[i] = a /\ q[i] = p[2]
      BY <1>3, <3>2
    <3> QED BY <1>4, <3>1, <3>2, <3>3
  <2>2. Range(e) \subseteq K \X (1..n)
    BY <1>6, <1>4 DEF Range
  <2>3. K \X (1..n) \subseteq Range(e)
    BY <2>1, <1>4 DEF Range
  <2> QED BY <2>2, <2>3
<1>8. IsInjective(e)
  <2> SUFFICES ASSUME NEW i \in 1..L, NEW j \in 1..L, e[i] = e[j] PROVE i = j
    BY <1>4 DEF IsInjective
  <2>1. keys[r[i]] = keys[r[j]] /\ q[i] = q[j]
    BY <1>4
  <2>2. r[i] = r[j]
    BY <1>1, <1>2, <2>1 DEF IsInjective
  <2> QED BY <1>2, <2>1, <2>2
<1>9. e \in Seq(K \X (1..n)) /\ Len(e) = L
  <2>1. e \in [1..L -> K \X (1..n)]
    BY <1>5, <1>6
  <2> QED BY <2>1, <1>1, <1>4, SeqDef
<1> QED BY <1>7, <1>8, <1>9 DEF Lists, e, L, k

-----------------------------------------------------------------------------
(* The whole review, once the walk has come to its end. *)

\* Each item of C is shown exactly once, and nothing else.
Reviewed(C) == Range(shown) = C /\ Len(shown) = Cardinality(C)

LEMMA ShownTo ==
  ASSUME ReaderInv, status = "ok"
  PROVE  /\ shown \in Seq(AnyItem) /\ DOMAIN shown = 1..numItems
         /\ Len(shown) = numItems /\ numItems \in 0..255
         /\ tx \in AnyTx /\ numItems = parser_getNumItems(tx)
         /\ \A i \in 1..numItems : shown[i] = parser_getItem(tx, i - 1, numItems)
<1>1. /\ numItems \in 0..255 /\ tx \in AnyTx /\ idx = Len(shown) /\ idx = numItems
      /\ shown \in Seq(AnyItem) /\ numItems = parser_getNumItems(tx)
  BY DEF ReaderInv, ReaderTypeOK, TypeOK, ShownInOrder, AllRead, ReadFromMessage
<1>2. DOMAIN shown = 1..Len(shown)
  BY <1>1, LenProperties
<1> QED BY <1>1, <1>2 DEF ReaderInv, ShownInOrder

LEMMA ReviewIs ==
  ASSUME ReaderInv, status = "ok", NEW s, NEW C, Lists(s, C), numItems = Len(s),
         \A i \in 1..Len(s) : parser_getItem(tx, i - 1, numItems) = s[i]
  PROVE  Reviewed(C)
<1>1. DOMAIN s = 1..Len(s) /\ Range(s) = C
  BY LenProperties DEF Lists
<1>2. Range(shown) = Range(s)
  BY <1>1, ShownTo DEF Range
<1> QED BY <1>1, <1>2, ShownTo, ListsCount DEF Reviewed

NetworkItem == Item("Network")

LEMMA NetworkItems == ItemsOf({"Network"}) = {NetworkItem}
BY DEF ItemsOf, NetworkItem

LEMMA ListsNetwork ==
  /\ Lists(Named(<<"Network">>), {NetworkItem})
  /\ Len(Named(<<"Network">>)) = 1
  /\ Named(<<"Network">>)[1] = NetworkItem
<1>1. Lists(Named(<<"Network">>), {NetworkItem}) /\ Len(Named(<<"Network">>)) = 1
  <2>1. ItemsOf({"Network"}) = {NetworkItem}
    BY DEF ItemsOf, NetworkItem
  <2> QED BY <2>1, NamedOne
<1> QED BY <1>1 DEF Named, NetworkItem

\* With the network as the last item.
LEMMA ReviewWithNetwork ==
  ASSUME ReaderInv, status = "ok", HasSuffix(tx), NEW s, NEW D, Lists(s, D),
         NetworkItem \notin D, numItems = Len(s) + 1,
         \A i \in 1..Len(s) : parser_getItem(tx, i - 1, numItems) = s[i]
  PROVE  Reviewed(D \cup {NetworkItem})
<1> DEFINE u == s \o Named(<<"Network">>)
<1>1. Lists(u, D \cup {NetworkItem}) /\ Len(u) = Len(s) + 1
  <2>1. \A d \in D : d \notin {NetworkItem}
    OBVIOUS
  <2> QED BY <2>1, ListsNetwork, ListsConcat
<1> DEFINE all == D \cup {NetworkItem}
<1>2. s \in Seq(all) /\ Len(s) \in Nat /\ Named(<<"Network">>) \in Seq(all)
  BY ListsNetwork, LenProperties, SeqMonotonic DEF Lists
<1>3. \A i \in 1..(Len(s) + 1) : u[i] = IF i <= Len(s) THEN s[i] ELSE NetworkItem
  <2> TAKE i \in 1..(Len(s) + 1)
  <2>1. u[i] = IF i <= Len(s) THEN s[i] ELSE Named(<<"Network">>)[i - Len(s)]
    BY <1>2, ListsNetwork, ConcatProperties
  <2>2. i > Len(s) => i - Len(s) = 1
    BY <1>2
  <2> QED BY <1>2, <2>1, <2>2, ListsNetwork
<1> HIDE DEF u
<1>4. parser_getItem(tx, Len(s), numItems) = NetworkItem
  BY <1>2 DEF parser_getItem, NetworkItem
<1>5. \A i \in 1..(Len(s) + 1) : parser_getItem(tx, i - 1, numItems) = u[i]
  <2> TAKE i \in 1..(Len(s) + 1)
  <2>1. CASE i <= Len(s)
    BY <1>2, <1>3, <2>1
  <2>2. CASE i = Len(s) + 1
    BY <1>2, <1>3, <1>4, <2>2
  <2> QED BY <1>2, <2>1, <2>2
<1> QED BY <1>1, <1>5, ReviewIs

-----------------------------------------------------------------------------
(* Consensus transactions. *)

FeeSet == {Item("Fee"), Item("Gas limit")}

LEMMA ListsFee == Lists(FeeItems, FeeSet) /\ Len(FeeItems) = 2
<1>1. ItemsOf({"Fee", "Gas limit"}) = FeeSet
  BY DEF ItemsOf, FeeSet
<1> QED BY <1>1, NamedTwo, "Fee" # "Gas limit" DEF FeeItems

LEMMA SmallIndex ==
  ASSUME NEW i \in 0..127
  PROVE  Signed8(i) = i
  BY DEF Signed8

LEMMA TxCountIs ==
  ASSUME NEW t \in AnyTx, t.kind = "tx", TxCount(t) \in 0..251
  PROVE  parser_getNumItems(t) = (IF t.has_fee THEN 3 ELSE 1) + TxCount(t) + 1
<1> DEFINE n == (IF t.has_fee THEN 3 ELSE 1) + TxCount(t)
<1>1. n \in 0..254
  OBVIOUS
<1>2. _getNumItems(t) = n % 256
  BY DEF _getNumItems
<1>3. HasSuffix(t)
  BY DEF HasSuffix
<1> HIDE DEF n
<1>4. parser_getNumItems(t) = n + 1
  BY <1>1, <1>2, <1>3 DEF parser_getNumItems, One
<1> QED BY <1>4 DEF n

LEMMA TxReview ==
  ASSUME ReaderInv, status = "ok", tx.kind = "tx", NEW front, NEW D, Lists(front, D),
         TxItems(tx) = front \o FeeItems, Len(front) \in 1..252,
         TxCount(tx) = Len(front) - 1, tx.method = "Amend" \/ Len(front) <= 100,
         \A f \in D : f \notin FeeSet /\ f # NetworkItem
  PROVE  Reviewed((D \cup (IF tx.has_fee THEN FeeSet ELSE {})) \cup {NetworkItem})
<1> DEFINE whole == front \o FeeItems
           both == D \cup FeeSet
<1>1. numItems = (IF tx.has_fee THEN 3 ELSE 1) + (Len(front) - 1) + 1
  <2>1. TxCount(tx) \in 0..251
    OBVIOUS
  <2> QED BY <2>1, ShownTo, TxCountIs
<1>2. HasSuffix(tx)
  BY DEF HasSuffix
<1>3. Lists(whole, both) /\ Len(whole) = Len(front) + 2
  BY ListsFee, ListsConcat
<1>4. DOMAIN whole = 1..(Len(front) + 2)
  BY <1>3, LenProperties DEF Lists
<1>5. \A i \in 1..Len(front) : whole[i] = front[i]
  <2>1. front \in Seq(both) /\ FeeItems \in Seq(both)
    BY ListsFee, SeqMonotonic DEF Lists
  <2> QED BY <2>1, ListsFee, ConcatProperties
<1> HIDE DEF whole
<1>6. \A i \in 1..(numItems - 1) : parser_getItem(tx, i - 1, numItems) = whole[i]
  <2> TAKE i \in 1..(numItems - 1)
  <2>1. i - 1 < numItems /\ (i - 1) + 1 # numItems /\ i \in DOMAIN whole
    BY <1>1, <1>4
  <2>2. (IF tx.method = "Amend" THEN i - 1 ELSE Signed8(i - 1)) = i - 1
    <3> DEFINE j == i - 1
    <3>1. tx.method # "Amend" => j \in 0..127
      BY <1>1
    <3> HIDE DEF j
    <3>2. tx.method # "Amend" => Signed8(j) = j
      BY ONLY <3>1, SmallIndex
    <3> QED BY <3>2 DEF j
  <2>3. parser_getItem(tx, i - 1, numItems) = At(whole, i - 1)
    <3>1. ~(i - 1 >= numItems)
      BY <1>1
    <3> QED BY <2>1, <2>2, <3>1 DEF parser_getItem, whole
  <2> QED BY <2>1, <2>3 DEF At
<1>7. NetworkItem \notin FeeSet
  BY DEF NetworkItem, FeeSet, Item
<1>8. CASE tx.has_fee
  <2>1. numItems = Len(whole) + 1
    BY <1>1, <1>3, <1>8
  <2>2. NetworkItem \notin both
    BY <1>7
  <2>3. \A i \in 1..Len(whole) : parser_getItem(tx, i - 1, numItems) = whole[i]
    BY <1>3, <1>6, <2>1
  <2>4. Reviewed(both \cup {NetworkItem})
    BY <1>2, <1>3, <2>1, <2>2, <2>3, ReviewWithNetwork
  <2> QED BY <1>8, <2>4
<1>9. CASE ~tx.has_fee
  <2>1. numItems = Len(front) + 1
    BY <1>1, <1>9
  <2>2. \A i \in 1..Len(front) : parser_getItem(tx, i - 1, numItems) = front[i]
    BY <1>5, <1>6, <2>1
  <2>3. Reviewed(D \cup {NetworkItem})
    BY <1>2, <2>1, <2>2, ReviewWithNetwork
  <2>4. (D \cup (IF tx.has_fee THEN FeeSet ELSE {})) = D
    BY <1>9
  <2> QED BY <2>3, <2>4
<1> QED BY <1>8, <1>9

LEMMA ItemsOfUnion ==
  ASSUME NEW A, NEW B
  PROVE  ItemsOf(A \cup B) = ItemsOf(A) \cup ItemsOf(B)
  BY DEF ItemsOf

LEMMA TxContent ==
  ASSUME NEW t \in AnyTx, t.kind = "tx", t.method \in TxMethods
  PROVE  Content(t) = ((ItemsOf({"Type"} \cup MethodFields[t.method])
                          \cup ElementItems(t))
                         \cup (IF t.has_fee THEN FeeSet ELSE {})) \cup {NetworkItem}
<1> DEFINE fields == CASE t.kind = "entity"   -> {"ID"}
                       [] t.kind = "metadata" -> {"Version", "Serial"} \cup t.optional
                       [] OTHER -> MethodFields[t.method] \cup {"Network"}
           fee == IF t.kind = "runtime" THEN {"Fee", "Gas limit", "ParaTime"}
                  ELSE IF t.kind = "tx" /\ t.has_fee THEN {"Fee", "Gas limit"}
                  ELSE {}
           data == IF t.kind = "runtime" /\ t.dataValid THEN {"Data"} ELSE {}
<1>1. Content(t) = ItemsOf({Title(t)} \cup fields \cup fee \cup data) \cup ElementItems(t)
  BY DEF Content, ItemsOf
<1>2. fields = MethodFields[t.method] \cup {"Network"}
  OBVIOUS
<1>3. fee = (IF t.has_fee THEN {"Fee", "Gas limit"} ELSE {}) /\ data = {}
  OBVIOUS
<1>4. Title(t) = "Type"
  BY DEF Title, TxMethods, ContractMethods
<1> HIDE DEF fields, fee, data
<1>5. ItemsOf({"Fee", "Gas limit"}) = FeeSet /\ ItemsOf({"Network"}) = {NetworkItem}
      /\ ItemsOf({}) = {}
  BY DEF ItemsOf, FeeSet, NetworkItem
<1>6. ItemsOf(fee) = (IF t.has_fee THEN FeeSet ELSE {})
  BY <1>3, <1>5
<1>7. ItemsOf({"Type"} \cup fields \cup fee \cup data)
        = (ItemsOf({"Type"}) \cup (ItemsOf(MethodFields[t.method]) \cup {NetworkItem}))
            \cup ItemsOf(fee)
  <2>1. ItemsOf(fields) = ItemsOf(MethodFields[t.method]) \cup {NetworkItem}
    BY <1>2 DEF ItemsOf, NetworkItem
  <2>2. ItemsOf({"Type"} \cup fields) = ItemsOf({"Type"}) \cup ItemsOf(fields)
    BY ItemsOfUnion
  <2>3. ({"Type"} \cup fields \cup fee) \cup data = ({"Type"} \cup fields) \cup fee
    BY <1>3
  <2>4. ItemsOf(({"Type"} \cup fields) \cup fee) = ItemsOf({"Type"} \cup fields) \cup ItemsOf(fee)
    BY ItemsOfUnion
  <2> QED BY <2>1, <2>2, <2>3, <2>4
<1>8. ItemsOf({"Type"} \cup MethodFields[t.method])
        = ItemsOf({"Type"}) \cup ItemsOf(MethodFields[t.method])
  BY ItemsOfUnion
<1> QED BY <1>1, <1>4, <1>6, <1>7, <1>8

LEMMA TxItemsAre ==
  ASSUME NEW t, t.method \in TxMethods
  PROVE  /\ t.method \in DOMAIN StakingKeys =>
              TxItems(t) = Named(StakingKeys[t.method]) \o FeeItems
         /\ t.method \in DOMAIN EscrowKeys =>
              TxItems(t) = Named(EscrowKeys[t.method]) \o FeeItems
         /\ t.method \in DOMAIN GovernanceKeys =>
              TxItems(t) = Named(GovernanceKeys[t.method]) \o FeeItems
         /\ t.method = "Amend" => TxItems(t) = AmendItems(t)
         /\ t.method \in {"Deregister", "Unfreeze", "RegisterEntity"} =>
              TxItems(t) = RegistryItems(t)
<1>1. DOMAIN StakingKeys = {"Transfer", "Burn", "Withdraw", "Allow"}
  BY DEF StakingKeys
<1>2. DOMAIN EscrowKeys = {"Escrow", "ReclaimEscrow"}
  BY DEF EscrowKeys
<1>3. DOMAIN GovernanceKeys = {"CastVote", "CancelUpgrade", "Upgrade"}
  BY DEF GovernanceKeys
<1>4. CASE t.method \in {"Transfer", "Burn", "Withdraw", "Allow"}
  BY <1>1, <1>2, <1>3, <1>4 DEF TxItems
<1>5. CASE t.method \in {"Escrow", "ReclaimEscrow"}
  BY <1>1, <1>2, <1>3, <1>5 DEF TxItems
<1>6. CASE t.method \in {"CastVote", "CancelUpgrade", "Upgrade"}
  BY <1>1, <1>2, <1>3, <1>6 DEF TxItems
<1>7. CASE t.method = "Amend"
  BY <1>1, <1>2, <1>3, <1>7 DEF TxItems
<1>8. CASE t.method \in {"Deregister", "Unfreeze", "RegisterEntity"}
  BY <1>1, <1>2, <1>3, <1>8 DEF TxItems
<1> QED BY <1>4, <1>5, <1>6, <1>7, <1>8 DEF TxMethods

LEMMA ShortIsFine ==
  ASSUME NEW n \in 1..7
  PROVE  n \in 1..252 /\ n <= 100
  OBVIOUS

LEMMA OtherItems ==
  ASSUME NEW K, "Fee" \notin K, "Gas limit" \notin K, "Network" \notin K,
         NEW f \in ItemsOf(K)
  PROVE  f \notin FeeSet /\ f # NetworkItem
<1>1. PICK k \in K : f = Item(k)
  BY DEF ItemsOf
<1>2. k # "Fee" /\ k # "Gas limit" /\ k # "Network"
  OBVIOUS
<1> QED BY <1>1, <1>2 DEF FeeSet, NetworkItem, Item

\* A method whose items have fixed places.
LEMMA FixedTx ==
  ASSUME ReaderInv, status = "ok", tx.kind = "tx", NEW front, NEW K,
         Lists(front, ItemsOf(K)), K = {"Type"} \cup MethodFields[tx.method],
         "Fee" \notin K, "Gas limit" \notin K, "Network" \notin K,
         TxItems(tx) = front \o FeeItems, Len(front) \in 1..7,
         TxCount(tx) = Len(front) - 1,
         tx.method \in TxMethods \ {"Amend", "RegisterEntity", "Unfreeze"}
  PROVE  Reviewed(Content(tx))
<1> DEFINE D == ItemsOf(K)
<1>1. tx \in AnyTx
  BY ShownTo
<1>2. ElementItems(tx) = {}
  BY DEF ElementItems, TxMethods, ContractMethods
<1>3. Len(front) \in 1..252 /\ Len(front) <= 100
  BY ShortIsFine
<1>4. \A f \in D : f \notin FeeSet /\ f # NetworkItem
  BY OtherItems
<1>5. Reviewed((D \cup (IF tx.has_fee THEN FeeSet ELSE {})) \cup {NetworkItem})
  BY <1>3, <1>4, TxReview
<1>6. Content(tx) = (D \cup (IF tx.has_fee THEN FeeSet ELSE {})) \cup {NetworkItem}
  BY <1>1, <1>2, TxContent
<1> QED BY <1>5, <1>6

LEMMA StakingRecord ==
  ASSUME NEW a, NEW b, NEW c, NEW d
  PROVE  /\ [Transfer |-> a, Burn |-> b, Withdraw |-> c, Allow |-> d]["Transfer"] = a
         /\ [Transfer |-> a, Burn |-> b, Withdraw |-> c, Allow |-> d]["Burn"] = b
         /\ [Transfer |-> a, Burn |-> b, Withdraw |-> c, Allow |-> d]["Withdraw"] = c
         /\ [Transfer |-> a, Burn |-> b, Withdraw |-> c, Allow |-> d]["Allow"] = d
  OBVIOUS

LEMMA GovernanceRecord ==
  ASSUME NEW a, NEW b, NEW c
  PROVE  /\ [CastVote |-> a, CancelUpgrade |-> b, Upgrade |-> c]["CastVote"] = a
         /\ [CastVote |-> a, CancelUpgrade |-> b, Upgrade |-> c]["CancelUpgrade"] = b
         /\ [CastVote |-> a, CancelUpgrade |-> b, Upgrade |-> c]["Upgrade"] = c
  OBVIOUS

LEMMA TransferReviewed ==
  ASSUME ReaderInv, status = "ok", tx.kind = "tx", tx.method = "Transfer"
  PROVE  Reviewed(Content(tx))
<1> DEFINE front == Named(<<"Type", "To", "Amount">>)
           K == {"Type", "To", "Amount"}
<1>1. Lists(front, ItemsOf(K)) /\ Len(front) = 3
  BY NamedThree
<1>2. K = {"Type"} \cup MethodFields[tx.method]
  BY DEF MethodFields
<1>3. TxItems(tx) = front \o FeeItems
  <2>1. tx.method \in DOMAIN StakingKeys
    BY DEF StakingKeys
  <2>2. StakingKeys["Transfer"] = <<"Type", "To", "Amount">>
    BY StakingRecord DEF StakingKeys
  <2>3. tx.method \in TxMethods
    BY DEF TxMethods
  <2> QED BY <2>1, <2>2, <2>3, TxItemsAre
<1>4. TxCount(tx) = 2
  BY DEF TxCount
<1>5. "Fee" \notin K /\ "Gas limit" \notin K /\ "Network" \notin K
  OBVIOUS
<1>6. tx.method \in TxMethods \ {"Amend", "RegisterEntity", "Unfreeze"}
  BY DEF TxMethods
<1> HIDE DEF front, K
<1>7. Len(front) \in 1..7 /\ TxCount(tx) = Len(front) - 1
  BY <1>1, <1>4
<1> QED BY <1>1, <1>2, <1>3, <1>5, <1>6, <1>7, FixedTx

LEMMA BurnReviewed ==
  ASSUME ReaderInv, status = "ok", tx.kind = "tx", tx.method = "Burn"
  PROVE  Reviewed(Content(tx))
<1> DEFINE front == Named(<<"Type", "Amount">>)
           K == {"Type", "Amount"}
<1>1. Lists(front, ItemsOf(K)) /\ Len(front) = 2
  BY NamedTwo
<1>2. K = {"Type"} \cup MethodFields[tx.method]
  BY DEF MethodFields
<1>3. TxItems(tx) = front \o FeeItems
  <2>1. tx.method \in DOMAIN StakingKeys
    BY DEF StakingKeys
  <2>2. StakingKeys["Burn"] = <<"Type", "Amount">>
    BY StakingRecord DEF StakingKeys
  <2>3. tx.method \in TxMethods
    BY DEF TxMethods
  <2> QED BY <2>1, <2>2, <2>3, TxItemsAre
<1>4. TxCount(tx) = 1
  BY DEF TxCount
<1>5. "Fee" \notin K /\ "Gas limit" \notin K /\ "Network" \notin K
  OBVIOUS
<1>6. tx.method \in TxMethods \ {"Amend", "RegisterEntity", "Unfreeze"}
  BY DEF TxMethods
<1> HIDE DEF front, K
<1>7. Len(front) \in 1..7 /\ TxCount(tx) = Len(front) - 1
  BY <1>1, <1>4
<1> QED BY <1>1, <1>2, <1>3, <1>5, <1>6, <1>7, FixedTx

LEMMA WithdrawReviewed ==
  ASSUME ReaderInv, status = "ok", tx.kind = "tx", tx.method = "Withdraw"
  PROVE  Reviewed(Content(tx))
<1> DEFINE front == Named(<<"Type", "From", "Amount">>)
           K == {"Type", "From", "Amount"}
<1>1. Lists(front, ItemsOf(K)) /\ Len(front) = 3
  BY NamedThree
<1>2. K = {"Type"} \cup MethodFields[tx.method]
  BY DEF MethodFields
<1>3. TxItems(tx) = front \o FeeItems
  <2>1. tx.method \in DOMAIN StakingKeys
    BY DEF StakingKeys
  <2>2. StakingKeys["Withdraw"] = <<"Type", "From", "Amount">>
    BY StakingRecord DEF StakingKeys
  <2>3. tx.method \in TxMethods
    BY DEF TxMethods
  <2> QED BY <2>1, <2>2, <2>3, TxItemsAre
<1>4. TxCount(tx) = 2
  BY DEF TxCount
<1>5. "Fee" \notin K /\ "Gas limit" \notin K /\ "Network" \notin K
  OBVIOUS
<1>6. tx.method \in TxMethods \ {"Amend", "RegisterEntity", "Unfreeze"}
  BY DEF TxMethods
<1> HIDE DEF front, K
<1>7. Len(front) \in 1..7 /\ TxCount(tx) = Len(front) - 1
  BY <1>1, <1>4
<1> QED BY <1>1, <1>2, <1>3, <1>5, <1>6, <1>7, FixedTx

LEMMA AllowReviewed ==
  ASSUME ReaderInv, status = "ok", tx.kind = "tx", tx.method = "Allow"
  PROVE  Reviewed(Content(tx))
<1> DEFINE front == Named(<<"Type", "Beneficiary", "Amount change">>)
           K == {"Type", "Beneficiary", "Amount change"}
<1>1. Lists(front, ItemsOf(K)) /\ Len(front) = 3
  BY NamedThree
<1>2. K = {"Type"} \cup MethodFields[tx.method]
  BY DEF MethodFields
<1>3. TxItems(tx) = front \o FeeItems
  <2>1. tx.method \in DOMAIN StakingKeys
    BY DEF StakingKeys
  <2>2. StakingKeys["Allow"] = <<"Type", "Beneficiary", "Amount change">>
    BY StakingRecord DEF StakingKeys
  <2>3. tx.method \in TxMethods
    BY DEF TxMethods
  <2> QED BY <2>1, <2>2, <2>3, TxItemsAre
<1>4. TxCount(tx) = 2
  BY DEF TxCount
<1>5. "Fee" \notin K /\ "Gas limit" \notin K /\ "Network" \notin K
  OBVIOUS
<1>6. tx.method \in TxMethods \ {"Amend", "RegisterEntity", "Unfreeze"}
  BY DEF TxMethods
<1> HIDE DEF front, K
<1>7. Len(front) \in 1..7 /\ TxCount(tx) = Len(front) - 1
  BY <1>1, <1>4
<1> QED BY <1>1, <1>2, <1>3, <1>5, <1>6, <1>7, FixedTx

LEMMA EscrowReviewed ==
  ASSUME ReaderInv, status = "ok", tx.kind = "tx", tx.method = "Escrow"
  PROVE  Reviewed(Content(tx))
<1> DEFINE front == Named(<<"Type", "To", "Amount">>)
           K == {"Type", "To", "Amount"}
<1>1. Lists(front, ItemsOf(K)) /\ Len(front) = 3
  BY NamedThree
<1>2. K = {"Type"} \cup MethodFields[tx.method]
  BY DEF MethodFields
<1>3. TxItems(tx) = front \o FeeItems
  <2>1. tx.method \in DOMAIN EscrowKeys
    BY DEF EscrowKeys
  <2>2. EscrowKeys[tx.method] = <<"Type", "To", "Amount">>
    BY DEF EscrowKeys
  <2>3. tx.method \in TxMethods
    BY DEF TxMethods
  <2> QED BY <2>1, <2>2, <2>3, TxItemsAre
<1>4. TxCount(tx) = 2
  BY DEF TxCount
<1>5. "Fee" \notin K /\ "Gas limit" \notin K /\ "Network" \notin K
  OBVIOUS
<1>6. tx.method \in TxMethods \ {"Amend", "RegisterEntity", "Unfreeze"}
  BY DEF TxMethods
<1> HIDE DEF front, K
<1>7. Len(front) \in 1..7 /\ TxCount(tx) = Len(front) - 1
  BY <1>1, <1>4
<1> QED BY <1>1, <1>2, <1>3, <1>5, <1>6, <1>7, FixedTx

LEMMA ReclaimEscrowReviewed ==
  ASSUME ReaderInv, status = "ok", tx.kind = "tx", tx.method = "ReclaimEscrow"
  PROVE  Reviewed(Content(tx))
<1> DEFINE front == Named(<<"Type", "From", "Shares">>)
           K == {"Type", "From", "Shares"}
<1>1. Lists(front, ItemsOf(K)) /\ Len(front) = 3
  BY NamedThree
<1>2. K = {"Type"} \cup MethodFields[tx.method]
  BY DEF MethodFields
<1>3. TxItems(tx) = front \o FeeItems
  <2>1. tx.method \in DOMAIN EscrowKeys
    BY DEF EscrowKeys
  <2>2. EscrowKeys[tx.method] = <<"Type", "From", "Shares">>
    BY DEF EscrowKeys
  <2>3. tx.method \in TxMethods
    BY DEF TxMethods
  <2> QED BY <2>1, <2>2, <2>3, TxItemsAre
<1>4. TxCount(tx) = 2
  BY DEF TxCount
<1>5. "Fee" \notin K /\ "Gas limit" \notin K /\ "Network" \notin K
  OBVIOUS
<1>6. tx.method \in TxMethods \ {"Amend", "RegisterEntity", "Unfreeze"}
  BY DEF TxMethods
<1> HIDE DEF front, K
<1>7. Len(front) \in 1..7 /\ TxCount(tx) = Len(front) - 1
  BY <1>1, <1>4
<1> QED BY <1>1, <1>2, <1>3, <1>5, <1>6, <1>7, FixedTx

LEMMA CastVoteReviewed ==
  ASSUME ReaderInv, status = "ok", tx.kind = "tx", tx.method = "CastVote"
  PROVE  Reviewed(Content(tx))
<1> DEFINE front == Named(<<"Type", "Proposal ID", "Vote">>)
           K == {"Type", "Proposal ID", "Vote"}
<1>1. Lists(front, ItemsOf(K)) /\ Len(front) = 3
  BY NamedThree
<1>2. K = {"Type"} \cup MethodFields[tx.method]
  BY DEF MethodFields
<1>3. TxItems(tx) = front \o FeeItems
  <2>1. tx.method \in DOMAIN GovernanceKeys
    BY DEF GovernanceKeys
  <2>2. GovernanceKeys["CastVote"] = <<"Type", "Proposal ID", "Vote">>
    BY GovernanceRecord DEF GovernanceKeys
  <2>3. tx.method \in TxMethods
    BY DEF TxMethods
  <2> QED BY <2>1, <2>2, <2>3, TxItemsAre
<1>4. TxCount(tx) = 2
  BY DEF TxCount
<1>5. "Fee" \notin K /\ "Gas limit" \notin K /\ "Network" \notin K
  OBVIOUS
<1>6. tx.method \in TxMethods \ {"Amend", "RegisterEntity", "Unfreeze"}
  BY DEF TxMethods
<1> HIDE DEF front, K
<1>7. Len(front) \in 1..7 /\ TxCount(tx) = Len(front) - 1
  BY <1>1, <1>4
<1> QED BY <1>1, <1>2, <1>3, <1>5, <1>6, <1>7, FixedTx

LEMMA CancelUpgradeReviewed ==
  ASSUME ReaderInv, status = "ok", tx.kind = "tx", tx.method = "CancelUpgrade"
  PROVE  Reviewed(Content(tx))
<1> DEFINE front == Named(<<"Type", "Kind", "Proposal ID">>)
           K == {"Type", "Kind", "Proposal ID"}
<1>1. Lists(front, ItemsOf(K)) /\ Len(front) = 3
  BY NamedThree
<1>2. K = {"Type"} \cup MethodFields[tx.method]
  BY DEF MethodFields
<1>3. TxItems(tx) = front \o FeeItems
  <2>1. tx.method \in DOMAIN GovernanceKeys
    BY DEF GovernanceKeys
  <2>2. GovernanceKeys["CancelUpgrade"] = <<"Type", "Kind", "Proposal ID">>
    BY GovernanceRecord DEF GovernanceKeys
  <2>3. tx.method \in TxMethods
    BY DEF TxMethods
  <2> QED BY <2>1, <2>2, <2>3, TxItemsAre
<1>4. TxCount(tx) = 2
  BY DEF TxCount
<1>5. "Fee" \notin K /\ "Gas limit" \notin K /\ "Network" \notin K
  OBVIOUS
<1>6. tx.method \in TxMethods \ {"Amend", "RegisterEntity", "Unfreeze"}
  BY DEF TxMethods
<1> HIDE DEF front, K
<1>7. Len(front) \in 1..7 /\ TxCount(tx) = Len(front) - 1
  BY <1>1, <1>4
<1> QED BY <1>1, <1>2, <1>3, <1>5, <1>6, <1>7, FixedTx

LEMMA UpgradeReviewed ==
  ASSUME ReaderInv, status = "ok", tx.kind = "tx", tx.method = "Upgrade"
  PROVE  Reviewed(Content(tx))
<1> DEFINE front == Named(<<"Type", "Kind", "Handler", "Consensus", 
                       "Runtime Host", "Runtime Committee", "Epoch">>)
           K == {"Type", "Kind", "Handler", "Consensus", 
                 "Runtime Host", "Runtime Committee", "Epoch"}
<1>1. Lists(front, ItemsOf(K)) /\ Len(front) = 7
  BY NamedSeven
<1>2. K = {"Type"} \cup MethodFields[tx.method]
  BY DEF MethodFields
<1>3. TxItems(tx) = front \o FeeItems
  <2>1. tx.method \in DOMAIN GovernanceKeys
    BY DEF GovernanceKeys
  <2>2. GovernanceKeys["Upgrade"] = <<"Type", "Kind", "Handler", "Consensus", 
           "Runtime Host", "Runtime Committee", "Epoch">>
    BY GovernanceRecord DEF GovernanceKeys
  <2>3. tx.method \in TxMethods
    BY DEF TxMethods
  <2> QED BY <2>1, <2>2, <2>3, TxItemsAre
<1>4. TxCount(tx) = 6
  BY DEF TxCount
<1>5. "Fee" \notin K /\ "Gas limit" \notin K /\ "Network" \notin K
  OBVIOUS
<1>6. tx.method \in TxMethods \ {"Amend", "RegisterEntity", "Unfreeze"}
  BY DEF TxMethods
<1> HIDE DEF front, K
<1>7. Len(front) \in 1..7 /\ TxCount(tx) = Len(front) - 1
  BY <1>1, <1>4
<1> QED BY <1>1, <1>2, <1>3, <1>5, <1>6, <1>7, FixedTx

LEMMA DeregisterReviewed ==
  ASSUME ReaderInv, status = "ok", tx.kind = "tx", tx.method = "Deregister"
  PROVE  Reviewed(Content(tx))
<1> DEFINE front == Named(<<"Type">>)
           K == {"Type"}
<1>1. Lists(front, ItemsOf(K)) /\ Len(front) = 1
  BY NamedOne
<1>2. K = {"Type"} \cup MethodFields[tx.method]
  BY DEF MethodFields
<1>3. TxItems(tx) = front \o FeeItems
  <2>1. RegistryItems(tx) = front \o FeeItems
    BY DEF RegistryItems
  <2>2. tx.method \in TxMethods
    BY DEF TxMethods
  <2> QED BY <2>1, <2>2, TxItemsAre
<1>4. TxCount(tx) = 0
  BY DEF TxCount
<1>5. "Fee" \notin K /\ "Gas limit" \notin K /\ "Network" \notin K
  OBVIOUS
<1>6. tx.method \in TxMethods \ {"Amend", "RegisterEntity", "Unfreeze"}
  BY DEF TxMethods
<1> HIDE DEF front, K
<1>7. Len(front) \in 1..7 /\ TxCount(tx) = Len(front) - 1
  BY <1>1, <1>4
<1> QED BY <1>1, <1>2, <1>3, <1>5, <1>6, <1>7, FixedTx

\* The node comes behind the fee, so there has to be one.
LEMMA UnfreezeReviewed ==
  ASSUME ReaderInv, status = "ok", tx.kind = "tx", tx.method = "Unfreeze", tx.has_fee
  PROVE  Reviewed(Content(tx))
<1> DEFINE type == Named(<<"Type">>)
           node == Named(<<"Node ID">>)
           upto == type \o FeeItems
           s == upto \o node
           C == ItemsOf({"Type", "Fee", "Gas limit"})
           D == ItemsOf({"Type", "Fee", "Gas limit", "Node ID"})
           T == ItemsOf({"Type"})
           N == ItemsOf({"Node ID"})
           F == ItemsOf({"Fee", "Gas limit"})
<1>1. /\ Lists(type, T) /\ Len(type) = 1
      /\ Lists(node, N) /\ Len(node) = 1
  BY NamedOne
<1>2. FeeSet = F /\ NetworkItem = Item("Network")
  BY DEF FeeSet, ItemsOf, NetworkItem
<1>3. Lists(FeeItems, F) /\ Len(FeeItems) = 2
  BY <1>2, ListsFee
<1> HIDE DEF type, node
<1>4. Lists(upto, C) /\ Len(upto) = 3
  <2>1. \A x \in T : x \notin F
    <3>1. \A x \in {"Type"} : x \notin {"Fee", "Gas limit"}
      OBVIOUS
    <3> QED BY <3>1, ItemsApart
  <2>2. C = T \cup F
    BY DEF ItemsOf
  <2>3. Joined(upto, C, type, T, FeeItems, F)
    BY <2>1, <2>2 DEF Joined
  <2> HIDE DEF upto, C, T, F, N
  <2>4. Lists(upto, C) /\ Len(upto) = Len(type) + Len(FeeItems)
    <3>1. Lists(type, T) /\ Lists(FeeItems, F)
      BY <1>1, <1>3
    <3> QED BY <3>1, <2>3, ListsJoined
  <2>5. Len(type) + Len(FeeItems) = 3
    BY <1>1, <1>3
  <2> QED BY <2>4, <2>5
<1> HIDE DEF upto
<1>5. Lists(s, D) /\ Len(s) = 4
  <2>1. \A x \in C : x \notin N
    <3>1. \A x \in {"Type", "Fee", "Gas limit"} : x \notin {"Node ID"}
      OBVIOUS
    <3> QED BY <3>1, ItemsApart
  <2>2. D = C \cup N
    BY DEF ItemsOf
  <2>3. Joined(s, D, upto, C, node, N)
    BY <2>1, <2>2 DEF Joined
  <2> HIDE DEF s, C, D, T, F, N
  <2>4. Lists(s, D) /\ Len(s) = Len(upto) + Len(node)
    <3>1. Lists(upto, C) /\ Lists(node, N)
      BY <1>1, <1>4
    <3> QED BY <3>1, <2>3, ListsJoined
  <2>5. Len(upto) + Len(node) = 4
    BY <1>1, <1>4
  <2> QED BY <2>4, <2>5
<1>6. NetworkItem \notin D
  <2>1. \A k \in {"Type", "Fee", "Gas limit", "Node ID"} : k # "Network"
    OBVIOUS
  <2> QED BY <2>1, <1>2 DEF ItemsOf, Item
<1>7. TxItems(tx) = s
  <2>1. RegistryItems(tx) = s
    BY DEF RegistryItems, upto, type, node
  <2>2. tx.method \in TxMethods
    BY DEF TxMethods
  <2> QED BY <2>1, <2>2, TxItemsAre
<1> HIDE DEF s
<1>8. numItems = 5
  <2>1. TxCount(tx) = 1
    BY DEF TxCount
  <2> QED BY <2>1, ShownTo, TxCountIs
<1>9. DOMAIN s = 1..4
  BY <1>5, LenProperties DEF Lists
<1>10. \A i \in 1..Len(s) : parser_getItem(tx, i - 1, numItems) = s[i]
  <2> SUFFICES ASSUME NEW i \in 1..4
               PROVE  parser_getItem(tx, i - 1, 5) = s[i]
    BY <1>5, <1>8
  <2>1. Signed8(i - 1) = i - 1
    BY SmallIndex
  <2>2. ~(i - 1 >= 5) /\ (i - 1) + 1 # 5
    OBVIOUS
  <2>3. parser_getItem(tx, i - 1, 5) = At(s, i - 1)
    BY <1>7, <2>1, <2>2 DEF parser_getItem
  <2> QED BY <1>9, <2>3 DEF At
<1> HIDE DEF C, D, T, F, N
<1>11. HasSuffix(tx) /\ numItems = Len(s) + 1
  <2>1. HasSuffix(tx)
    BY DEF HasSuffix
  <2>2. numItems = Len(s) + 1
    BY <1>5, <1>8
  <2> QED BY <2>1, <2>2
<1>12. Reviewed(D \cup {NetworkItem})
  BY <1>5, <1>6, <1>10, <1>11, ReviewWithNetwork
<1>13. Content(tx) = D \cup {NetworkItem}
  <2>1. MethodFields[tx.method] = {"Node ID"} /\ tx.method \in TxMethods
    BY DEF MethodFields, TxMethods
  <2>2. ElementItems(tx) = {}
    BY DEF ElementItems, ContractMethods
  <2>3. Content(tx) = ((ItemsOf({"Type"} \cup {"Node ID"}) \cup {})
                         \cup F) \cup {NetworkItem}
    BY <1>2, <2>1, <2>2, ShownTo, TxContent
  <2>4. D = (ItemsOf({"Type"} \cup {"Node ID"}) \cup {}) \cup F
    BY DEF D, F, ItemsOf
  <2> QED BY <2>3, <2>4
<1> QED BY <1>12, <1>13

\* _readEntity reads 16 nodes at most.
LEMMA NodesBounded ==
  ASSUME ReaderInv, status = "ok",
         tx.kind = "entity" \/ (tx.kind = "tx" /\ tx.method = "RegisterEntity")
  PROVE  tx.n \in 0..16
<1> message \in AnyMessage
  BY DEF ReaderInv, ReaderTypeOK
<1>1. PICK old \in AnyMeta, before \in AnyLeft : tx = Parsed(message, old, before)
  BY DEF ReaderInv, ReadFromMessage
<1>2. parser_parse(message)
  BY DEF ReaderInv, ReadFromMessage
<1>3. tx.kind = BlobType(message)
  BY <1>1 DEF Parsed
<1>4. _readEntity(message) /\ (tx.kind = "tx" => message.method = "RegisterEntity")
  <2>1. CASE tx.kind = "entity"
    BY <1>2, <1>3, <2>1, KindOfMessage
  <2>2. CASE tx.kind = "tx"
    <3>1. _readTx(message) /\ Method(message) = "RegisterEntity"
      BY <1>1, <1>2, <1>3, <2>2, KindOfMessage, MethodRead
    <3>2. message.method = "RegisterEntity"
      BY <3>1 DEF Method
    <3> QED BY <3>1, <3>2 DEF _readTx, _readBody
  <2> QED BY <2>1, <2>2
<1>5. tx.n = IF "nodes" \notin message.entity THEN 0 ELSE message.n
  BY <1>1, <1>3, <1>4 DEF Parsed
<1>6. message.n \in Nat
  BY DEF AnyMessage
<1> QED BY <1>4, <1>5, <1>6 DEF _readEntity, MAX_ENTITY_NODES

EntitySet(t) == {Item("ID")} \cup ({"Node"} \X (1..t.n))

LEMMA ListsEntity ==
  ASSUME NEW t, t.n \in Nat
  PROVE  Lists(EntityItems(t), EntitySet(t)) /\ Len(EntityItems(t)) = t.n + 1
<1> DEFINE one == Named(<<"ID">>)
           nodes == Elements(<<"Node">>, t.n)
           I == ItemsOf({"ID"})
           N == {"Node"} \X (1..t.n)
<1>1. Lists(one, I) /\ Len(one) = 1
  BY NamedOne
<1>2. Lists(nodes, N) /\ Len(nodes) = t.n
  <2> DEFINE keys == <<"Node">>
  <2>1. keys \in Seq({"Node"}) /\ Len(keys) = 1 /\ Len(keys) \in 1..3
    OBVIOUS
  <2>2. Range(keys) = {"Node"} /\ IsInjective(keys)
    BY DEF Range, IsInjective
  <2> HIDE DEF keys
  <2>3. Lists(Elements(keys, t.n), N) /\ Len(Elements(keys, t.n)) = t.n * Len(keys)
    BY <2>1, <2>2, ListsElements
  <2> QED BY <2>1, <2>3 DEF keys
<1>3. \A x \in I : x \notin N
  BY ElementsApart
<1>4. EntityItems(t) = one \o nodes /\ EntitySet(t) = I \cup N
  BY DEF EntityItems, EntitySet, ItemsOf
<1> HIDE DEF one, nodes, I, N
<1>5. Joined(EntityItems(t), EntitySet(t), one, I, nodes, N)
  BY <1>3, <1>4 DEF Joined
<1>6. Lists(EntityItems(t), EntitySet(t)) /\ Len(EntityItems(t)) = Len(one) + Len(nodes)
  <2>1. Lists(one, I) /\ Lists(nodes, N)
    BY <1>1, <1>2
  <2> QED BY <1>5, <2>1, ListsJoined
<1>7. Len(one) + Len(nodes) = t.n + 1
  BY <1>1, <1>2
<1> QED BY <1>6, <1>7

\* Of n items.
ListsN(s, C, n) == Lists(s, C) /\ Len(s) = n

LEMMA ListsNJoined ==
  ASSUME NEW s, NEW C, NEW a, ListsN(s, C, a), NEW t, NEW D, NEW b, ListsN(t, D, b),
         NEW u, NEW E, Joined(u, E, s, C, t, D)
  PROVE  ListsN(u, E, a + b)
<1>1. Lists(s, C) /\ Lists(t, D)
  BY DEF ListsN
<1>2. Lists(u, E) /\ Len(u) = Len(s) + Len(t)
  BY <1>1, ListsJoined
<1>3. Len(s) = a /\ Len(t) = b
  BY DEF ListsN
<1> QED BY <1>2, <1>3 DEF ListsN

LEMMA ListsDomain ==
  ASSUME NEW s, NEW C, NEW n, ListsN(s, C, n)
  PROVE  DOMAIN s = 1..n
<1>1. s \in Seq(C) /\ Len(s) = n
  BY DEF ListsN, Lists
<1> QED BY <1>1, LenProperties

LEMMA PlacesJoined ==
  ASSUME NEW s, NEW C, NEW a \in Nat, ListsN(s, C, a),
         NEW t, NEW D, NEW b \in Nat, ListsN(t, D, b),
         NEW u, NEW E, Joined(u, E, s, C, t, D)
  PROVE  /\ DOMAIN u = 1..(a + b)
         /\ \A i \in 1..a : u[i] = s[i]
         /\ \A i \in (a + 1)..(a + b) : u[i] = t[i - a]
<1>1. s \in Seq(E) /\ t \in Seq(E) /\ u = s \o t
  BY SeqMonotonic DEF ListsN, Lists, Joined
<1>2. ListsN(u, E, a + b)
  BY ListsNJoined
<1>3. DOMAIN u = 1..(a + b)
  BY <1>2, LenProperties DEF ListsN, Lists
<1>4. \A i \in 1..(Len(s) + Len(t)) : u[i] = IF i <= Len(s) THEN s[i] ELSE t[i - Len(s)]
  BY <1>1, ConcatProperties
<1>5. Len(s) = a /\ Len(t) = b
  BY DEF ListsN
<1>6. \A i \in 1..(a + b) : u[i] = IF i <= a THEN s[i] ELSE t[i - a]
  BY <1>4, <1>5
<1> QED BY <1>3, <1>6

LEMMA OtherElements ==
  ASSUME NEW K, NEW n, NEW f \in K \X (1..n)
  PROVE  f \notin FeeSet /\ f # NetworkItem
<1>1. \A k : f # Item(k)
  BY DEF Item
<1> QED BY <1>1, Zenon DEF FeeSet, NetworkItem

LEMMA ApartElements ==
  ASSUME NEW n, NEW m,
         NEW x \in {"Rates: start", "Rates: rate"} \X (1..n)
  PROVE  x \notin {"Bounds: start", "Bounds: min", "Bounds: max"} \X (1..m)
<1>1. x[1] = "Rates: start" \/ x[1] = "Rates: rate"
  OBVIOUS
<1>2. \A k : k = "Rates: start" \/ k = "Rates: rate" =>
             k \notin {"Bounds: start", "Bounds: min", "Bounds: max"}
  OBVIOUS
<1> QED BY <1>1, <1>2

LEMMA ElementsTwo ==
  ASSUME NEW a, NEW b, a # b, NEW n \in Nat
  PROVE  ListsN(Elements(<<a, b>>, n), {a, b} \X (1..n), n * 2)
<1> DEFINE keys == <<a, b>>
           K == {a, b}
<1>1. keys \in Seq(K) /\ Len(keys) = 2 /\ DOMAIN keys = 1..2
  OBVIOUS
<1>2. keys[1] = a /\ keys[2] = b
  OBVIOUS
<1> HIDE DEF keys
<1>3. IsInjective(keys)
  BY <1>1, <1>2 DEF IsInjective
<1>4. Range(keys) = K
  <2>1. \A x \in Range(keys) : x \in K
    BY <1>1, <1>2 DEF Range
  <2>2. \A x \in K : \E i \in 1..2 : keys[i] = x
    BY <1>2
  <2> QED BY <1>1, <2>1, <2>2 DEF Range
<1> HIDE DEF K
<1>5. Len(keys) \in 1..3
  BY <1>1
<1>6. Lists(Elements(keys, n), K \X (1..n)) /\ Len(Elements(keys, n)) = n * Len(keys)
  BY <1>1, <1>3, <1>4, <1>5, ListsElements
<1>7. ListsN(Elements(keys, n), K \X (1..n), n * 2)
  BY <1>1, <1>6 DEF ListsN
<1> QED BY <1>7 DEF keys, K

LEMMA ElementsThree ==
  ASSUME NEW a, NEW b, NEW c, a # b, a # c, b # c, NEW n \in Nat
  PROVE  ListsN(Elements(<<a, b, c>>, n), {a, b, c} \X (1..n), n * 3)
<1> DEFINE keys == <<a, b, c>>
           K == {a, b, c}
<1>1. keys \in Seq(K) /\ Len(keys) = 3 /\ DOMAIN keys = 1..3
  OBVIOUS
<1>2. keys[1] = a /\ keys[2] = b /\ keys[3] = c
  OBVIOUS
<1> HIDE DEF keys
<1>3. IsInjective(keys)
  BY <1>1, <1>2 DEF IsInjective
<1>4. Range(keys) = K
  <2>1. \A x \in Range(keys) : x \in K
    BY <1>1, <1>2 DEF Range
  <2>2. \A x \in K : \E i \in 1..3 : keys[i] = x
    BY <1>2
  <2> QED BY <1>1, <2>1, <2>2 DEF Range
<1> HIDE DEF K
<1>5. Len(keys) \in 1..3
  BY <1>1
<1>6. Lists(Elements(keys, n), K \X (1..n)) /\ Len(Elements(keys, n)) = n * Len(keys)
  BY <1>1, <1>3, <1>4, <1>5, ListsElements
<1>7. ListsN(Elements(keys, n), K \X (1..n), n * 3)
  BY <1>1, <1>6 DEF ListsN
<1> QED BY <1>7 DEF keys, K

\* A method with a list.
LEMMA ListTx ==
  ASSUME ReaderInv, status = "ok", tx.kind = "tx", NEW front, NEW D, NEW n \in Nat,
         ListsN(front, D, n),
         D = ItemsOf({"Type"} \cup MethodFields[tx.method]) \cup ElementItems(tx),
         \A f \in D : f \notin FeeSet /\ f # NetworkItem,
         TxItems(tx) = front \o FeeItems, n \in 1..252, TxCount(tx) = n - 1,
         tx.method = "Amend" \/ n <= 100, tx.method \in TxMethods
  PROVE  Reviewed(Content(tx))
<1>1. tx \in AnyTx
  BY ShownTo
<1>2. Lists(front, D) /\ Len(front) = n
  BY DEF ListsN
<1>3. Reviewed((D \cup (IF tx.has_fee THEN FeeSet ELSE {})) \cup {NetworkItem})
  BY <1>2, TxReview
<1>4. Content(tx) = (D \cup (IF tx.has_fee THEN FeeSet ELSE {})) \cup {NetworkItem}
  BY <1>1, TxContent
<1> QED BY <1>3, <1>4

LEMMA RegisterEntityReviewed ==
  ASSUME ReaderInv, status = "ok", tx.kind = "tx", tx.method = "RegisterEntity"
  PROVE  Reviewed(Content(tx))
<1> DEFINE type == Named(<<"Type">>)
           T == ItemsOf({"Type"})
           E == EntitySet(tx)
           front == type \o EntityItems(tx)
           D == T \cup E
           n == 1 + (tx.n + 1)
<1>1. tx.n \in 0..16
  BY NodesBounded
<1>2. ListsN(type, T, 1)
  BY NamedOne DEF ListsN
<1>3. ListsN(EntityItems(tx), E, tx.n + 1)
  BY <1>1, ListsEntity DEF ListsN
<1>4. E = ItemsOf({"ID"}) \cup ({"Node"} \X (1..tx.n))
  BY DEF EntitySet, ItemsOf
<1>5. \A x \in T : x \notin E
  <2>1. \A x \in T : x \notin ItemsOf({"ID"})
    BY ItemsApart
  <2>2. \A x \in T : x \notin {"Node"} \X (1..tx.n)
    BY ElementsApart
  <2> QED BY <1>4, <2>1, <2>2
<1>6. \A f \in D : f \notin FeeSet /\ f # NetworkItem
  <2>1. \A f \in ItemsOf({"Type"}) : f \notin FeeSet /\ f # NetworkItem
    <3>1. "Fee" \notin {"Type"} /\ "Gas limit" \notin {"Type"} /\ "Network" \notin {"Type"}
      OBVIOUS
    <3> QED BY <3>1, OtherItems
  <2>2. \A f \in ItemsOf({"ID"}) : f \notin FeeSet /\ f # NetworkItem
    <3>1. "Fee" \notin {"ID"} /\ "Gas limit" \notin {"ID"} /\ "Network" \notin {"ID"}
      OBVIOUS
    <3> QED BY <3>1, OtherItems
  <2>3. \A f \in {"Node"} \X (1..tx.n) : f \notin FeeSet /\ f # NetworkItem
    BY OtherElements
  <2> QED BY <1>4, <2>1, <2>2, <2>3
<1>7. D = ItemsOf({"Type"} \cup MethodFields[tx.method]) \cup ElementItems(tx)
  <2>1. MethodFields[tx.method] = {"ID"}
    BY DEF MethodFields
  <2>2. ElementItems(tx) = {"Node"} \X (1..tx.n)
    BY DEF ElementItems
  <2>3. ItemsOf({"Type"} \cup {"ID"}) = ItemsOf({"Type"}) \cup ItemsOf({"ID"})
    BY ItemsOfUnion
  <2> QED BY <1>4, <2>1, <2>2, <2>3
<1>8. TxItems(tx) = front \o FeeItems
  <2>1. RegistryItems(tx) = front \o FeeItems
    BY DEF RegistryItems
  <2>2. tx.method \in TxMethods
    BY DEF TxMethods
  <2> QED BY <2>1, <2>2, TxItemsAre
<1>9. TxCount(tx) = 1 + tx.n
  BY DEF TxCount
<1>10. Joined(front, D, type, T, EntityItems(tx), E)
  BY <1>5 DEF Joined
<1>11. tx.method \in TxMethods
  BY DEF TxMethods
<1> HIDE DEF type, T, E, front, D
<1>12. ListsN(front, D, n)
  BY <1>2, <1>3, <1>10, ListsNJoined
<1>13. n \in Nat /\ n \in 1..252 /\ n <= 100 /\ TxCount(tx) = n - 1
  BY <1>1, <1>9
<1> HIDE DEF n
<1> QED BY <1>6, <1>7, <1>8, <1>11, <1>12, <1>13, ListTx

LEMMA AmendCount ==
  ASSUME NEW a \in Nat, NEW b \in Nat, NEW c, c = 2 * a + 3 * b, c <= 251
  PROVE  /\ 1 + a * 2 + b * 3 \in Nat /\ 1 + a * 2 + b * 3 \in 1..252
         /\ c = (1 + a * 2 + b * 3) - 1
  OBVIOUS

LEMMA AmendReviewed ==
  ASSUME ReaderInv, status = "ok", tx.kind = "tx", tx.method = "Amend",
         TxCount(tx) <= 251
  PROVE  Reviewed(Content(tx))
<1> DEFINE type == Named(<<"Type">>)
           T == ItemsOf({"Type"})
           rates == Elements(<<"Rates: start", "Rates: rate">>, tx.n)
           R == {"Rates: start", "Rates: rate"} \X (1..tx.n)
           bounds == Elements(<<"Bounds: start", "Bounds: min", "Bounds: max">>, tx.m)
           B == {"Bounds: start", "Bounds: min", "Bounds: max"} \X (1..tx.m)
           upto == type \o rates
           U == T \cup R
           front == upto \o bounds
           D == U \cup B
           n == 1 + tx.n * 2 + tx.m * 3
<1>1. tx.n \in Nat /\ tx.m \in Nat
  BY ShownTo DEF AnyTx
<1>2. ListsN(type, T, 1)
  BY NamedOne DEF ListsN
<1>3. ListsN(rates, R, tx.n * 2)
  BY <1>1, ElementsTwo, "Rates: start" # "Rates: rate"
<1>4. ListsN(bounds, B, tx.m * 3)
  <2>1. /\ "Bounds: start" # "Bounds: min" /\ "Bounds: start" # "Bounds: max"
        /\ "Bounds: min" # "Bounds: max"
    OBVIOUS
  <2> QED BY <1>1, <2>1, ElementsThree
<1>5. \A x \in T : x \notin R /\ x \notin B
  BY ElementsApart
<1>6. \A x \in R : x \notin B
  BY ApartElements
<1>7. \A f \in D : f \notin FeeSet /\ f # NetworkItem
  <2>1. \A f \in T : f \notin FeeSet /\ f # NetworkItem
    <3>1. "Fee" \notin {"Type"} /\ "Gas limit" \notin {"Type"} /\ "Network" \notin {"Type"}
      OBVIOUS
    <3> QED BY <3>1, OtherItems
  <2>2. \A f \in R : f \notin FeeSet /\ f # NetworkItem
    BY OtherElements
  <2>3. \A f \in B : f \notin FeeSet /\ f # NetworkItem
    BY OtherElements
  <2> QED BY <2>1, <2>2, <2>3
<1>8. D = ItemsOf({"Type"} \cup MethodFields[tx.method]) \cup ElementItems(tx)
  <2>1. MethodFields[tx.method] = {}
    BY DEF MethodFields
  <2>2. ElementItems(tx) = R \cup B
    BY DEF ElementItems
  <2>3. {"Type"} \cup {} = {"Type"}
    OBVIOUS
  <2> HIDE DEF R, B
  <2> QED BY <2>1, <2>2, <2>3
<1>9. TxItems(tx) = front \o FeeItems
  <2>1. AmendItems(tx) = front \o FeeItems
    BY DEF AmendItems
  <2>2. tx.method \in TxMethods
    BY DEF TxMethods
  <2> QED BY <2>1, <2>2, TxItemsAre
<1>10. TxCount(tx) = 2 * tx.n + 3 * tx.m
  BY DEF TxCount
<1>11. tx.method \in TxMethods
  BY DEF TxMethods
<1>12. Joined(upto, U, type, T, rates, R)
  BY <1>5 DEF Joined
<1>13. Joined(front, D, upto, U, bounds, B)
  BY <1>5, <1>6 DEF Joined
<1> HIDE DEF type, T, rates, R, bounds, B, upto, U, front, D
<1>14. ListsN(upto, U, 1 + tx.n * 2)
  BY <1>2, <1>3, <1>12, ListsNJoined
<1>15. ListsN(front, D, n)
  BY <1>4, <1>13, <1>14, ListsNJoined
<1>16. n \in Nat /\ n \in 1..252 /\ TxCount(tx) = n - 1
  BY <1>1, <1>10, AmendCount
<1> HIDE DEF n
<1> QED BY <1>7, <1>8, <1>9, <1>11, <1>15, <1>16, ListTx

\* What has to be so for the items of a consensus transaction to be all there: the
\* node of an unfreezing lies behind the fee, and the count is a byte.
FeeThere == tx.kind = "tx" /\ tx.method = "Unfreeze" => tx.has_fee

LEMMA MethodOf ==
  ASSUME ReaderInv, status = "ok"
  PROVE  /\ tx.kind = "tx" => tx.method \in TxMethods
         /\ tx.kind = "runtime" => tx.method \in RuntimeMethods
         /\ tx.kind \in {"entity", "metadata"} => tx.method = "none"
         /\ tx.dataValid => tx.method \in ContractMethods
<1>1. PICK old \in AnyMeta, before \in AnyLeft : tx = Parsed(message, old, before)
  BY DEF ReaderInv, ReadFromMessage
<1>2. parser_parse(message) /\ message \in AnyMessage
  BY DEF ReaderInv, ReadFromMessage, ReaderTypeOK
<1>3. tx.kind = BlobType(message)
  BY <1>1 DEF Parsed
<1>4. tx.method = IF BlobType(message) = "tx" THEN Method(message)
                  ELSE IF BlobType(message) = "runtime" THEN RuntimeMethod(message)
                  ELSE "none"
  BY <1>1, <1>2, MethodRead
<1>5. tx.dataValid => BlobType(message) = "runtime" /\ RuntimeMethod(message) \in ContractMethods
  BY <1>1 DEF Parsed
<1> QED BY <1>2, <1>3, <1>4, <1>5, KindOfMessage, StakingMethod, CallMethod

LEMMA StakingReviewed ==
  ASSUME ReaderInv, status = "ok", tx.kind = "tx", FeeThere, TxCount(tx) <= 251
  PROVE  Reviewed(Content(tx))
<1>1. tx.method \in TxMethods
  BY MethodOf
<1>2. CASE tx.method \in {"Transfer", "Burn", "Withdraw", "Allow"}
  BY <1>2, TransferReviewed, BurnReviewed, WithdrawReviewed, AllowReviewed
<1>3. CASE tx.method \in {"Escrow", "ReclaimEscrow", "CastVote", "CancelUpgrade", "Upgrade"}
  BY <1>3, EscrowReviewed, ReclaimEscrowReviewed, CastVoteReviewed,
     CancelUpgradeReviewed, UpgradeReviewed
<1>4. CASE tx.method \in {"Amend", "Deregister", "Unfreeze", "RegisterEntity"}
  BY <1>4, AmendReviewed, DeregisterReviewed, UnfreezeReviewed, RegisterEntityReviewed
     DEF FeeThere
<1> QED BY <1>1, <1>2, <1>3, <1>4 DEF TxMethods

-----------------------------------------------------------------------------
(* Entities. *)

LEMMA AtIs ==
  ASSUME NEW s, NEW n \in Nat, DOMAIN s = 1..n, NEW j, j + 1 \in 1..n
  PROVE  At(s, j) = s[j + 1]
  BY DEF At

\* Without a network there is nothing to add.
LEMMA CountIs ==
  ASSUME NEW t, ~HasSuffix(t), NEW n \in 0..255, _getNumItems(t) = n
  PROVE  parser_getNumItems(t) = n
<1>1. One(HasSuffix(t)) = 0
  BY DEF One
<1> QED BY <1>1 DEF parser_getNumItems

LEMMA EntityReviewed ==
  ASSUME ReaderInv, status = "ok", tx.kind = "entity"
  PROVE  Reviewed(Content(tx))
<1> DEFINE sign == Named(<<"Sign">>)
           S == ItemsOf({"Sign"})
           rest == EntityItems(tx)
           E == EntitySet(tx)
           s == sign \o rest
           D == S \cup E
           n == 1 + (tx.n + 1)
<1>1. tx.n \in 0..16
  BY NodesBounded
<1>2. ListsN(sign, S, 1)
  BY NamedOne DEF ListsN
<1>3. ListsN(rest, E, tx.n + 1)
  BY <1>1, ListsEntity DEF ListsN
<1>4. E = ItemsOf({"ID"}) \cup ({"Node"} \X (1..tx.n))
  BY DEF EntitySet, ItemsOf
<1>5. \A x \in S : x \notin E
  <2>1. \A x \in S : x \notin ItemsOf({"ID"})
    BY ItemsApart
  <2>2. \A x \in S : x \notin {"Node"} \X (1..tx.n)
    BY ElementsApart
  <2> QED BY <1>4, <2>1, <2>2
<1>6. Content(tx) = D
  <2>1. Title(tx) = "Sign" /\ tx.method = "none"
    BY MethodOf DEF Title
  <2>2. ElementItems(tx) = {"Node"} \X (1..tx.n)
    BY <2>1 DEF ElementItems
  <2>3. Content(tx) = ItemsOf({"Sign"} \cup {"ID"} \cup {} \cup {}) \cup ElementItems(tx)
    BY <2>1 DEF Content, ItemsOf
  <2>4. {"Sign"} \cup {"ID"} \cup {} \cup {} = {"Sign"} \cup {"ID"}
    OBVIOUS
  <2>5. ItemsOf({"Sign"} \cup {"ID"}) = ItemsOf({"Sign"}) \cup ItemsOf({"ID"})
    BY ItemsOfUnion
  <2> QED BY <1>4, <2>2, <2>3, <2>4, <2>5
<1>7. Joined(s, D, sign, S, rest, E)
  BY <1>5 DEF Joined
<1>8. sign[1] = Item("Sign")
  BY DEF Named
<1> HIDE DEF sign, S, E, s, D
<1>9. ListsN(s, D, n)
  BY <1>2, <1>3, <1>7, ListsNJoined
<1>10. n \in 2..18 /\ n = tx.n + 2
  BY <1>1
<1>11. numItems = n
  <2>1. ~HasSuffix(tx)
    BY DEF HasSuffix
  <2>2. _getNumItems(tx) = (2 + tx.n) % 256
    BY DEF _getNumItems
  <2>3. _getNumItems(tx) = n
    BY <1>1, <2>2
  <2>4. n \in 0..255
    BY <1>10
  <2> HIDE DEF n
  <2> QED BY <2>1, <2>3, <2>4, ShownTo, CountIs
<1>12. DOMAIN rest = 1..(tx.n + 1)
  BY <1>1, <1>3, LenProperties DEF ListsN, Lists
<1>13. /\ s[1] = sign[1]
       /\ \A i \in 2..n : s[i] = rest[i - 1]
  <2>1. 1 \in Nat /\ tx.n + 1 \in Nat
    BY <1>1
  <2>2. /\ \A i \in 1..1 : s[i] = sign[i]
        /\ \A i \in (1 + 1)..(1 + (tx.n + 1)) : s[i] = rest[i - 1]
    BY <1>2, <1>3, <1>7, <2>1, PlacesJoined
  <2>3. 1 \in 1..1 /\ 1 + 1 = 2 /\ n = 1 + (tx.n + 1)
    OBVIOUS
  <2> HIDE DEF n, rest
  <2> QED BY <2>2, <2>3
<1> HIDE DEF rest
<1> HIDE DEF n
<1>14. \A i \in 1..n : parser_getItem(tx, i - 1, numItems) = s[i]
  <2> SUFFICES ASSUME NEW i \in 1..n
               PROVE  parser_getItem(tx, i - 1, n) = s[i]
    BY <1>11
  <2>1. ~(i - 1 >= n) /\ ~HasSuffix(tx)
    BY <1>10 DEF HasSuffix
  <2>2. CASE i = 1
    BY <1>8, <1>13, <2>1, <2>2 DEF parser_getItem
  <2>3. CASE i \in 2..n
    <3>1. parser_getItem(tx, i - 1, n) = At(rest, i - 2)
      BY <1>10, <2>1, <2>3 DEF parser_getItem, rest
    <3>2. (i - 2) + 1 = i - 1 /\ (i - 2) + 1 \in 1..(tx.n + 1) /\ tx.n + 1 \in Nat
      BY <1>1, <1>10, <2>3
    <3>3. At(rest, i - 2) = rest[(i - 2) + 1]
      BY <1>12, <3>2, AtIs
    <3> QED BY <1>13, <2>3, <3>1, <3>2, <3>3
  <2> QED BY <1>10, <2>2, <2>3
<1>15. Lists(s, D) /\ Len(s) = n
  BY <1>9 DEF ListsN
<1> QED BY <1>6, <1>11, <1>14, <1>15, ReviewIs

-----------------------------------------------------------------------------
(* ParaTime transactions. *)

\* What is counted of the transaction, and of the one before, fits the index.
Counted == RuntimeCount(tx) + tx.stale <= 125

LEMMA RuntimeCountIs ==
  ASSUME NEW t, t.kind = "runtime", NEW n \in 3..128, RuntimeCount(t) = n - 3,
         NEW k \in Nat, t.stale = k, n + k <= 128
  PROVE  parser_getNumItems(t) = n + k + 1
<1>1. _getNumItems(t) = (3 + k + (n - 3)) % 256
  BY DEF _getNumItems
<1>2. _getNumItems(t) = n + k
  BY <1>1
<1>3. One(HasSuffix(t)) = 1
  BY DEF One, HasSuffix
<1> QED BY <1>2, <1>3 DEF parser_getNumItems

\* An item that is counted and not there is not shown, so that a review with
\* items of an earlier transaction in its count does not begin.
LEMMA NoneBehind ==
  ASSUME ReaderInv, status = "ok", tx.kind = "runtime", NEW n \in 3..128,
         RuntimeCount(tx) = n - 3, Counted, n <= 127 => RuntimeItem(tx, n) = NoItem
  PROVE  tx.stale = 0 /\ numItems = n + 1
<1> DEFINE k == tx.stale
<1>1. k \in Nat /\ n + k <= 128
  BY ShownTo DEF AnyTx, Counted
<1> HIDE DEF k
<1>2. numItems = n + k + 1
  BY <1>1, ShownTo, RuntimeCountIs DEF k
<1>3. k = 0
  <2> SUFFICES ASSUME k # 0 PROVE FALSE
    OBVIOUS
  <2>1. n \in 0..127 /\ n + 1 \in 1..numItems /\ ~(n >= numItems) /\ n + 1 # numItems
    BY <1>1, <1>2
  <2>2. parser_getItem(tx, n, numItems) = NoItem
    <3>1. Signed8(n) = n
      BY <2>1, SmallIndex
    <3>2. parser_getItem(tx, n, numItems) = RuntimeItem(tx, n)
      BY <2>1, <3>1 DEF parser_getItem
    <3> QED BY <2>1, <3>2
  <2>3. shown[n + 1] = parser_getItem(tx, n, numItems)
    <3>1. (n + 1) - 1 = n
      OBVIOUS
    <3> QED BY <2>1, <3>1, ShownTo
  <2>4. shown[n + 1] # NoItem
    BY <2>1, ShownTo DEF ReaderInv, ShownInOrder
  <2> QED BY <2>2, <2>3, <2>4
<1> QED BY <1>1, <1>2, <1>3 DEF k

LEMMA RuntimeReview ==
  ASSUME ReaderInv, status = "ok", tx.kind = "runtime", NEW s, NEW D,
         NEW n \in 3..128, ListsN(s, D, n), RuntimeCount(tx) = n - 3, Counted,
         n <= 127 => RuntimeItem(tx, n) = NoItem,
         NetworkItem \notin D, \A i \in 1..n : RuntimeItem(tx, i - 1) = s[i]
  PROVE  Reviewed(D \cup {NetworkItem})
<1>1. numItems = n + 1
  BY NoneBehind
<1>2. HasSuffix(tx)
  BY DEF HasSuffix
<1>3. \A i \in 1..n : parser_getItem(tx, i - 1, numItems) = s[i]
  <2> SUFFICES ASSUME NEW i \in 1..n
               PROVE  parser_getItem(tx, i - 1, n + 1) = s[i]
    BY <1>1
  <2> DEFINE j == i - 1
  <2>1. j \in 0..127 /\ ~(j >= n + 1) /\ j + 1 # n + 1
    OBVIOUS
  <2>2. RuntimeItem(tx, j) = s[i]
    OBVIOUS
  <2> HIDE DEF j
  <2>3. Signed8(j) = j
    BY <2>1, SmallIndex
  <2>4. parser_getItem(tx, j, n + 1) = RuntimeItem(tx, j)
    BY <2>1, <2>3 DEF parser_getItem
  <2> QED BY <2>2, <2>4 DEF j
<1>4. Lists(s, D) /\ Len(s) = n
  BY DEF ListsN
<1>5. numItems = Len(s) + 1 /\ \A i \in 1..Len(s) : parser_getItem(tx, i - 1, numItems) = s[i]
  BY <1>1, <1>3, <1>4
<1> QED BY <1>2, <1>4, <1>5, ReviewWithNetwork

RuntimeFeeKeys == {"Fee", "Gas limit", "ParaTime"}

LEMMA ListsRuntimeFee == ListsN(RuntimeFeeItems, ItemsOf(RuntimeFeeKeys), 3)
<1> DEFINE P == ItemsOf({"ParaTime"})
           E == ItemsOf(RuntimeFeeKeys)
<1>1. ListsN(Named(<<"ParaTime">>), P, 1)
  BY NamedOne DEF ListsN
<1>2. ListsN(FeeItems, FeeSet, 2)
  BY ListsFee DEF ListsN
<1>3. \A x \in FeeSet : x \notin P
  <2>1. ItemsOf({"Fee", "Gas limit"}) = FeeSet
    BY DEF ItemsOf, FeeSet
  <2>2. \A a \in {"Fee", "Gas limit"} : a \notin {"ParaTime"}
    OBVIOUS
  <2>3. \A x \in ItemsOf({"Fee", "Gas limit"}) : x \notin P
    BY <2>2, ItemsApart
  <2> QED BY <2>1, <2>3
<1>4. E = FeeSet \cup P
  BY DEF FeeSet, ItemsOf, RuntimeFeeKeys
<1>5. Joined(RuntimeFeeItems, E, FeeItems, FeeSet, Named(<<"ParaTime">>), P)
  BY <1>3, <1>4 DEF Joined, RuntimeFeeItems
<1> HIDE DEF P, E
<1>6. ListsN(RuntimeFeeItems, E, 2 + 1)
  BY <1>1, <1>2, <1>5, ListsNJoined
<1> QED BY <1>6 DEF E

\* The keys of a transaction that has no list.
RuntimeKeys(t) ==
  ({Title(t)} \cup MethodFields[t.method]) \cup (IF t.dataValid THEN {"Data"} ELSE {})

LEMMA RuntimeContent ==
  ASSUME NEW t \in AnyTx, t.kind = "runtime"
  PROVE  Content(t) = ((ItemsOf(RuntimeKeys(t)) \cup ItemsOf(RuntimeFeeKeys))
                         \cup ElementItems(t)) \cup {NetworkItem}
<1> DEFINE fields == CASE t.kind = "entity"   -> {"ID"}
                       [] t.kind = "metadata" -> {"Version", "Serial"} \cup t.optional
                       [] OTHER -> MethodFields[t.method] \cup {"Network"}
           fee == IF t.kind = "runtime" THEN {"Fee", "Gas limit", "ParaTime"}
                  ELSE IF t.kind = "tx" /\ t.has_fee THEN {"Fee", "Gas limit"}
                  ELSE {}
           data == IF t.kind = "runtime" /\ t.dataValid THEN {"Data"} ELSE {}
           all == {Title(t)} \cup fields \cup fee \cup data
<1>1. Content(t) = ItemsOf(all) \cup ElementItems(t)
  BY DEF Content, ItemsOf
<1>2. fields = MethodFields[t.method] \cup {"Network"}
  OBVIOUS
<1>3. fee = RuntimeFeeKeys
  BY DEF RuntimeFeeKeys
<1>4. data = IF t.dataValid THEN {"Data"} ELSE {}
  OBVIOUS
<1> HIDE DEF fields, fee, data
<1>5. all = (RuntimeKeys(t) \cup RuntimeFeeKeys) \cup {"Network"}
  BY <1>2, <1>3, <1>4 DEF RuntimeKeys
<1> HIDE DEF all
<1>6. ItemsOf(all) = (ItemsOf(RuntimeKeys(t)) \cup ItemsOf(RuntimeFeeKeys))
                       \cup ItemsOf({"Network"})
  <2> DEFINE U == RuntimeKeys(t) \cup RuntimeFeeKeys
  <2>1. ItemsOf(U) = ItemsOf(RuntimeKeys(t)) \cup ItemsOf(RuntimeFeeKeys)
    BY ItemsOfUnion
  <2>2. all = U \cup {"Network"}
    BY <1>5
  <2> HIDE DEF U
  <2>3. ItemsOf(all) = ItemsOf(U) \cup ItemsOf({"Network"})
    BY <2>2, ItemsOfUnion
  <2> QED BY <2>1, <2>3
<1>7. ItemsOf({"Network"}) = {NetworkItem}
  BY NetworkItems, Zenon
<1> QED BY <1>1, <1>6, <1>7

\* None of these keys is one of those that every ParaTime transaction has.
Plain(K) == "Network" \notin K /\ \A k \in K : k \notin RuntimeFeeKeys

\* A method whose items have fixed places: those of the keys K, then the fee's.
Fixed(t, front, K, n) ==
  /\ n \in 3..5 /\ RuntimeCount(t) = n /\ ListsN(front, ItemsOf(K), n)
  /\ K = {Title(t)} \cup MethodFields[t.method] /\ Plain(K)
  /\ \A i \in Int : RuntimeItem(t, i) = At(front \o RuntimeFeeItems, i)

FixedItems(K) == ItemsOf(K) \cup ItemsOf(RuntimeFeeKeys)

LEMMA FixedList ==
  ASSUME NEW t, NEW front, NEW K, NEW n, Fixed(t, front, K, n)
  PROVE  ListsN(front \o RuntimeFeeItems, FixedItems(K), n + 3)
<1> DEFINE C == ItemsOf(K)
           F == ItemsOf(RuntimeFeeKeys)
           s == front \o RuntimeFeeItems
<1>1. \A x \in C : x \notin F
  <2>1. \A k \in K : k \notin RuntimeFeeKeys
    BY DEF Fixed, Plain
  <2> QED BY <2>1, ItemsApart
<1>2. Joined(s, FixedItems(K), front, C, RuntimeFeeItems, F)
  BY <1>1 DEF Joined, FixedItems
<1>3. ListsN(front, C, n) /\ n \in Nat /\ 3 \in Nat
  BY DEF Fixed
<1>4. ListsN(RuntimeFeeItems, F, 3)
  BY ListsRuntimeFee
<1> HIDE DEF C, F, s
<1>5. ListsN(s, FixedItems(K), n + 3)
  BY ONLY <1>2, <1>3, <1>4, ListsNJoined, Zenon
<1> QED BY <1>5 DEF s

LEMMA FixedRuntime ==
  ASSUME ReaderInv, status = "ok", tx.kind = "runtime",
         tx.method \notin ContractMethods, Counted,
         NEW front, NEW K, NEW n, Fixed(tx, front, K, n)
  PROVE  Reviewed(Content(tx))
<1> DEFINE s == front \o RuntimeFeeItems
           D == FixedItems(K)
           L == n + 3
<1>1. n \in 3..5 /\ RuntimeCount(tx) = n /\ Plain(K)
      /\ K = {Title(tx)} \cup MethodFields[tx.method]
  BY DEF Fixed
<1>2. NetworkItem \notin D
  <2>1. NetworkItem \notin ItemsOf(K)
    BY <1>1 DEF ItemsOf, NetworkItem, Item, Plain
  <2>2. NetworkItem \notin ItemsOf(RuntimeFeeKeys)
    BY DEF ItemsOf, NetworkItem, Item, RuntimeFeeKeys
  <2> QED BY <2>1, <2>2 DEF FixedItems
<1>3. Content(tx) = D \cup {NetworkItem}
  <2>1. ElementItems(tx) = {}
    <3>1. tx.method # "Amend" /\ tx.method # "RegisterEntity" /\ tx.kind # "entity"
      BY MethodOf DEF RuntimeMethods, ConsensusMethods, ContractMethods
    <3> QED BY <3>1 DEF ElementItems
  <2>2. RuntimeKeys(tx) = K
    BY <1>1, MethodOf DEF RuntimeKeys
  <2>3. tx \in AnyTx
    BY ShownTo
  <2>4. Content(tx) = ((ItemsOf(RuntimeKeys(tx)) \cup ItemsOf(RuntimeFeeKeys))
                         \cup ElementItems(tx)) \cup {NetworkItem}
    BY <2>3, RuntimeContent
  <2> QED BY <2>1, <2>2, <2>4 DEF FixedItems
<1>4. \A i \in Int : RuntimeItem(tx, i) = At(s, i)
  BY DEF Fixed
<1>5. L \in 3..128 /\ L \in Nat /\ L \in Int /\ RuntimeCount(tx) = L - 3
  BY <1>1
<1>6. ListsN(s, D, L)
  BY FixedList
<1> HIDE DEF s, D, L
<1>7. DOMAIN s = 1..L
  BY <1>6, ListsDomain
<1>8. \A i \in 1..L : RuntimeItem(tx, i - 1) = s[i]
  <2> SUFFICES ASSUME NEW i \in 1..L
               PROVE  RuntimeItem(tx, i - 1) = s[i]
    OBVIOUS
  <2>1. i - 1 \in Int /\ (i - 1) + 1 \in 1..L /\ (i - 1) + 1 = i
    BY <1>5
  <2>2. At(s, i - 1) = s[(i - 1) + 1]
    BY <1>5, <1>7, <2>1, AtIs
  <2>3. RuntimeItem(tx, i - 1) = At(s, i - 1)
    BY <1>4, <2>1
  <2> QED BY <2>1, <2>2, <2>3
<1>9. RuntimeItem(tx, L) = NoItem
  <2>1. L + 1 \notin DOMAIN s
    BY <1>5, <1>7
  <2>2. At(s, L) = NoItem
    BY <2>1 DEF At
  <2> QED BY <1>4, <1>5, <2>2
<1> QED BY <1>2, <1>3, <1>5, <1>6, <1>8, <1>9, RuntimeReview

LEMMA ConsensusFixed ==
  ASSUME NEW t, t.method \in ConsensusMethods, t.kind = "runtime"
  PROVE  /\ t.method \notin ContractMethods
         /\ \E front, K, n : Fixed(t, front, K, n)
<1> DEFINE others == {"ContractUpgrade", "Encrypted", "Evm"}
<1>0. \A o \in others : t.method # o
  BY DEF ConsensusMethods
<1>1. RuntimeCount(t) = 3 /\ 3 \in 3..5
  BY <1>0 DEF RuntimeCount
<1>2. Title(t) = "Type" /\ t.method \notin ContractMethods
  BY DEF Title, ConsensusMethods, ContractMethods
<1>3. \A i \in Int : RuntimeItem(t, i) = At(ConsensusItems(t), i)
  BY <1>0 DEF RuntimeItem
<1> HIDE DEF others
<1>4. CASE t.method = "Undelegate"
  <2> DEFINE front == Named(<<"Type", "From", "Shares">>)
             K == {"Type", "From", "Shares"}
  <2>1. ListsN(front, ItemsOf(K), 3)
    BY NamedThree DEF ListsN
  <2>2. K = {Title(t)} \cup MethodFields[t.method]
    BY <1>2, <1>4 DEF MethodFields
  <2>3. Plain(K)
    BY DEF Plain, RuntimeFeeKeys
  <2>4. ConsensusItems(t) = front \o RuntimeFeeItems
    BY <1>4 DEF ConsensusItems
  <2> HIDE DEF front, K
  <2>5. \A i \in Int : RuntimeItem(t, i) = At(front \o RuntimeFeeItems, i)
    BY <1>3, <2>4
  <2>6. Fixed(t, front, K, 3)
    BY <1>1, <2>1, <2>2, <2>3, <2>5 DEF Fixed
  <2> QED BY <1>2, <2>6
<1>5. CASE t.method # "Undelegate"
  <2> DEFINE front == Named(<<"Type", "To", "Amount">>)
             K == {"Type", "To", "Amount"}
  <2>1. ListsN(front, ItemsOf(K), 3)
    BY NamedThree DEF ListsN
  <2>2. K = {Title(t)} \cup MethodFields[t.method]
    <3>1. MethodFields[t.method] = {"To", "Amount"}
      <4>1. CASE t.method = "Deposit"
        BY <4>1 DEF MethodFields
      <4>2. CASE t.method = "RuntimeTransfer"
        BY <4>2 DEF MethodFields
      <4>3. CASE t.method = "RuntimeWithdraw"
        BY <4>3 DEF MethodFields
      <4>4. CASE t.method = "Delegate"
        BY <4>4 DEF MethodFields
      <4> QED BY <1>5, <4>1, <4>2, <4>3, <4>4 DEF ConsensusMethods
    <3> QED BY <1>2, <3>1
  <2>3. Plain(K)
    BY DEF Plain, RuntimeFeeKeys
  <2>4. ConsensusItems(t) = front \o RuntimeFeeItems
    BY <1>5 DEF ConsensusItems
  <2> HIDE DEF front, K
  <2>5. \A i \in Int : RuntimeItem(t, i) = At(front \o RuntimeFeeItems, i)
    BY <1>3, <2>4
  <2>6. Fixed(t, front, K, 3)
    BY <1>1, <2>1, <2>2, <2>3, <2>5 DEF Fixed
  <2> QED BY <1>2, <2>6
<1> QED BY <1>4, <1>5

LEMMA EncryptedFixed ==
  ASSUME NEW t, t.method = "Encrypted", t.kind = "runtime"
  PROVE  /\ t.method \notin ContractMethods
         /\ \E front, K, n : Fixed(t, front, K, n)
<1> DEFINE front == Named(<<"Review Encrypted", "Warning!", "Tx Hash", "Pubkey", "Nonce">>)
           K == {"Review Encrypted", "Warning!", "Tx Hash", "Pubkey", "Nonce"}
<1>1. RuntimeCount(t) = 5 /\ 5 \in 3..5
  BY DEF RuntimeCount, ConsensusMethods
<1>2. Title(t) = "Review Encrypted" /\ t.method \notin ContractMethods
  BY DEF Title, ContractMethods
<1>3. \A i \in Int : RuntimeItem(t, i) = At(EncryptedItems, i)
  BY DEF RuntimeItem, ConsensusMethods
<1>4. ListsN(front, ItemsOf(K), 5)
  BY NamedFive DEF ListsN
<1>5. K = {Title(t)} \cup MethodFields[t.method]
  <2>1. MethodFields[t.method] = {"Warning!", "Tx Hash", "Pubkey", "Nonce"}
    BY DEF MethodFields
  <2> QED BY <1>2, <2>1
<1>6. Plain(K)
  BY DEF Plain, RuntimeFeeKeys
<1>7. EncryptedItems = front \o RuntimeFeeItems
  BY DEF EncryptedItems
<1> HIDE DEF front, K
<1>8. \A i \in Int : RuntimeItem(t, i) = At(front \o RuntimeFeeItems, i)
  BY <1>3, <1>7
<1>9. Fixed(t, front, K, 5)
  BY <1>1, <1>4, <1>5, <1>6, <1>8 DEF Fixed
<1> QED BY <1>2, <1>9

LEMMA EvmFixed ==
  ASSUME NEW t, t.method = "Evm", t.kind = "runtime"
  PROVE  /\ t.method \notin ContractMethods
         /\ \E front, K, n : Fixed(t, front, K, n)
<1> DEFINE front == Named(<<"Review Contract", "Warning!", "Tx Hash", "Address">>)
           K == {"Review Contract", "Warning!", "Tx Hash", "Address"}
<1>1. RuntimeCount(t) = 4 /\ 4 \in 3..5
  BY DEF RuntimeCount, ConsensusMethods
<1>2. Title(t) = "Review Contract" /\ t.method \notin ContractMethods
  BY DEF Title, ContractMethods
<1>3. \A i \in Int : RuntimeItem(t, i) = At(EvmItems, i)
  BY DEF RuntimeItem, ConsensusMethods
<1>4. ListsN(front, ItemsOf(K), 4)
  BY NamedFour DEF ListsN
<1>5. K = {Title(t)} \cup MethodFields[t.method]
  <2>1. MethodFields[t.method] = {"Warning!", "Tx Hash", "Address"}
    BY DEF MethodFields
  <2> QED BY <1>2, <2>1
<1>6. Plain(K)
  BY DEF Plain, RuntimeFeeKeys
<1>7. EvmItems = front \o RuntimeFeeItems
  BY DEF EvmItems
<1> HIDE DEF front, K
<1>8. \A i \in Int : RuntimeItem(t, i) = At(front \o RuntimeFeeItems, i)
  BY <1>3, <1>7
<1>9. Fixed(t, front, K, 4)
  BY <1>1, <1>4, <1>5, <1>6, <1>8 DEF Fixed
<1> QED BY <1>2, <1>9

\* Every ParaTime transaction but a contract's.
LEMMA MethodsFixed ==
  ASSUME NEW t, t.kind = "runtime", t.method \in RuntimeMethods \ ContractMethods
  PROVE  \E front, K, n : Fixed(t, front, K, n)
<1>1. CASE t.method \in ConsensusMethods
  BY <1>1, ConsensusFixed
<1>2. CASE t.method = "Encrypted"
  BY <1>2, EncryptedFixed
<1>3. CASE t.method = "Evm"
  BY <1>3, EvmFixed
<1> QED BY <1>1, <1>2, <1>3 DEF RuntimeMethods

-----------------------------------------------------------------------------
(* Contracts. *)

HeadKey(t) == IF t.method = "Instantiate" THEN "Code ID" ELSE "Instance ID"

ContractTitle == Item("Review Contract")

DataItem == Item("Data")

ContractFront(t) ==
  IF t.dataValid THEN Named(<<"Review Contract", HeadKey(t), "Data">>)
                 ELSE Named(<<"Review Contract", HeadKey(t)>>)

ContractKeys(t) ==
  {"Review Contract", HeadKey(t)} \cup (IF t.dataValid THEN {"Data"} ELSE {})

LEMMA FrontOf ==
  ASSUME NEW a, NEW b, NEW c, a # b, a # c, b # c, NEW valid \in BOOLEAN, NEW front,
         front = IF valid THEN Named(<<a, b, c>>) ELSE Named(<<a, b>>)
  PROVE  /\ ListsN(front, ItemsOf({a, b} \cup (IF valid THEN {c} ELSE {})), 2 + One(valid))
         /\ front[1] = Item(a) /\ front[2] = Item(b)
         /\ valid => front[3] = Item(c)
<1>1. CASE valid
  <2>1. front = Named(<<a, b, c>>)
    BY <1>1
  <2>2. {a, b} \cup (IF valid THEN {c} ELSE {}) = {a, b, c}
    BY <1>1
  <2>3. 2 + One(valid) = 3
    BY <1>1 DEF One
  <2>4. front[1] = Item(a) /\ front[2] = Item(b) /\ front[3] = Item(c)
    BY <2>1 DEF Named
  <2>5. ListsN(Named(<<a, b, c>>), ItemsOf({a, b, c}), 3)
    BY NamedThree DEF ListsN
  <2> QED BY <2>1, <2>2, <2>3, <2>4, <2>5
<1>2. CASE ~valid
  <2>1. front = Named(<<a, b>>)
    BY <1>2
  <2>2. {a, b} \cup (IF valid THEN {c} ELSE {}) = {a, b}
    BY <1>2
  <2>3. 2 + One(valid) = 2
    BY <1>2 DEF One
  <2>4. front[1] = Item(a) /\ front[2] = Item(b)
    BY <2>1 DEF Named
  <2>5. ListsN(Named(<<a, b>>), ItemsOf({a, b}), 2)
    BY NamedTwo DEF ListsN
  <2> QED BY <1>2, <2>1, <2>2, <2>3, <2>4, <2>5
<1> QED BY <1>1, <1>2

LEMMA HeadKeys ==
  ASSUME NEW t
  PROVE  /\ "Review Contract" # HeadKey(t) /\ "Review Contract" # "Data"
         /\ HeadKey(t) # "Data"
<1>1. HeadKey(t) = "Code ID" \/ HeadKey(t) = "Instance ID"
  BY DEF HeadKey
<1> QED BY <1>1

LEMMA FrontIs ==
  ASSUME NEW t, t.dataValid \in BOOLEAN
  PROVE  /\ ListsN(ContractFront(t), ItemsOf(ContractKeys(t)), 2 + One(t.dataValid))
         /\ ContractFront(t)[1] = ContractTitle
         /\ ContractFront(t)[2] = Item(HeadKey(t))
         /\ t.dataValid => ContractFront(t)[3] = DataItem
<1> DEFINE a == "Review Contract"
           b == HeadKey(t)
           c == "Data"
<1>1. a # b /\ a # c /\ b # c
  BY HeadKeys
<1>2. ContractFront(t) = IF t.dataValid THEN Named(<<a, b, c>>) ELSE Named(<<a, b>>)
  BY DEF ContractFront
<1>3. ContractKeys(t) = {a, b} \cup (IF t.dataValid THEN {c} ELSE {})
  BY DEF ContractKeys
<1> HIDE DEF a, b, c
<1>4. /\ ListsN(ContractFront(t), ItemsOf({a, b} \cup (IF t.dataValid THEN {c} ELSE {})),
                2 + One(t.dataValid))
      /\ ContractFront(t)[1] = Item(a) /\ ContractFront(t)[2] = Item(b)
      /\ t.dataValid => ContractFront(t)[3] = Item(c)
  BY <1>1, <1>2, FrontOf
<1> QED BY <1>3, <1>4 DEF a, b, c, ContractTitle, DataItem

\* ContractItem with its parts by name: q is the number of tokens as a byte.
ItemOfContract(valid, o, q, i, common, r, x, d) ==
  IF i = 0 THEN r ELSE IF i = 1 THEN x
  ELSE IF valid /\ i = 2 THEN d
  ELSE IF i < o + q THEN <<"Token", ((i - o) % 256) + 1>>
  ELSE At(common, (i - (o + q)) % 256)

LEMMA HeadOf ==
  ASSUME NEW a, NEW b, NEW i \in {0, 1}
  PROVE  Named(<<a, b>>)[i + 1] = IF i = 0 THEN Item(a) ELSE Item(b)
<1>1. CASE i = 0
  BY <1>1 DEF Named
<1>2. CASE i = 1
  BY <1>2 DEF Named
<1> QED BY <1>1, <1>2

LEMMA ContractItemIs ==
  ASSUME NEW t, NEW common, NEW i \in Int
  PROVE  ContractItem(t, i, common)
           = ItemOfContract(t.dataValid, 2 + One(t.dataValid), t.n % 256, i, common,
                            ContractTitle, Item(HeadKey(t)), DataItem)
<1> DEFINE head == IF t.method = "Instantiate"
                   THEN Named(<<"Review Contract", "Code ID">>)
                   ELSE Named(<<"Review Contract", "Instance ID">>)
           a == "Review Contract"
           b == HeadKey(t)
           d == Item("Data")
           offset == 2 + One(t.dataValid)
           tokens == t.n % 256
           rest == IF t.dataValid /\ i = 2 THEN d
                   ELSE IF i < offset + tokens THEN <<"Token", ((i - offset) % 256) + 1>>
                   ELSE At(common, (i - (offset + tokens)) % 256)
<1>1. head = Named(<<a, b>>)
  BY DEF HeadKey
<1>2. ContractItem(t, i, common) = IF i \in {0, 1} THEN head[i + 1] ELSE rest
  BY DEF ContractItem
<1>3. ItemOfContract(t.dataValid, offset, tokens, i, common, Item(a), Item(b), d)
        = IF i = 0 THEN Item(a) ELSE IF i = 1 THEN Item(b) ELSE rest
  BY DEF ItemOfContract
<1> HIDE DEF head, a, b, d, rest, offset, tokens
<1>4. i \in {0, 1} => head[i + 1] = IF i = 0 THEN Item(a) ELSE Item(b)
  BY <1>1, HeadOf
<1>5. ContractItem(t, i, common) = ItemOfContract(t.dataValid, offset, tokens, i, common, Item(a), Item(b), d)
  BY <1>2, <1>3, <1>4
<1> QED BY <1>5 DEF a, b, d, offset, tokens, ContractTitle, DataItem

LEMMA TokensAre ==
  ASSUME NEW n \in Nat
  PROVE  /\ ListsN(Elements(<<"Token">>, n), {"Token"} \X (1..n), n)
         /\ \A i \in 1..n : Elements(<<"Token">>, n)[i] = <<"Token", i>>
<1> DEFINE keys == <<"Token">>
<1>1. keys \in Seq({"Token"}) /\ Len(keys) = 1 /\ Len(keys) \in 1..3
  OBVIOUS
<1>2. Range(keys) = {"Token"} /\ IsInjective(keys)
  BY DEF Range, IsInjective
<1>3. keys[1] = "Token"
  OBVIOUS
<1> HIDE DEF keys
<1>4. Lists(Elements(keys, n), {"Token"} \X (1..n)) /\ Len(Elements(keys, n)) = n * Len(keys)
  BY <1>1, <1>2, ListsElements
<1>5. ListsN(Elements(keys, n), {"Token"} \X (1..n), n)
  BY <1>1, <1>4 DEF ListsN
<1>6. \A i \in 1..n : Elements(keys, n)[i] = <<"Token", i>>
  <2> TAKE i \in 1..n
  <2>1. i \in 1..(n * Len(keys))
    BY <1>1
  <2>2. Elements(keys, n)[i] = <<keys[((i - 1) % Len(keys)) + 1], ((i - 1) \div Len(keys)) + 1>>
    BY <2>1 DEF Elements
  <2>3. ((i - 1) % Len(keys)) + 1 = 1 /\ ((i - 1) \div Len(keys)) + 1 = i
    BY <1>1
  <2> QED BY <1>3, <2>2, <2>3
<1> QED BY <1>5, <1>6 DEF keys

LEMMA SmallOffset ==
  ASSUME NEW o \in 2..3, NEW n \in Nat, NEW c \in Nat, o + n + c <= 128,
         NEW i \in 2..(o + n + c - 1), NEW q, q = n % 256
  PROVE  /\ q = n
         /\ i >= o => ((i - o) % 256) + 1 = (i - o) + 1
         /\ i >= o + n => /\ (i - (o + n)) % 256 = i - (o + n)
                          /\ (i - (o + n)) + 1 \in 1..c
<1>1. n \in 0..255
  OBVIOUS
<1>2. q = n
  BY <1>1
<1>3. i >= o => i - o \in 0..255
  OBVIOUS
<1>4. i >= o + n => i - (o + n) \in 0..255 /\ (i - (o + n)) + 1 \in 1..c
  OBVIOUS
<1>5. \A k \in 0..255 : k % 256 = k
  OBVIOUS
<1> QED BY <1>2, <1>3, <1>4, <1>5

LEMMA OffsetIs ==
  ASSUME NEW valid \in BOOLEAN
  PROVE  /\ 2 + One(valid) \in 2..3
         /\ valid => 2 + One(valid) = 3
         /\ ~valid => 2 + One(valid) = 2
  BY DEF One

\* The items before the tokens are o, with the data among them when it is shown.
Offset(valid, o) == (valid => o = 3) /\ (~valid => o = 2)

\* What is at a place, when no index wraps.
PlaceOfContract(valid, o, n, i, common, r, x, d) ==
  IF i = 0 THEN r ELSE IF i = 1 THEN x
  ELSE IF valid /\ i = 2 THEN d
  ELSE IF i < o + n THEN <<"Token", (i - o) + 1>>
  ELSE common[(i - (o + n)) + 1]

LEMMA ContractPlaces ==
  ASSUME NEW valid \in BOOLEAN, NEW o \in 2..3, Offset(valid, o), NEW n \in Nat,
         NEW c \in Nat, o + n + c <= 128, NEW common, DOMAIN common = 1..c,
         NEW r, NEW x, NEW d, NEW i \in 0..(o + n + c - 1)
  PROVE  ItemOfContract(valid, o, n % 256, i, common, r, x, d)
           = PlaceOfContract(valid, o, n, i, common, r, x, d)
<1> DEFINE q == n % 256
           rest == IF i < o + q THEN <<"Token", ((i - o) % 256) + 1>>
                   ELSE At(common, (i - (o + q)) % 256)
<1>1. (valid => o = 3) /\ (~valid => o = 2)
  BY DEF Offset
<1>2. ItemOfContract(valid, o, q, i, common, r, x, d)
        = IF i = 0 THEN r ELSE IF i = 1 THEN x
          ELSE IF valid /\ i = 2 THEN d ELSE rest
  BY DEF ItemOfContract
<1>3. ASSUME i \in 2..(o + n + c - 1), i >= o
      PROVE  rest = IF i < o + n THEN <<"Token", (i - o) + 1>>
                    ELSE common[(i - (o + n)) + 1]
  <2>1. /\ q = n
        /\ ((i - o) % 256) + 1 = (i - o) + 1
        /\ i >= o + n => /\ (i - (o + n)) % 256 = i - (o + n)
                         /\ (i - (o + n)) + 1 \in 1..c
    BY <1>3, SmallOffset
  <2>2. CASE i < o + n
    BY <2>1, <2>2
  <2>3. CASE ~(i < o + n)
    <3>1. i >= o + n
      BY <2>3
    <3>2. rest = At(common, i - (o + n))
      BY <2>1, <2>3, <3>1
    <3> HIDE DEF rest
    <3>3. At(common, i - (o + n)) = common[(i - (o + n)) + 1]
      BY <2>1, <3>1, AtIs
    <3> QED BY <2>3, <3>2, <3>3
  <2> QED BY <2>2, <2>3
<1> HIDE DEF rest
<1>4. i # 0 /\ i # 1 => i \in 2..(o + n + c - 1)
  OBVIOUS
<1>5. i # 0 /\ i # 1 /\ ~(valid /\ i = 2) => i >= o
  BY <1>1, <1>4
<1> QED BY <1>2, <1>3, <1>4, <1>5 DEF PlaceOfContract

\* Behind the last of them there is nothing.
LEMMA ContractEnds ==
  ASSUME NEW valid \in BOOLEAN, NEW o \in 2..3, Offset(valid, o), NEW n \in Nat,
         NEW c \in Nat, c > 0, NEW L, L = o + n + c, L <= 127,
         NEW common, DOMAIN common = 1..c, NEW r, NEW x, NEW d
  PROVE  ItemOfContract(valid, o, n % 256, L, common, r, x, d) = NoItem
<1>1. n \in 0..255 /\ n % 256 = n
  OBVIOUS
<1>2. /\ L # 0 /\ L # 1 /\ ~(L < o + n) /\ L - (o + n) = c
      /\ c \in 0..255 /\ c % 256 = c
  OBVIOUS
<1>3. ~(valid /\ L = 2)
  BY DEF Offset
<1>4. ItemOfContract(valid, o, n % 256, L, common, r, x, d) = At(common, c)
  BY <1>1, <1>2, <1>3 DEF ItemOfContract
<1>5. c + 1 \notin DOMAIN common
  OBVIOUS
<1> QED BY <1>4, <1>5 DEF At

\* What is listed, and where.
ContractParts(valid, o, n, c, front, F, common, C, tokens, T, r, x, d) ==
  /\ valid \in BOOLEAN /\ o \in 2..3 /\ Offset(valid, o)
  /\ n \in Nat /\ c \in Nat /\ o + n + c <= 128
  /\ ListsN(front, F, o) /\ ListsN(common, C, c) /\ ListsN(tokens, T, n)
  /\ \A i \in 1..n : tokens[i] = <<"Token", i>>
  /\ front[1] = r /\ front[2] = x /\ (valid => front[3] = d)

\* The items of a contract in their order: those at its front, the tokens, the rest.
LEMMA ListsContract ==
  ASSUME NEW valid, NEW o, NEW n, NEW c, NEW front, NEW F, NEW common, NEW C,
         NEW tokens, NEW T, NEW r, NEW x, NEW d,
         ContractParts(valid, o, n, c, front, F, common, C, tokens, T, r, x, d),
         NEW upto, NEW U, Joined(upto, U, front, F, tokens, T),
         NEW s, NEW D, Joined(s, D, upto, U, common, C)
  PROVE  /\ ListsN(s, D, o + n + c)
         /\ \A i \in 1..(o + n + c) :
              s[i] = ItemOfContract(valid, o, n % 256, i - 1, common, r, x, d)
<1>a. valid \in BOOLEAN /\ o \in 2..3 /\ Offset(valid, o) /\ n \in Nat /\ c \in Nat
      /\ o + n + c <= 128
  BY DEF ContractParts
<1>b. ListsN(front, F, o) /\ ListsN(common, C, c) /\ ListsN(tokens, T, n)
  BY DEF ContractParts
<1>c. /\ \A i \in 1..n : tokens[i] = <<"Token", i>>
      /\ front[1] = r /\ front[2] = x /\ (valid => front[3] = d)
  BY DEF ContractParts
<1> USE <1>a, <1>b, <1>c
<1> DEFINE L == o + n + c
<1>1. ListsN(upto, U, o + n)
  BY ListsNJoined
<1>2. ListsN(s, D, L)
  BY <1>1, ListsNJoined
<1>3. /\ \A i \in 1..o : upto[i] = front[i]
      /\ \A i \in (o + 1)..(o + n) : upto[i] = tokens[i - o]
  <2>1. o \in Nat
    OBVIOUS
  <2> QED BY <2>1, PlacesJoined
<1>4. /\ \A i \in 1..(o + n) : s[i] = upto[i]
      /\ \A i \in (o + n + 1)..L : s[i] = common[i - (o + n)]
  <2>1. o + n \in Nat
    OBVIOUS
  <2> QED BY <1>1, <2>1, PlacesJoined
<1>5. DOMAIN common = 1..c
  BY ListsDomain
<1>6. ASSUME NEW j \in 0..(o + n + c - 1)
      PROVE  ItemOfContract(valid, o, n % 256, j, common, r, x, d)
               = PlaceOfContract(valid, o, n, j, common, r, x, d)
  BY ONLY <1>a, <1>5, <1>6, ContractPlaces
<1>7. ASSUME NEW i \in 1..L
      PROVE  s[i] = ItemOfContract(valid, o, n % 256, i - 1, common, r, x, d)
  <2> DEFINE j == i - 1
             it == ItemOfContract(valid, o, n % 256, j, common, r, x, d)
  <2>1. j \in 0..(o + n + c - 1) /\ i = j + 1 /\ j \in 0..127
    OBVIOUS
  <2> HIDE DEF j
  <2>2. it = IF j = 0 THEN r ELSE IF j = 1 THEN x
             ELSE IF valid /\ j = 2 THEN d
             ELSE IF j < o + n THEN <<"Token", (j - o) + 1>>
             ELSE common[(j - (o + n)) + 1]
    BY <1>6, <2>1 DEF PlaceOfContract
  <2> HIDE DEF it
  <2>3. CASE j = 0 \/ j = 1 \/ (valid /\ j = 2)
    <3>1. i \in 1..o /\ i \in 1..(o + n)
      BY <2>1, <2>3 DEF Offset
    <3>2. s[i] = front[i]
      BY <1>3, <1>4, <3>1
    <3>3. front[i] = IF j = 0 THEN r ELSE IF j = 1 THEN x ELSE d
      BY <2>1, <2>3
    <3>4. s[i] = it
      BY <2>2, <2>3, <3>2, <3>3
    <3> QED BY <3>4 DEF j, it
  <2>4. CASE ~(j = 0 \/ j = 1 \/ (valid /\ j = 2)) /\ j < o + n
    <3>1. i \in (o + 1)..(o + n) /\ i \in 1..(o + n) /\ i - o \in 1..n /\ i - o = (j - o) + 1
      BY <2>1, <2>4 DEF Offset
    <3>2. s[i] = <<"Token", i - o>>
      BY <1>3, <1>4, <3>1
    <3>3. s[i] = it
      BY <2>2, <2>4, <3>1, <3>2
    <3> QED BY <3>3 DEF j, it
  <2>5. CASE ~(j = 0 \/ j = 1 \/ (valid /\ j = 2)) /\ ~(j < o + n)
    <3>1. i \in (o + n + 1)..L /\ i - (o + n) = (j - (o + n)) + 1
      BY <2>1, <2>5
    <3>2. s[i] = common[i - (o + n)]
      BY <1>4, <3>1
    <3>3. s[i] = it
      BY <2>2, <2>5, <3>1, <3>2
    <3> QED BY <3>3 DEF j, it
  <2> QED BY <2>3, <2>4, <2>5
<1> QED BY <1>2, <1>7

\* A contract's items are o at the front, n tokens and c more, L in all.
ContractShape(t, o, n, c, L) ==
  /\ o = 2 + One(t.dataValid) /\ n = t.n /\ L = o + n + c
  /\ RuntimeCount(t) = L - 3

\* The whole of a contract's review: `common` is what comes behind the tokens.
LEMMA ContractReview ==
  ASSUME ReaderInv, status = "ok", tx.kind = "runtime", Counted, NEW common, NEW K,
         NEW c \in 3..4, ListsN(common, ItemsOf(K), c),
         NEW o, NEW n, NEW L \in 3..128, ContractShape(tx, o, n, c, L),
         \A k \in ContractKeys(tx) : k \notin K,
         "Network" \notin ContractKeys(tx), "Network" \notin K,
         \A i \in 0..127 : RuntimeItem(tx, i) = ContractItem(tx, i, common)
  PROVE  Reviewed(((ItemsOf(ContractKeys(tx)) \cup ({"Token"} \X (1..n)))
                     \cup ItemsOf(K)) \cup {NetworkItem})
<1> DEFINE valid == tx.dataValid
           front == ContractFront(tx)
           F == ItemsOf(ContractKeys(tx))
           tokens == Elements(<<"Token">>, n)
           T == {"Token"} \X (1..n)
           C == ItemsOf(K)
           upto == front \o tokens
           U == F \cup T
           s == upto \o common
           D == U \cup C
           r == ContractTitle
           x == Item(HeadKey(tx))
           d == DataItem
<1>1. valid \in BOOLEAN /\ n \in Nat
  BY ShownTo DEF AnyTx, ContractShape
<1>2. o \in 2..3 /\ Offset(valid, o)
  BY <1>1, OffsetIs DEF Offset, ContractShape
<1>3. /\ ListsN(front, F, o)
      /\ front[1] = r /\ front[2] = x /\ (valid => front[3] = d)
  <2>1. o = 2 + One(tx.dataValid)
    BY DEF ContractShape
  <2>2. /\ ListsN(front, F, 2 + One(tx.dataValid))
        /\ front[1] = r /\ front[2] = x /\ (tx.dataValid => front[3] = d)
    BY <1>1, FrontIs
  <2> HIDE DEF front, F, r, x, d
  <2> QED BY <2>1, <2>2
<1>4. ListsN(tokens, T, n) /\ \A i \in 1..n : tokens[i] = <<"Token", i>>
  BY <1>1, TokensAre
<1>5. \A y \in F : y \notin T
  BY ElementsApart
<1>6. \A y \in U : y \notin C
  <2>1. \A y \in F : y \notin C
    BY ItemsApart
  <2>2. \A y \in C : y \notin T
    BY ElementsApart
  <2> QED BY <2>1, <2>2
<1>7. NetworkItem \notin D
  <2>1. NetworkItem \notin F /\ NetworkItem \notin C
    BY DEF NetworkItem, ItemsOf, Item
  <2>2. NetworkItem \notin T
    BY OtherElements
  <2> QED BY <2>1, <2>2
<1>8. Joined(upto, U, front, F, tokens, T) /\ Joined(s, D, upto, U, common, C)
  BY <1>5, <1>6 DEF Joined
<1>9. ListsN(common, C, c)
  OBVIOUS
<1>10. L = o + n + c /\ o + n + c <= 128 /\ RuntimeCount(tx) = L - 3
  BY DEF ContractShape
<1>11. \A i \in 0..127 : RuntimeItem(tx, i)
                           = ItemOfContract(valid, o, n % 256, i, common, r, x, d)
  <2>1. o = 2 + One(tx.dataValid) /\ n = tx.n
    BY DEF ContractShape
  <2>2. \A i \in 0..127 : i \in Nat
    OBVIOUS
  <2> QED BY <2>1, <2>2, ContractItemIs
<1> HIDE DEF front, F, tokens, T, C, upto, U, s, D, r, x, d, valid
<1>12. /\ ListsN(s, D, o + n + c)
       /\ \A i \in 1..(o + n + c) :
            s[i] = ItemOfContract(valid, o, n % 256, i - 1, common, r, x, d)
  <2>1. ContractParts(valid, o, n, c, front, F, common, C, tokens, T, r, x, d)
    BY <1>1, <1>2, <1>3, <1>4, <1>9, <1>10 DEF ContractParts
  <2> QED BY <1>8, <2>1, ListsContract
<1>13. \A i \in 1..L : RuntimeItem(tx, i - 1) = s[i]
  <2> TAKE i \in 1..L
  <2>1. i - 1 \in 0..127 /\ i \in 1..(o + n + c)
    BY <1>10
  <2> QED BY <1>11, <1>12, <2>1
<1>14. ListsN(s, D, L)
  BY <1>10, <1>12, Zenon
<1>15. L <= 127 => RuntimeItem(tx, L) = NoItem
  <2> SUFFICES ASSUME L <= 127 PROVE RuntimeItem(tx, L) = NoItem
    OBVIOUS
  <2>1. L \in 0..127 /\ L <= 127 /\ c \in Nat /\ c > 0
    OBVIOUS
  <2>2. DOMAIN common = 1..c
    BY <1>9, <2>1, ListsDomain
  <2>3. ItemOfContract(valid, o, n % 256, L, common, r, x, d) = NoItem
    <3>1. valid \in BOOLEAN /\ o \in 2..3 /\ Offset(valid, o) /\ n \in Nat
      BY <1>1, <1>2
    <3>2. c \in Nat /\ c > 0 /\ L = o + n + c /\ L <= 127 /\ DOMAIN common = 1..c
      BY ONLY <1>10, <2>1, <2>2, Zenon
    <3> QED BY ONLY <3>1, <3>2, ContractEnds
  <2> QED BY ONLY <1>11, <2>1, <2>3, Zenon
<1>16. Reviewed(D \cup {NetworkItem})
  BY <1>7, <1>10, <1>13, <1>14, <1>15, RuntimeReview
<1> QED BY <1>16 DEF D, U, F, T, C

LEMMA CountedIs ==
  ASSUME ReaderInv, status = "ok", Counted
  PROVE  RuntimeCount(tx) <= 125
<1>1. tx.n \in Nat /\ tx.stale \in Nat
  BY ShownTo DEF AnyTx
<1>2. RuntimeCount(tx) \in Nat
  BY <1>1 DEF RuntimeCount, One
<1> QED BY <1>1, <1>2 DEF Counted

LEMMA ContractKeysPlain ==
  ASSUME NEW t
  PROVE  /\ \A k \in ContractKeys(t) : k \notin RuntimeFeeKeys
         /\ "Network" \notin ContractKeys(t) /\ "Network" \notin RuntimeFeeKeys
<1>1. \A k \in ContractKeys(t) : \/ k = "Review Contract" \/ k = "Code ID"
                                 \/ k = "Instance ID" \/ k = "Data"
  BY DEF ContractKeys, HeadKey
<1>2. \A k : k = "Review Contract" \/ k = "Code ID" \/ k = "Instance ID" \/ k = "Data"
         => k # "Network" /\ k \notin RuntimeFeeKeys
  BY DEF RuntimeFeeKeys
<1>3. "Network" \notin RuntimeFeeKeys
  BY DEF RuntimeFeeKeys
<1> QED BY <1>1, <1>2, <1>3

LEMMA NewCodePlain ==
  ASSUME NEW t
  PROVE  /\ \A k \in ContractKeys(t) : k # "New Code ID"
         /\ "New Code ID" \notin RuntimeFeeKeys /\ "Network" # "New Code ID"
<1>1. \A k \in ContractKeys(t) : \/ k = "Review Contract" \/ k = "Code ID"
                                 \/ k = "Instance ID" \/ k = "Data"
  BY DEF ContractKeys, HeadKey
<1>2. \A k : k = "Review Contract" \/ k = "Code ID" \/ k = "Instance ID" \/ k = "Data"
         => k # "New Code ID"
  OBVIOUS
<1>3. "New Code ID" \notin RuntimeFeeKeys /\ "Network" # "New Code ID"
  BY DEF RuntimeFeeKeys
<1> QED BY <1>1, <1>2, <1>3

LEMMA ContractSum ==
  ASSUME NEW valid \in BOOLEAN, NEW n \in Nat, NEW c \in 3..4,
         (c - 1) + n + One(valid) <= 125
  PROVE  /\ (2 + One(valid)) + n + c \in 3..128
         /\ (c - 1) + n + One(valid) = ((2 + One(valid)) + n + c) - 3
<1>1. One(valid) \in 0..1
  BY DEF One
<1> QED BY <1>1

LEMMA ContractReviewed ==
  ASSUME ReaderInv, status = "ok", tx.kind = "runtime",
         tx.method \in {"Call", "Instantiate"}, Counted
  PROVE  Reviewed(Content(tx))
<1> DEFINE n == tx.n
           o == 2 + One(tx.dataValid)
           L == o + n + 3
           T == {"Token"} \X (1..n)
           F == ItemsOf(ContractKeys(tx))
           C == ItemsOf(RuntimeFeeKeys)
<1>1. tx.dataValid \in BOOLEAN /\ tx.n \in Nat /\ tx \in AnyTx
  BY ShownTo DEF AnyTx
<1>2. tx.method \notin ConsensusMethods /\ tx.method # "ContractUpgrade"
      /\ tx.method # "Encrypted" /\ tx.method # "Evm"
  BY DEF ConsensusMethods
<1>3. RuntimeCount(tx) = 2 + tx.n + One(tx.dataValid)
  BY <1>2 DEF RuntimeCount
<1>4. L \in 3..128 /\ RuntimeCount(tx) = L - 3
  <2>1. 3 \in 3..4 /\ 3 - 1 = 2
    OBVIOUS
  <2>2. (3 - 1) + tx.n + One(tx.dataValid) <= 125
    BY <1>3, <2>1, CountedIs
  <2> QED BY <1>1, <1>3, <2>1, <2>2, ContractSum
<1>5. ContractShape(tx, o, n, 3, L)
  BY <1>4 DEF ContractShape
<1>6. \A i \in 0..127 : RuntimeItem(tx, i) = ContractItem(tx, i, RuntimeFeeItems)
  BY <1>2 DEF RuntimeItem
<1>7. ElementItems(tx) = T
  <2>1. tx.method # "Amend" /\ tx.method # "RegisterEntity" /\ tx.method \in ContractMethods
    BY DEF ContractMethods
  <2> QED BY <2>1 DEF ElementItems
<1>8. RuntimeKeys(tx) = ContractKeys(tx)
  <2>1. Title(tx) = "Review Contract"
    BY <1>2 DEF Title, ContractMethods
  <2>2. MethodFields[tx.method] = {HeadKey(tx)}
    <3>1. CASE tx.method = "Call"
      BY <3>1 DEF MethodFields, HeadKey
    <3>2. CASE tx.method = "Instantiate"
      BY <3>2 DEF MethodFields, HeadKey
    <3> QED BY <3>1, <3>2
  <2>3. {Title(tx)} \cup MethodFields[tx.method] = {"Review Contract", HeadKey(tx)}
    BY <2>1, <2>2
  <2> QED BY <2>3 DEF RuntimeKeys, ContractKeys
<1>9. Content(tx) = ((F \cup C) \cup T) \cup {NetworkItem}
  BY <1>1, <1>7, <1>8, RuntimeContent
<1>10. ((F \cup C) \cup T) = (F \cup T) \cup C
  OBVIOUS
<1> HIDE DEF o, n, L
<1>11. 3 \in 3..4 /\ L \in 3..128
  <2>1. L \in 3..128
    BY ONLY <1>4, Zenon
  <2>2. 3 \in 3..4
    OBVIOUS
  <2> QED BY ONLY <2>1, <2>2, Zenon
<1>12. Reviewed(((F \cup T) \cup C) \cup {NetworkItem})
  BY <1>5, <1>6, <1>11, ListsRuntimeFee, ContractKeysPlain, ContractReview
<1> QED BY <1>9, <1>10, <1>12

LEMMA ContractUpgradeReviewed ==
  ASSUME ReaderInv, status = "ok", tx.kind = "runtime",
         tx.method = "ContractUpgrade", Counted
  PROVE  Reviewed(Content(tx))
<1> DEFINE n == tx.n
           o == 2 + One(tx.dataValid)
           L == o + n + 4
           new == Named(<<"New Code ID">>)
           common == new \o RuntimeFeeItems
           N == {"New Code ID"}
           K == N \cup RuntimeFeeKeys
           T == {"Token"} \X (1..n)
           F == ItemsOf(ContractKeys(tx))
           C == ItemsOf(K)
<1>1. tx.dataValid \in BOOLEAN /\ tx.n \in Nat /\ tx \in AnyTx
  BY ShownTo DEF AnyTx
<1>2. tx.method \notin ConsensusMethods
      /\ tx.method # "Encrypted" /\ tx.method # "Evm"
  BY DEF ConsensusMethods
<1>3. RuntimeCount(tx) = 3 + tx.n + One(tx.dataValid)
  BY <1>2 DEF RuntimeCount
<1>4. L \in 3..128 /\ RuntimeCount(tx) = L - 3
  <2>1. 4 \in 3..4 /\ 4 - 1 = 3
    OBVIOUS
  <2>2. (4 - 1) + tx.n + One(tx.dataValid) <= 125
    BY <1>3, <2>1, CountedIs
  <2> QED BY <1>1, <1>3, <2>1, <2>2, ContractSum
<1>5. ContractShape(tx, o, n, 4, L)
  BY <1>4 DEF ContractShape
<1>6. \A i \in 0..127 : RuntimeItem(tx, i) = ContractItem(tx, i, common)
  BY <1>2 DEF RuntimeItem, UpgradeItem
<1>7. ElementItems(tx) = T
  <2>1. tx.method # "Amend" /\ tx.method # "RegisterEntity" /\ tx.method \in ContractMethods
    BY DEF ContractMethods
  <2> QED BY <2>1 DEF ElementItems
<1>8. RuntimeKeys(tx) = ContractKeys(tx) \cup N
  <2> DEFINE data == IF tx.dataValid THEN {"Data"} ELSE {}
  <2>1. Title(tx) = "Review Contract"
    BY <1>2 DEF Title, ContractMethods
  <2>2. MethodFields[tx.method] = {"Instance ID", "New Code ID"}
    BY DEF MethodFields
  <2>3. HeadKey(tx) = "Instance ID"
    BY DEF HeadKey
  <2>4. {Title(tx)} \cup MethodFields[tx.method] = {"Review Contract", HeadKey(tx)} \cup N
    BY <2>1, <2>2, <2>3
  <2>5. RuntimeKeys(tx) = ({Title(tx)} \cup MethodFields[tx.method]) \cup data
    BY DEF RuntimeKeys
  <2>6. ContractKeys(tx) = {"Review Contract", HeadKey(tx)} \cup data
    BY DEF ContractKeys
  <2> HIDE DEF data, N
  <2> QED BY <2>4, <2>5, <2>6
<1>9. ListsN(common, C, 4)
  <2> DEFINE M == ItemsOf(N)
             R == ItemsOf(RuntimeFeeKeys)
  <2>1. ListsN(new, M, 1)
    BY NamedOne DEF ListsN
  <2>2. \A x \in M : x \notin R
    <3>1. \A x \in N : x \notin RuntimeFeeKeys
      BY NewCodePlain
    <3> QED BY <3>1, ItemsApart
  <2>3. C = M \cup R
    BY ItemsOfUnion
  <2>4. Joined(common, C, new, M, RuntimeFeeItems, R)
    BY <2>2, <2>3 DEF Joined
  <2>5. ListsN(RuntimeFeeItems, R, 3)
    BY ListsRuntimeFee
  <2> HIDE DEF M, R, C, common, new
  <2>6. ListsN(common, C, 1 + 3)
    BY <2>1, <2>4, <2>5, ListsNJoined
  <2> QED BY <2>6
<1>10. /\ \A k \in ContractKeys(tx) : k \notin K
       /\ "Network" \notin ContractKeys(tx) /\ "Network" \notin K
  <2>1. \A k \in ContractKeys(tx) : k \notin N /\ k \notin RuntimeFeeKeys
    BY NewCodePlain, ContractKeysPlain
  <2>2. "Network" \notin N /\ "Network" \notin RuntimeFeeKeys
    BY NewCodePlain, ContractKeysPlain
  <2> QED BY <2>1, <2>2, ContractKeysPlain
<1>11. Content(tx) = ((F \cup C) \cup T) \cup {NetworkItem}
  <2> DEFINE R == ItemsOf(RuntimeFeeKeys)
             M == ItemsOf(N)
  <2>1. ItemsOf(RuntimeKeys(tx)) = F \cup M
    BY <1>8, ItemsOfUnion
  <2>2. C = M \cup R
    BY ItemsOfUnion
  <2>3. Content(tx) = ((ItemsOf(RuntimeKeys(tx)) \cup R) \cup T) \cup {NetworkItem}
    BY <1>1, <1>7, RuntimeContent
  <2> HIDE DEF F, M, R, T, C
  <2> QED BY <2>1, <2>2, <2>3
<1> HIDE DEF o, n, L, K, common
<1>12. 4 \in 3..4 /\ L \in 3..128
  <2>1. L \in 3..128
    BY ONLY <1>4, Zenon
  <2>2. 4 \in 3..4
    OBVIOUS
  <2> QED BY ONLY <2>1, <2>2, Zenon
<1>13. Reviewed(((F \cup T) \cup C) \cup {NetworkItem})
  BY <1>5, <1>6, <1>9, <1>10, <1>12, ContractReview
<1>14. ((F \cup C) \cup T) = (F \cup T) \cup C
  OBVIOUS
<1> QED BY <1>11, <1>13, <1>14

LEMMA RuntimeReviewed ==
  ASSUME ReaderInv, status = "ok", tx.kind = "runtime", Counted
  PROVE  Reviewed(Content(tx))
<1>1. tx.method \in RuntimeMethods
  BY MethodOf
<1>2. CASE tx.method \notin ContractMethods
  BY <1>1, <1>2, MethodsFixed, FixedRuntime
<1>3. CASE tx.method \in ContractMethods
  BY <1>3, ContractReviewed, ContractUpgradeReviewed DEF ContractMethods
<1> QED BY <1>2, <1>3

-----------------------------------------------------------------------------
(* Metadata of entities: the optional fields come in their order. *)

LEMMA OptionalAt ==
  /\ \A i, j \in 1..5 : Optional[i] = Optional[j] => i = j
  /\ \A k \in 1..5 : Optional[k] \in Range(Optional)
  /\ \A x \in Range(Optional) : \E k \in 1..5 : x = Optional[k]
  /\ \A x \in Range(Optional) : x # "Version" /\ x # "Serial" /\ x # "Sign"
<1>1. /\ Optional[1] = "Name" /\ Optional[2] = "URL" /\ Optional[3] = "Email"
      /\ Optional[4] = "Keybase" /\ Optional[5] = "Twitter"
  BY DEF Optional
<1>2. DOMAIN Optional = 1..5
  BY DEF Optional
<1>3. \A i \in 1..5 : i = 1 \/ i = 2 \/ i = 3 \/ i = 4 \/ i = 5
  OBVIOUS
<1>4. \A i, j \in 1..5 : Optional[i] = Optional[j] => i = j
  <2> TAKE i, j \in 1..5
  <2>1. CASE i = 1
    BY <1>1, <1>3, <2>1
  <2>2. CASE i = 2
    BY <1>1, <1>3, <2>2
  <2>3. CASE i = 3
    BY <1>1, <1>3, <2>3
  <2>4. CASE i = 4
    BY <1>1, <1>3, <2>4
  <2>5. CASE i = 5
    BY <1>1, <1>3, <2>5
  <2> QED BY <1>3, <2>1, <2>2, <2>3, <2>4, <2>5
<1>5. /\ \A k \in 1..5 : Optional[k] \in Range(Optional)
      /\ \A x \in Range(Optional) : \E k \in 1..5 : x = Optional[k]
  BY <1>2 DEF Range
<1>6. \A k \in 1..5 :
        Optional[k] # "Version" /\ Optional[k] # "Serial" /\ Optional[k] # "Sign"
  BY <1>1, <1>3
<1> QED BY <1>4, <1>5, <1>6

PresentBefore(o, k) == {j \in 1..(k - 1) : Optional[j] \in o}

AbsentBefore(o, k) == {j \in 1..(k - 1) : Optional[j] \notin o}

LEMMA BeforeType ==
  ASSUME NEW o, NEW k \in 1..5
  PROVE  /\ IsFiniteSet(PresentBefore(o, k)) /\ IsFiniteSet(AbsentBefore(o, k))
         /\ Cardinality(PresentBefore(o, k)) \in Nat
         /\ Cardinality(AbsentBefore(o, k)) \in Nat
         /\ Cardinality(PresentBefore(o, k)) + Cardinality(AbsentBefore(o, k)) = k - 1
<1> DEFINE P == PresentBefore(o, k)
           A == AbsentBefore(o, k)
<1>1. IsFiniteSet(1..(k - 1)) /\ Cardinality(1..(k - 1)) = k - 1
  <2>1. 1 \in Int /\ k - 1 \in Int
    OBVIOUS
  <2>2. IsFiniteSet(1..(k - 1))
        /\ Cardinality(1..(k - 1)) = IF 1 > k - 1 THEN 0 ELSE (k - 1) - 1 + 1
    BY <2>1, FS_Interval
  <2> QED BY <2>2
<1>2. P \subseteq 1..(k - 1) /\ A \subseteq 1..(k - 1)
      /\ P \cup A = 1..(k - 1) /\ P \cap A = {}
  BY DEF PresentBefore, AbsentBefore
<1> HIDE DEF P, A
<1>3. IsFiniteSet(P) /\ IsFiniteSet(A)
  BY <1>1, <1>2, FS_Subset
<1>4. Cardinality(P) \in Nat /\ Cardinality(A) \in Nat
  BY <1>3, FS_CardinalityType
<1>5. Cardinality(P \cup A) = Cardinality(P) + Cardinality(A) - Cardinality(P \cap A)
  BY <1>3, FS_Union
<1>6. Cardinality(P \cap A) = 0
  BY <1>2, FS_EmptySet
<1>7. Cardinality(P \cup A) = k - 1
  BY <1>1, <1>2
<1>8. Cardinality(P) + Cardinality(A) = k - 1
  BY <1>4, <1>5, <1>6, <1>7
<1> QED BY <1>3, <1>4, <1>8 DEF P, A

LEMMA BeforeGrows ==
  ASSUME NEW o, NEW j \in 1..5, NEW k \in 1..5, j < k, Optional[j] \in o
  PROVE  Cardinality(PresentBefore(o, j)) + 1 <= Cardinality(PresentBefore(o, k))
<1> DEFINE P == PresentBefore(o, j)
           Q == PresentBefore(o, k)
<1>1. P \cup {j} \subseteq Q /\ j \notin P
  BY DEF PresentBefore
<1>2. IsFiniteSet(P) /\ IsFiniteSet(Q) /\ Cardinality(P) \in Nat
  BY BeforeType
<1> HIDE DEF P, Q
<1>3. Cardinality(P \cup {j}) = Cardinality(P) + 1
  BY <1>1, <1>2, FS_AddElement
<1>4. Cardinality(P \cup {j}) <= Cardinality(Q)
  BY <1>1, <1>2, FS_Subset
<1>5. Cardinality(P) + 1 <= Cardinality(Q)
  BY <1>3, <1>4
<1> QED BY <1>5 DEF P, Q

LEMMA BeforeAll ==
  ASSUME NEW o \in SUBSET Range(Optional), NEW k \in 1..5, Optional[k] \in o
  PROVE  Cardinality(PresentBefore(o, k)) + 1 <= Cardinality(o)
<1> DEFINE P == PresentBefore(o, k)
           S == P \cup {k}
           f == [j \in S |-> Optional[j]]
<1>1. S \subseteq 1..5 /\ k \notin P /\ \A j \in S : Optional[j] \in o
  BY DEF PresentBefore
<1>2. IsFiniteSet(P) /\ Cardinality(P) \in Nat
  BY BeforeType
<1>3. IsFiniteSet(o) /\ Cardinality(o) \in Nat
  BY OptionalCount
<1> HIDE DEF P
<1>4. Cardinality(S) = Cardinality(P) + 1 /\ IsFiniteSet(S)
  BY <1>1, <1>2, FS_AddElement
<1> HIDE DEF S
<1>5. f \in Injection(S, o)
  <2>1. f \in [S -> o]
    BY <1>1
  <2>2. \A a, b \in S : f[a] = f[b] => a = b
    BY <1>1, OptionalAt
  <2> QED BY <2>1, <2>2, Fun_IsInj
<1> HIDE DEF f
<1>6. Cardinality(S) <= Cardinality(o)
  BY <1>3, <1>5, FS_Injection
<1>7. Cardinality(P) + 1 <= Cardinality(o)
  BY <1>4, <1>6
<1> QED BY <1>7 DEF P

\* A field that is there is the item at the place that its predecessors leave.
LEMMA MetadataItemIs ==
  ASSUME NEW t \in AnyTx, NEW k \in 1..5, Optional[k] \in t.optional,
         NEW q, q = Cardinality(PresentBefore(t.optional, k))
  PROVE  MetadataItem(t, q + 2) = Item(Optional[k])
<1> DEFINE o == t.optional
           fits == {j \in 1..5 :
                      /\ Optional[j] \in o
                      /\ j = 5 \/ (q + 2) + Cardinality(AbsentBefore(o, j)) < 2 + j}
<1>1. q \in Nat
  BY BeforeType
<1>2. k \in fits
  <2>1. q + Cardinality(AbsentBefore(o, k)) = k - 1 /\ Cardinality(AbsentBefore(o, k)) \in Nat
    BY BeforeType
  <2> QED BY <1>1, <2>1
<1>3. \A j \in fits : k <= j
  <2> SUFFICES ASSUME NEW j \in 1..5, j < k, Optional[j] \in o,
                      j = 5 \/ (q + 2) + Cardinality(AbsentBefore(o, j)) < 2 + j
               PROVE  FALSE
    OBVIOUS
  <2> DEFINE p == Cardinality(PresentBefore(o, j))
             a == Cardinality(AbsentBefore(o, j))
  <2>1. p \in Nat /\ a \in Nat /\ p + a = j - 1
    BY BeforeType
  <2>2. p + 1 <= q
    BY BeforeGrows
  <2>3. j # 5 /\ (q + 2) + a < 2 + j
    OBVIOUS
  <2> HIDE DEF p, a
  <2> QED BY <1>1, <2>1, <2>2, <2>3
<1>4. (CHOOSE c \in fits : \A j \in fits : c <= j) = k
  <2> DEFINE c == CHOOSE c \in fits : \A j \in fits : c <= j
  <2>1. fits \subseteq 1..5
    OBVIOUS
  <2> HIDE DEF fits
  <2>2. c \in fits /\ \A j \in fits : c <= j
    BY <1>2, <1>3
  <2> HIDE DEF c
  <2>3. c <= k /\ k <= c
    BY <1>2, <1>3, <2>2
  <2>4. c = k
    BY <2>1, <2>2, <2>3
  <2> QED BY <2>4 DEF c
<1>5. MetadataItem(t, q + 2)
        = IF q + 2 = 0 THEN Item("Version")
          ELSE IF q + 2 = 1 THEN Item("Serial")
          ELSE IF fits = {} THEN NoItem
          ELSE Item(Optional[CHOOSE c \in fits : \A j \in fits : c <= j])
  BY DEF MetadataItem, AbsentBefore
<1>6. q + 2 # 0 /\ q + 2 # 1
  BY <1>1
<1> HIDE DEF fits
<1> QED BY <1>2, <1>4, <1>5, <1>6

LEMMA LeastOfFive ==
  ASSUME NEW S \in SUBSET (1..5), S # {}
  PROVE  \E a \in S : \A j \in S : a <= j
<1>1. \A j \in S : j = 1 \/ j = 2 \/ j = 3 \/ j = 4 \/ j = 5
  OBVIOUS
<1>2. CASE 1 \in S
  BY <1>1, <1>2
<1>3. CASE 1 \notin S /\ 2 \in S
  BY <1>1, <1>3
<1>4. CASE 1 \notin S /\ 2 \notin S /\ 3 \in S
  BY <1>1, <1>4
<1>5. CASE 1 \notin S /\ 2 \notin S /\ 3 \notin S /\ 4 \in S
  BY <1>1, <1>5
<1>6. CASE 1 \notin S /\ 2 \notin S /\ 3 \notin S /\ 4 \notin S
  <2>1. PICK s \in S : TRUE
    OBVIOUS
  <2>2. \A j \in S : j = 5
    BY <1>1, <1>6
  <2>3. \A j \in S : s <= j
    BY <2>1, <2>2
  <2> QED BY <2>1, <2>3
<1> QED BY <1>2, <1>3, <1>4, <1>5, <1>6

MetadataKeys(o) == {"Sign", "Version", "Serial"} \cup o

LEMMA MetadataCount ==
  ASSUME NEW o \in SUBSET Range(Optional)
  PROVE  Cardinality(ItemsOf(MetadataKeys(o))) = 3 + Cardinality(o)
<1> DEFINE A == o \cup {"Version"}
           B == A \cup {"Serial"}
           K == B \cup {"Sign"}
           c == Cardinality(o)
<1>1. IsFiniteSet(o) /\ c \in Nat
  BY OptionalCount
<1>2. "Version" \notin o /\ "Serial" \notin A /\ "Sign" \notin B
  BY OptionalAt
<1> HIDE DEF c
<1>3. IsFiniteSet(A) /\ Cardinality(A) = c + 1
  BY <1>1, <1>2, FS_AddElement DEF c
<1> HIDE DEF A
<1>4. IsFiniteSet(B) /\ Cardinality(B) = c + 1 + 1
  BY <1>2, <1>3, FS_AddElement
<1> HIDE DEF B
<1>5. IsFiniteSet(K) /\ Cardinality(K) = c + 1 + 1 + 1
  BY <1>2, <1>4, FS_AddElement
<1>6. K = MetadataKeys(o)
  BY DEF MetadataKeys, A, B
<1> HIDE DEF K
<1> DEFINE f == [k \in K |-> Item(k)]
<1>7. f \in Bijection(K, ItemsOf(K))
  <2>1. f \in [K -> ItemsOf(K)]
    BY DEF ItemsOf
  <2>2. \A a, b \in K : f[a] = f[b] => a = b
    BY DEF Item
  <2>3. \A x \in ItemsOf(K) : \E a \in K : f[a] = x
    BY DEF ItemsOf
  <2> HIDE DEF f
  <2> QED BY <2>1, <2>2, <2>3, Fun_IsBij
<1> HIDE DEF f
<1>8. Cardinality(ItemsOf(K)) = Cardinality(K)
  BY <1>5, <1>7, FS_Bijection DEF ExistsBijection
<1>9. c + 1 + 1 + 1 = 3 + c
  BY <1>1
<1> QED BY <1>5, <1>6, <1>8, <1>9 DEF c

LEMMA MetadataContent ==
  ASSUME NEW t \in AnyTx, t.kind = "metadata", t.method = "none"
  PROVE  Content(t) = ItemsOf(MetadataKeys(t.optional))
<1>1. Title(t) = "Sign"
  BY DEF Title
<1>2. ElementItems(t) = {}
  BY DEF ElementItems, ContractMethods
<1>3. Content(t) = ItemsOf({"Sign"} \cup ({"Version", "Serial"} \cup t.optional) \cup {} \cup {})
                   \cup ElementItems(t)
  BY <1>1 DEF Content, ItemsOf
<1>4. {"Sign"} \cup ({"Version", "Serial"} \cup t.optional) \cup {} \cup {}
        = MetadataKeys(t.optional)
  BY DEF MetadataKeys
<1> QED BY <1>2, <1>3, <1>4

LEMMA MetadataItemIn ==
  ASSUME NEW t, NEW i \in Nat, MetadataItem(t, i) # NoItem
  PROVE  MetadataItem(t, i) \in ItemsOf(MetadataKeys(t.optional))
<1> DEFINE o == t.optional
           fits == {j \in 1..5 :
                      /\ Optional[j] \in o
                      /\ j = 5 \/ i + Cardinality(AbsentBefore(o, j)) < 2 + j}
           c == CHOOSE c \in fits : \A j \in fits : c <= j
<1>1. MetadataItem(t, i)
        = IF i = 0 THEN Item("Version")
          ELSE IF i = 1 THEN Item("Serial")
          ELSE IF fits = {} THEN NoItem
          ELSE Item(Optional[c])
  BY DEF MetadataItem, AbsentBefore
<1>2. CASE i = 0
  BY <1>1, <1>2 DEF ItemsOf, MetadataKeys
<1>3. CASE i = 1
  BY <1>1, <1>3 DEF ItemsOf, MetadataKeys
<1>4. CASE i # 0 /\ i # 1
  <2>1. fits \subseteq 1..5 /\ \A j \in fits : Optional[j] \in o
    OBVIOUS
  <2> HIDE DEF fits
  <2>2. fits # {} /\ MetadataItem(t, i) = Item(Optional[c])
    BY <1>1, <1>4
  <2>3. \E a \in fits : \A j \in fits : a <= j
    BY <2>1, <2>2, LeastOfFive
  <2>4. c \in fits
    BY <2>3
  <2> HIDE DEF c
  <2>5. Optional[c] \in MetadataKeys(o)
    BY <2>1, <2>4 DEF MetadataKeys
  <2> QED BY <2>2, <2>5 DEF ItemsOf
<1> QED BY <1>2, <1>3, <1>4

LEMMA MetadataReviewed ==
  ASSUME ReaderInv, status = "ok", tx.kind = "metadata"
  PROVE  Reviewed(Content(tx))
<1> DEFINE o == tx.optional
           C == ItemsOf(MetadataKeys(o))
           n == 3 + Cardinality(o)
<1>1. tx \in AnyTx /\ o \in SUBSET Range(Optional)
  BY ShownTo DEF AnyTx
<1>2. Content(tx) = C /\ Cardinality(C) = n
  BY <1>1, MethodOf, MetadataContent, MetadataCount
<1>3. Cardinality(o) \in 0..5 /\ n \in 3..8
  BY <1>1, OptionalCount
<1>4. numItems = n
  <2>1. ~HasSuffix(tx)
    BY DEF HasSuffix
  <2>2. _getNumItems(tx) = n
    BY DEF _getNumItems
  <2>3. n \in 0..255
    BY <1>3
  <2> HIDE DEF n
  <2> QED BY <2>1, <2>2, <2>3, ShownTo, CountIs
<1>5. /\ DOMAIN shown = 1..n /\ Len(shown) = n
      /\ \A i \in 1..n : shown[i] = parser_getItem(tx, i - 1, n)
  BY <1>4, ShownTo
<1>6. \A i \in 1..n : shown[i] # NoItem
  BY <1>5 DEF ReaderInv, ShownInOrder
<1> HIDE DEF n
<1>7. \A i \in 1..n : shown[i] = IF i = 1 THEN Item("Sign") ELSE MetadataItem(tx, i - 2)
  <2> SUFFICES ASSUME NEW i \in 1..n
               PROVE  shown[i] = IF i = 1 THEN Item("Sign") ELSE MetadataItem(tx, i - 2)
    OBVIOUS
  <2>1. ~(i - 1 >= n) /\ ~HasSuffix(tx) /\ (i - 1) - 1 = i - 2 /\ (i - 1 = 0 <=> i = 1)
    BY <1>3 DEF HasSuffix
  <2>2. parser_getItem(tx, i - 1, n)
          = IF i = 1 THEN Item("Sign") ELSE MetadataItem(tx, i - 2)
    BY <2>1 DEF parser_getItem
  <2> QED BY <1>5, <2>2
<1>8. Range(shown) \subseteq C
  <2> SUFFICES ASSUME NEW i \in 1..n PROVE shown[i] \in C
    BY <1>5 DEF Range
  <2>1. CASE i = 1
    BY <1>7, <2>1 DEF ItemsOf, MetadataKeys
  <2>2. CASE i # 1
    <3>1. i - 2 \in Nat
      BY <1>3, <2>2
    <3>2. shown[i] = MetadataItem(tx, i - 2) /\ shown[i] # NoItem
      BY <1>6, <1>7, <2>2
    <3> HIDE DEF C
    <3> QED BY <3>1, <3>2, MetadataItemIn DEF C
  <2> QED BY <2>1, <2>2
<1>9. \A x \in MetadataKeys(o) : \E i \in 1..n : shown[i] = Item(x)
  <2> SUFFICES ASSUME NEW x \in MetadataKeys(o)
               PROVE  \E i \in 1..n : shown[i] = Item(x)
    OBVIOUS
  <2>0. 1 \in 1..n /\ 2 \in 1..n /\ 3 \in 1..n /\ 2 - 2 = 0 /\ 3 - 2 = 1
    BY <1>3
  <2>1. CASE x = "Sign"
    BY <1>7, <2>0, <2>1
  <2>2. CASE x = "Version"
    <3>1. MetadataItem(tx, 0) = Item("Version")
      BY DEF MetadataItem
    <3> QED BY <1>7, <2>0, <2>2, <3>1
  <2>3. CASE x = "Serial"
    <3>1. MetadataItem(tx, 1) = Item("Serial")
      BY DEF MetadataItem
    <3> QED BY <1>7, <2>0, <2>3, <3>1
  <2>4. CASE x \in o
    <3>1. PICK k \in 1..5 : x = Optional[k]
      BY <1>1, <2>4, OptionalAt
    <3> DEFINE q == Cardinality(PresentBefore(o, k))
    <3>2. q \in Nat
      BY BeforeType
    <3>3. q + 1 <= Cardinality(o)
      BY <1>1, <2>4, <3>1, BeforeAll
    <3>4. MetadataItem(tx, q + 2) = Item(x)
      BY <1>1, <2>4, <3>1, MetadataItemIs
    <3> HIDE DEF q
    <3>5. q + 4 \in 1..n /\ (q + 4) - 2 = q + 2 /\ q + 4 # 1
      BY <1>3, <3>2, <3>3 DEF n
    <3>6. shown[q + 4] = Item(x)
      BY <1>7, <3>4, <3>5
    <3> QED BY <3>5, <3>6
  <2> QED BY <2>1, <2>2, <2>3, <2>4 DEF MetadataKeys
<1>10. C \subseteq Range(shown)
  BY <1>5, <1>9 DEF ItemsOf, Range
<1> HIDE DEF C
<1>11. Range(shown) = C
  BY <1>8, <1>10
<1> QED BY <1>2, <1>5, <1>11 DEF Reviewed

-----------------------------------------------------------------------------
(* Whatever was read. *)

\* A review that begins shows every field of the transaction exactly once, and
\* nothing else, whatever the transaction is and whatever was read before.  Two
\* cases are left out, and both are false: an unfreeze without a fee, whose node is
\* not shown (the run `items_unfreeze`), and a count that does not fit its byte, to which
\* the lists of an earlier transaction add when a ParaTime transaction comes without
\* metadata (ItemsFit, in AllShown).  As long as that count fits, such a transaction
\* is refused.
THEOREM ReviewIsComplete == Spec => [](FeeThere => AllShown)
<1>1. ReaderInv => (FeeThere => AllShown)
  <2> SUFFICES ASSUME ReaderInv, FeeThere, ItemsFit(tx), status = "ok"
               PROVE  Reviewed(Content(tx))
    BY DEF AllShown, Reviewed
  <2>1. CASE tx.kind = "tx"
    BY <2>1, StakingReviewed DEF ItemsFit
  <2>2. CASE tx.kind = "entity"
    BY <2>2, EntityReviewed
  <2>3. CASE tx.kind = "metadata"
    BY <2>3, MetadataReviewed
  <2>4. CASE tx.kind = "runtime"
    BY <2>4, RuntimeReviewed DEF ItemsFit, Counted
  <2>5. tx.kind \in {"tx", "entity", "metadata", "runtime"}
    BY ShownTo DEF AnyTx
  <2> QED BY <2>1, <2>2, <2>3, <2>4, <2>5
<1> QED BY <1>1, InvHolds, PTL

-----------------------------------------------------------------------------
(* What a consensus transaction's items are made of. *)

LEMMA BodyOf ==
  ASSUME ReaderInv, status = "ok", tx.kind = "tx", tx.method # "Deregister"
  PROVE  \/ message.body = KeysOf(Layout[tx.method])
         \/ /\ tx.method = "Allow"
            /\ message.body = <<"negative">> \o KeysOf(Layout[tx.method])
<1>1. PICK old \in AnyMeta, before \in AnyLeft : tx = Parsed(message, old, before)
  BY DEF ReaderInv, ReadFromMessage
<1>2. parser_parse(message) /\ message \in AnyMessage
  BY DEF ReaderInv, ReadFromMessage, ReaderTypeOK
<1>3. BlobType(message) = "tx"
  BY <1>1 DEF Parsed
<1>4. tx.method = Method(message) /\ _readTx(message)
  BY <1>1, <1>2, <1>3, MethodRead, KindOfMessage
<1>5. message.method # "Deregister" /\ (message.method = "Allow" => tx.method = "Allow")
  BY <1>4 DEF Method
<1>6. BodyMatches(message)
  BY <1>4, <1>5 DEF _readTx, _readBody
<1> QED BY <1>4, <1>5, <1>6 DEF BodyMatches

\* The entries of a body by the item they are for.
EntriesOf(name, signed) ==
  {message.body[i + signed] : i \in {j \in DOMAIN Layout[tx.method] :
                                       Layout[tx.method][j][2] = name}}

SignOf(name, signed) ==
  IF signed = 1 /\ name = "Amount change" THEN {"negative"} ELSE {}

LEMMA NoSign ==
  ASSUME NEW name
  PROVE  SignOf(name, 0) = {}
<1>1. 0 # 1
  OBVIOUS
<1> QED BY <1>1, Zenon DEF SignOf

LEMMA SourceIs ==
  ASSUME NEW name, tx.kind = "tx", name \notin Versions,
         NEW signed, signed = One(message.body[1] = "negative")
  PROVE  Source(name) = EntriesOf(name, signed) \cup SignOf(name, signed)
<1>1. Source(name) = StakingSource(name)
  BY Zenon DEF Source
<1>2. StakingSource(name) = EntriesOf(name, signed) \cup SignOf(name, signed)
  BY Zenon DEF StakingSource, EntriesOf, SignOf
<1> QED BY <1>1, <1>2

LEMMA SourceOne ==
  ASSUME NEW k, NEW n, tx.kind = "tx", Layout[tx.method] = <<<<k, n>>>>,
         message.body = <<k>>, k # "negative", n \notin Versions
  PROVE  Source(n) = {k} /\ Range(message.body) = {k}
<1>1. One(message.body[1] = "negative") = 0
  BY DEF One
<1>2. SignOf(n, 0) = {}
  BY NoSign
<1>3. EntriesOf(n, 0) = {k}
  BY DEF EntriesOf
<1>4. Source(n) = EntriesOf(n, 0) \cup SignOf(n, 0)
  BY <1>1, SourceIs
<1>5. Range(message.body) = {k}
  BY DEF Range
<1> QED BY <1>2, <1>3, <1>4, <1>5

LEMMA SourceTwo ==
  ASSUME NEW k, NEW n, NEW l, NEW p, tx.kind = "tx",
         Layout[tx.method] = <<<<k, n>>, <<l, p>>>>, n # p,
         message.body = <<k, l>>, k # "negative", n \notin Versions, p \notin Versions
  PROVE  Source(n) = {k} /\ Source(p) = {l} /\ Range(message.body) = {k, l}
<1>1. One(message.body[1] = "negative") = 0
  BY DEF One
<1>2. SignOf(n, 0) = {} /\ SignOf(p, 0) = {}
  BY NoSign
<1>3. EntriesOf(n, 0) = {k} /\ EntriesOf(p, 0) = {l}
  BY DEF EntriesOf
<1>4. /\ Source(n) = EntriesOf(n, 0) \cup SignOf(n, 0)
      /\ Source(p) = EntriesOf(p, 0) \cup SignOf(p, 0)
  BY <1>1, SourceIs
<1>5. Range(message.body) = {k, l}
  BY DEF Range
<1> QED BY <1>2, <1>3, <1>4, <1>5

\* A negative allowance.
LEMMA SourceNegative ==
  ASSUME NEW k, NEW n, NEW l, NEW p, tx.kind = "tx",
         Layout[tx.method] = <<<<k, n>>, <<l, p>>>>, n # p,
         message.body = <<"negative", k, l>>, n \notin Versions, p \notin Versions,
         SignOf(n, 1) = {}, SignOf(p, 1) = {"negative"}
  PROVE  /\ Source(n) = {k} /\ Source(p) = {"negative", l}
         /\ Range(message.body) = {"negative", k, l}
<1>1. One(message.body[1] = "negative") = 1
  BY DEF One
<1>3. EntriesOf(n, 1) = {k} /\ EntriesOf(p, 1) = {l}
  BY DEF EntriesOf
<1>4. /\ Source(n) = EntriesOf(n, 1) \cup SignOf(n, 1)
      /\ Source(p) = EntriesOf(p, 1) \cup SignOf(p, 1)
  BY <1>1, SourceIs
<1>5. Range(message.body) = {"negative", k, l}
  BY DEF Range
<1> QED BY <1>3, <1>4, <1>5

\* The layouts, one by one.
LEMMA LayoutOne ==
  /\ Layout["Burn"] = <<<<"amount", "Amount">>>>
  /\ Layout["Amend"] = <<<<"amendment", "none">>>>
  /\ Layout["Unfreeze"] = <<<<"node_id", "Node ID">>>>
  /\ Layout["Upgrade"] = <<<<"upgrade", "Handler">>>>
  /\ Layout["CancelUpgrade"] = <<<<"cancel_upgrade", "Proposal ID">>>>
  BY Zenon DEF Layout

LEMMA LayoutTwo ==
  /\ Layout["Transfer"] = <<<<"to", "To">>, <<"amount", "Amount">>>>
  /\ Layout["Withdraw"] = <<<<"from", "From">>, <<"amount", "Amount">>>>
  /\ Layout["Allow"] = <<<<"beneficiary", "Beneficiary">>,
                         <<"amount_change", "Amount change">>>>
  /\ Layout["Escrow"] = <<<<"amount", "Amount">>, <<"account", "To">>>>
  /\ Layout["ReclaimEscrow"] = <<<<"shares", "Shares">>, <<"account", "From">>>>
  /\ Layout["RegisterEntity"] = <<<<"signature", "none">>,
                                  <<"untrusted_raw_value", "none">>>>
  /\ Layout["CastVote"] = <<<<"id", "Proposal ID">>, <<"vote", "Vote">>>>
  BY Zenon DEF Layout

LEMMA FieldsOne ==
  /\ MethodFields["Burn"] = {"Amount"}
  /\ MethodFields["Unfreeze"] = {"Node ID"}
  /\ MethodFields["Upgrade"] = {"Kind", "Handler", "Consensus", "Runtime Host",
                                "Runtime Committee", "Epoch"}
  /\ MethodFields["CancelUpgrade"] = {"Kind", "Proposal ID"}
  /\ MethodFields["Amend"] = {} /\ MethodFields["Deregister"] = {}
  /\ MethodFields["RegisterEntity"] = {"ID"}
  BY Zenon DEF MethodFields

LEMMA FieldsTwo ==
  /\ MethodFields["Transfer"] = {"To", "Amount"}
  /\ MethodFields["Withdraw"] = {"From", "Amount"}
  /\ MethodFields["Allow"] = {"Beneficiary", "Amount change"}
  /\ MethodFields["Escrow"] = {"To", "Amount"}
  /\ MethodFields["ReclaimEscrow"] = {"From", "Shares"}
  /\ MethodFields["CastVote"] = {"Proposal ID", "Vote"}
  BY Zenon DEF MethodFields

LEMMA KeysOfOne ==
  ASSUME NEW k, NEW n
  PROVE  KeysOf(<<<<k, n>>>>) = <<k>>
  BY DEF KeysOf

LEMMA KeysOfTwo ==
  ASSUME NEW k, NEW n, NEW l, NEW p
  PROVE  KeysOf(<<<<k, n>>, <<l, p>>>>) = <<k, l>>
  BY DEF KeysOf

LEMMA FieldShown ==
  ASSUME ReaderInv, status = "ok", tx.kind = "tx", FeeThere, TxCount(tx) <= 251,
         NEW n \in MethodFields[tx.method]
  PROVE  n \in Shown
<1> DEFINE F == MethodFields[tx.method]
<1>1. Range(shown) = Content(tx)
  BY StakingReviewed DEF Reviewed
<1>2. Item(n) \in ItemsOf({"Type"} \cup F)
  BY DEF ItemsOf
<1>3. tx \in AnyTx /\ tx.method \in TxMethods
  BY ShownTo, MethodOf
<1> HIDE DEF F
<1>4. Content(tx) = ((ItemsOf({"Type"} \cup F) \cup ElementItems(tx))
                        \cup (IF tx.has_fee THEN FeeSet ELSE {})) \cup {NetworkItem}
  BY <1>3, TxContent DEF F
<1>5. Item(n) \in Range(shown)
  BY <1>1, <1>2, <1>4
<1>6. Item(n)[1] = n
  BY DEF Item
<1> QED BY <1>5, <1>6 DEF Shown

\* A body of one entry, which goes to one item.
LEMMA OneEntry ==
  ASSUME ReaderInv, status = "ok", tx.kind = "tx", NEW k, NEW n,
         Layout[tx.method] = <<<<k, n>>>>, k # "negative", n \notin Versions,
         tx.method # "Deregister", tx.method # "Allow"
  PROVE  Source(n) = {k} /\ Range(message.body) = {k}
<1>1. message.body = <<k>>
  BY BodyOf, KeysOfOne
<1> QED BY <1>1, SourceOne

\* Of two entries, each of which goes to one.
LEMMA TwoEntries ==
  ASSUME ReaderInv, status = "ok", tx.kind = "tx", NEW k, NEW n, NEW l, NEW p,
         Layout[tx.method] = <<<<k, n>>, <<l, p>>>>, k # "negative", n # p,
         n \notin Versions, p \notin Versions,
         tx.method # "Deregister", tx.method # "Allow"
  PROVE  Source(n) = {k} /\ Source(p) = {l} /\ Range(message.body) = {k, l}
<1>1. message.body = <<k, l>>
  BY BodyOf, KeysOfTwo
<1> QED BY <1>1, SourceTwo

AmountChange == "Amount change"

LEMMA BehindOne ==
  ASSUME NEW a, NEW b, NEW c
  PROVE  <<a>> \o <<b, c>> = <<a, b, c>>
<1> DEFINE S == {a, b, c}
           s == <<a>>
           t == <<b, c>>
           u == <<a, b, c>>
<1>1. s \in Seq(S) /\ t \in Seq(S) /\ u \in Seq(S)
  OBVIOUS
<1>2. /\ Len(s) = 1 /\ Len(t) = 2 /\ Len(u) = 3
      /\ s[1] = a /\ t[1] = b /\ t[2] = c /\ u[1] = a /\ u[2] = b /\ u[3] = c
  OBVIOUS
<1> HIDE DEF s, t, u, S
<1>3. /\ s \o t \in Seq(S) /\ Len(s \o t) = 3
      /\ \A i \in 1..3 : (s \o t)[i] = IF i <= 1 THEN s[i] ELSE t[i - 1]
  <2>1. /\ s \o t \in Seq(S) /\ Len(s \o t) = Len(s) + Len(t)
        /\ \A i \in 1..(Len(s) + Len(t)) :
             (s \o t)[i] = IF i <= Len(s) THEN s[i] ELSE t[i - Len(s)]
    BY <1>1, ConcatProperties
  <2> QED BY <1>2, <2>1
<1>4. (s \o t)[1] = a /\ (s \o t)[2] = b /\ (s \o t)[3] = c
  BY <1>2, <1>3
<1>5. \A i \in 1..3 : (s \o t)[i] = u[i]
  <2> TAKE i \in 1..3
  <2>1. i = 1 \/ i = 2 \/ i = 3
    OBVIOUS
  <2> QED BY <1>2, <1>4, <2>1
<1>6. s \o t = u
  BY <1>1, <1>2, <1>3, <1>5, SeqEqual
<1> QED BY <1>6 DEF s, t, u

\* And of an allowance, with its sign or without.
LEMMA AllowanceEntries ==
  ASSUME ReaderInv, status = "ok", tx.kind = "tx", tx.method = "Allow"
  PROVE  \E sign \in SUBSET {"negative"} :
           /\ Source("Beneficiary") = {"beneficiary"}
           /\ Source(AmountChange) = {"amount_change"} \cup sign
           /\ Range(message.body) = {"beneficiary", "amount_change"} \cup sign
<1> DEFINE n == "Beneficiary"
           p == AmountChange
<1>1. Layout[tx.method] = <<<<"beneficiary", n>>, <<"amount_change", p>>>>
  BY LayoutTwo, Zenon DEF AmountChange
<1>2. n # p /\ n \notin Versions /\ p \notin Versions
  BY Zenon DEF AmountChange, Versions
<1>3. KeysOf(Layout[tx.method]) = <<"beneficiary", "amount_change">>
  BY <1>1, KeysOfTwo
<1>4. SignOf(n, 1) = {} /\ SignOf(p, 1) = {"negative"}
  BY <1>2, Zenon DEF SignOf, AmountChange
<1>5. CASE message.body = <<"beneficiary", "amount_change">>
  <2>1. /\ Source(n) = {"beneficiary"} /\ Source(p) = {"amount_change"}
        /\ Range(message.body) = {"beneficiary", "amount_change"}
    BY <1>1, <1>2, <1>5, SourceTwo
  <2>2. {} \in SUBSET {"negative"} /\ \A S : S \cup {} = S
    OBVIOUS
  <2> HIDE DEF n, p
  <2>3. /\ Source(n) = {"beneficiary"} /\ Source(p) = {"amount_change"} \cup {}
        /\ Range(message.body) = {"beneficiary", "amount_change"} \cup {}
    BY <2>1, <2>2
  <2> QED BY <2>2, <2>3, Zenon DEF n, p
<1>6. CASE message.body = <<"negative", "beneficiary", "amount_change">>
  <2>1. /\ Source(n) = {"beneficiary"} /\ Source(p) = {"negative", "amount_change"}
        /\ Range(message.body) = {"negative", "beneficiary", "amount_change"}
    BY <1>1, <1>2, <1>4, <1>6, SourceNegative
  <2>2. {"negative"} \in SUBSET {"negative"}
    OBVIOUS
  <2> QED BY <2>1, <2>2
<1>7. <<"negative">> \o <<"beneficiary", "amount_change">>
        = <<"negative", "beneficiary", "amount_change">>
  BY BehindOne
<1> QED BY <1>3, <1>5, <1>6, <1>7, BodyOf

\* What BodyShown asks, apart from what is not asked.
BodyInShown == \A key \in Range(message.body) : \E name \in Shown : key \in Source(name)

\* Every field whose entries are read from the body is in the review.
LEMMA BodiesOfOne ==
  ASSUME ReaderInv, status = "ok", tx.kind = "tx", FeeThere,
         tx.method \in {"Burn", "Unfreeze", "Upgrade", "CancelUpgrade"}
  PROVE  BodyInShown
<1>1. TxCount(tx) <= 251
  BY DEF TxCount
<1>2. ASSUME NEW k, NEW n, Layout[tx.method] = <<<<k, n>>>>, k # "negative",
             n \notin Versions, n \in MethodFields[tx.method]
      PROVE  BodyInShown
  <2>1. Source(n) = {k} /\ Range(message.body) = {k}
    BY <1>2, OneEntry
  <2>2. n \in Shown
    BY <1>1, <1>2, FieldShown
  <2> QED BY <2>1, <2>2 DEF BodyInShown
<1>3. CASE tx.method = "Burn"
  <2>1. "Amount" \notin Versions /\ "amount" # "negative"
    BY Zenon DEF Versions
  <2>2. "Amount" \in MethodFields[tx.method]
    BY <1>3, FieldsOne, Zenon
  <2>3. Layout[tx.method] = <<<<"amount", "Amount">>>>
    BY <1>3, LayoutOne, Zenon
  <2> QED BY <1>2, <2>1, <2>2, <2>3
<1>4. CASE tx.method = "Unfreeze"
  <2>1. "Node ID" \notin Versions /\ "node_id" # "negative"
    BY Zenon DEF Versions
  <2>2. "Node ID" \in MethodFields[tx.method]
    BY <1>4, FieldsOne, Zenon
  <2>3. Layout[tx.method] = <<<<"node_id", "Node ID">>>>
    BY <1>4, LayoutOne, Zenon
  <2> QED BY <1>2, <2>1, <2>2, <2>3, Zenon
<1>5. CASE tx.method = "Upgrade"
  <2>1. "Handler" \notin Versions /\ "upgrade" # "negative"
    BY Zenon DEF Versions
  <2>2. "Handler" \in MethodFields[tx.method]
    BY <1>5, FieldsOne, Zenon
  <2>3. Layout[tx.method] = <<<<"upgrade", "Handler">>>>
    BY <1>5, LayoutOne, Zenon
  <2> QED BY <1>2, <2>1, <2>2, <2>3
<1>6. CASE tx.method = "CancelUpgrade"
  <2>1. "Proposal ID" \notin Versions /\ "cancel_upgrade" # "negative"
    BY Zenon DEF Versions
  <2>2. "Proposal ID" \in MethodFields[tx.method]
    BY <1>6, FieldsOne, Zenon
  <2>3. Layout[tx.method] = <<<<"cancel_upgrade", "Proposal ID">>>>
    BY <1>6, LayoutOne, Zenon
  <2> QED BY <1>2, <2>1, <2>2, <2>3, Zenon
<1> QED BY <1>3, <1>4, <1>5, <1>6

LEMMA BodiesOfTwo ==
  ASSUME ReaderInv, status = "ok", tx.kind = "tx", FeeThere,
         tx.method \in {"Transfer", "Withdraw", "Escrow", "ReclaimEscrow", "CastVote"}
  PROVE  BodyInShown
<1>1. TxCount(tx) <= 251
  BY DEF TxCount
<1>2. ASSUME NEW k, NEW n, NEW l, NEW p, Layout[tx.method] = <<<<k, n>>, <<l, p>>>>,
             k # "negative", n # p, n \notin Versions, p \notin Versions,
             n \in MethodFields[tx.method], p \in MethodFields[tx.method]
      PROVE  BodyInShown
  <2>1. tx.method # "Deregister" /\ tx.method # "Allow"
    OBVIOUS
  <2>2. Source(n) = {k} /\ Source(p) = {l} /\ Range(message.body) = {k, l}
    BY <1>2, <2>1, TwoEntries
  <2>3. n \in Shown /\ p \in Shown
    BY <1>1, <1>2, FieldShown
  <2> QED BY <2>2, <2>3 DEF BodyInShown
<1>3. CASE tx.method = "Transfer"
  <2>1. /\ "To" \notin Versions /\ "Amount" \notin Versions
        /\ "to" # "negative" /\ "To" # "Amount"
    BY Zenon DEF Versions
  <2>2. "To" \in MethodFields[tx.method] /\ "Amount" \in MethodFields[tx.method]
    BY <1>3, FieldsTwo, Zenon
  <2>3. Layout[tx.method] = <<<<"to", "To">>, <<"amount", "Amount">>>>
    BY <1>3, LayoutTwo, Zenon
  <2> QED BY <1>2, <2>1, <2>2, <2>3
<1>4. CASE tx.method = "Withdraw"
  <2>1. /\ "From" \notin Versions /\ "Amount" \notin Versions
        /\ "from" # "negative" /\ "From" # "Amount"
    BY Zenon DEF Versions
  <2>2. "From" \in MethodFields[tx.method] /\ "Amount" \in MethodFields[tx.method]
    BY <1>4, FieldsTwo, Zenon
  <2>3. Layout[tx.method] = <<<<"from", "From">>, <<"amount", "Amount">>>>
    BY <1>4, LayoutTwo, Zenon
  <2> QED BY <1>2, <2>1, <2>2, <2>3
<1>5. CASE tx.method = "Escrow"
  <2>1. /\ "Amount" \notin Versions /\ "To" \notin Versions
        /\ "amount" # "negative" /\ "Amount" # "To"
    BY Zenon DEF Versions
  <2>2. "Amount" \in MethodFields[tx.method] /\ "To" \in MethodFields[tx.method]
    BY <1>5, FieldsTwo, Zenon
  <2>3. Layout[tx.method] = <<<<"amount", "Amount">>, <<"account", "To">>>>
    BY <1>5, LayoutTwo, Zenon
  <2> QED BY <1>2, <2>1, <2>2, <2>3
<1>6. CASE tx.method = "ReclaimEscrow"
  <2>1. /\ "Shares" \notin Versions /\ "From" \notin Versions
        /\ "shares" # "negative" /\ "Shares" # "From"
    BY Zenon DEF Versions
  <2>2. "Shares" \in MethodFields[tx.method] /\ "From" \in MethodFields[tx.method]
    BY <1>6, FieldsTwo, Zenon
  <2>3. Layout[tx.method] = <<<<"shares", "Shares">>, <<"account", "From">>>>
    BY <1>6, LayoutTwo, Zenon
  <2> QED BY <1>2, <2>1, <2>2, <2>3
<1>7. CASE tx.method = "CastVote"
  <2>1. /\ "Proposal ID" \notin Versions /\ "Vote" \notin Versions
        /\ "id" # "negative" /\ "Proposal ID" # "Vote"
    BY Zenon DEF Versions
  <2>2. "Proposal ID" \in MethodFields[tx.method] /\ "Vote" \in MethodFields[tx.method]
    BY <1>7, FieldsTwo, Zenon
  <2>3. Layout[tx.method] = <<<<"id", "Proposal ID">>, <<"vote", "Vote">>>>
    BY <1>7, LayoutTwo, Zenon
  <2> QED BY <1>2, <2>1, <2>2, <2>3, Zenon
<1> QED BY <1>3, <1>4, <1>5, <1>6, <1>7

LEMMA AllowanceShown ==
  ASSUME ReaderInv, status = "ok", tx.kind = "tx", FeeThere, tx.method = "Allow"
  PROVE  BodyInShown
<1>1. TxCount(tx) <= 251
  BY DEF TxCount
<1>2. "Beneficiary" \in MethodFields[tx.method] /\ AmountChange \in MethodFields[tx.method]
  BY FieldsTwo, Zenon DEF AmountChange
<1>3. "Beneficiary" \in Shown /\ AmountChange \in Shown
  BY <1>1, <1>2, FieldShown
<1>4. PICK sign \in SUBSET {"negative"} :
           /\ Source("Beneficiary") = {"beneficiary"}
           /\ Source(AmountChange) = {"amount_change"} \cup sign
           /\ Range(message.body) = {"beneficiary", "amount_change"} \cup sign
  BY AllowanceEntries
<1> QED BY <1>3, <1>4 DEF BodyInShown

\* Nothing of the body of an accepted consensus transaction is signed without
\* having been shown: CHECK_CBOR_MAP_LEN leaves no entry that no item is made of.
\* The node of an unfreezing without a fee is the known exception (the run
\* `unfreeze`).
THEOREM BodyIsShown == Spec => [](FeeThere => BodyShown)
<1>1. ReaderInv => (FeeThere => BodyShown)
  <2> SUFFICES ASSUME ReaderInv, FeeThere, status = "ok", tx.kind = "tx",
                      tx.method # "Deregister",
                      NEW key \in Range(message.body)
                                    \ {"amendment", "signature", "untrusted_raw_value"}
               PROVE  \E name \in Shown : key \in Source(name)
    BY DEF BodyShown
  <2>1. tx.method \in TxMethods
    BY MethodOf
  <2>2. CASE BodyInShown
    BY <2>2 DEF BodyInShown
  <2>3. CASE tx.method = "Amend"
    <3>1. Layout[tx.method] = <<<<"amendment", "none">>>>
      BY <2>3, LayoutOne, Zenon
    <3>2. message.body = <<"amendment">>
      BY <2>3, <3>1, BodyOf, KeysOfOne
    <3>3. Range(message.body) = {"amendment"}
      BY <3>2 DEF Range
    <3> QED BY <3>3
  <2>4. CASE tx.method = "RegisterEntity"
    <3>1. Layout[tx.method] = <<<<"signature", "none">>, <<"untrusted_raw_value", "none">>>>
      BY <2>4, LayoutTwo, Zenon
    <3>2. message.body = <<"signature", "untrusted_raw_value">>
      BY <2>4, <3>1, BodyOf, KeysOfTwo
    <3>3. Range(message.body) = {"signature", "untrusted_raw_value"}
      BY <3>2 DEF Range
    <3> QED BY <3>3
  <2>5. CASE tx.method \in {"Burn", "Unfreeze", "Upgrade", "CancelUpgrade"}
    BY <2>2, <2>5, BodiesOfOne
  <2>6. CASE tx.method \in {"Transfer", "Withdraw", "Escrow", "ReclaimEscrow", "CastVote"}
    BY <2>2, <2>6, BodiesOfTwo
  <2>7. CASE tx.method = "Allow"
    BY <2>2, <2>7, AllowanceShown
  <2> QED BY <2>1, <2>3, <2>4, <2>5, <2>6, <2>7 DEF TxMethods
<1> QED BY <1>1, InvHolds, PTL

-----------------------------------------------------------------------------
(* The names that are shown.  This needs neither the fee nor short lists.  *)

Unsourced ==
  {"none", "Type", "Sign", "ID", "Node", "Token", "Network", "Fee", "Gas limit", "Data",
   "Version", "Serial", "Review Contract", "Review Encrypted", "Code ID", "Instance ID",
   "New Code ID", "Rates: start", "Rates: rate", "Bounds: start", "Bounds: min",
   "Bounds: max", "Kind", "Handler", "Epoch", "Name", "URL", "Email", "Keybase", "Twitter"}

LEMMA UnsourcedNames == \A k \in Unsourced : k \notin ItemNames
  BY Zenon DEF Unsourced, ItemNames, Versions

LEMMA AtIn ==
  ASSUME NEW S, NEW s \in Seq(S), NEW i
  PROVE  At(s, i) = NoItem \/ At(s, i) \in S
<1>1. CASE i + 1 \in DOMAIN s
  <2>1. At(s, i) = s[i + 1]
    BY <1>1 DEF At
  <2>2. s \in [1..Len(s) -> S] /\ DOMAIN s = 1..Len(s)
    BY LenProperties
  <2> HIDE DEF At
  <2> QED BY <1>1, <2>1, <2>2
<1>2. CASE i + 1 \notin DOMAIN s
  BY <1>2 DEF At
<1> QED BY <1>1, <1>2

LEMMA NamedIn ==
  ASSUME NEW K, NEW keys \in Seq(K)
  PROVE  Named(keys) \in Seq(K \X Nat)
<1>1. Len(keys) \in Nat /\ DOMAIN keys = 1..Len(keys) /\ keys \in [1..Len(keys) -> K]
  BY LenProperties
<1>2. Named(keys) = [i \in 1..Len(keys) |-> Item(keys[i])]
  BY <1>1 DEF Named
<1>3. Named(keys) \in [1..Len(keys) -> K \X Nat]
  BY <1>1, <1>2 DEF Item
<1> QED BY <1>1, <1>3, SeqDef

LEMMA ConcatIn ==
  ASSUME NEW S, NEW s \in Seq(S), NEW t \in Seq(S)
  PROVE  s \o t \in Seq(S)
  BY ConcatProperties

\* Items of lists, and of the fee.
LEMMA ListIn ==
  ASSUME NEW s, NEW C, NEW n, ListsN(s, C, n), NEW S, C \subseteq S
  PROVE  s \in Seq(S)
  BY SeqMonotonic DEF ListsN, Lists

LEMMA ProductIn ==
  ASSUME NEW K, NEW L, K \subseteq L, NEW n \in Nat
  PROVE  K \X (1..n) \subseteq L \X Nat
  OBVIOUS

AmendNames ==
  {"Type", "Rates: start", "Rates: rate", "Bounds: start", "Bounds: min",
   "Bounds: max", "Fee", "Gas limit"}

LEMMA AmendIn ==
  ASSUME NEW t, t.n \in Nat, t.m \in Nat
  PROVE  AmendItems(t) \in Seq(AmendNames \X Nat)
<1> DEFINE S == AmendNames \X Nat
           type == Named(<<"Type">>)
           rates == Elements(<<"Rates: start", "Rates: rate">>, t.n)
           R == {"Rates: start", "Rates: rate"} \X (1..t.n)
           bounds == Elements(<<"Bounds: start", "Bounds: min", "Bounds: max">>, t.m)
           B == {"Bounds: start", "Bounds: min", "Bounds: max"} \X (1..t.m)
<1>1. type \in Seq(S) /\ FeeItems \in Seq(S)
  <2>1. <<"Type">> \in Seq(AmendNames) /\ <<"Fee", "Gas limit">> \in Seq(AmendNames)
    BY DEF AmendNames
  <2> QED BY <2>1, NamedIn DEF FeeItems
<1>2. rates \in Seq(S)
  <2>1. ListsN(rates, R, t.n * 2)
    BY ElementsTwo, "Rates: start" # "Rates: rate"
  <2>2. R \subseteq S
    <3>1. {"Rates: start", "Rates: rate"} \subseteq AmendNames
      BY Zenon DEF AmendNames
    <3> QED BY <3>1, ProductIn
  <2> HIDE DEF rates, R, S
  <2> QED BY <2>1, <2>2, ListIn
<1>3. bounds \in Seq(S)
  <2>1. /\ "Bounds: start" # "Bounds: min" /\ "Bounds: start" # "Bounds: max"
        /\ "Bounds: min" # "Bounds: max"
    OBVIOUS
  <2>2. ListsN(bounds, B, t.m * 3)
    BY <2>1, ElementsThree
  <2>3. B \subseteq S
    <3>1. {"Bounds: start", "Bounds: min", "Bounds: max"} \subseteq AmendNames
      BY Zenon DEF AmendNames
    <3> QED BY <3>1, ProductIn
  <2> HIDE DEF bounds, B, S
  <2> QED BY <2>2, <2>3, ListIn
<1>4. AmendItems(t) = ((type \o rates) \o bounds) \o FeeItems
  BY DEF AmendItems
<1> HIDE DEF type, rates, bounds, S
<1>5. ((type \o rates) \o bounds) \o FeeItems \in Seq(S)
  BY <1>1, <1>2, <1>3, ConcatIn
<1> QED BY <1>4, <1>5 DEF S

UnfreezeNames == {"Type", "Fee", "Gas limit", "Node ID"}

LEMMA UnfreezeIn ==
  ASSUME NEW t, t.method = "Unfreeze"
  PROVE  RegistryItems(t) \in Seq(UnfreezeNames \X Nat)
<1> DEFINE S == UnfreezeNames \X Nat
           type == Named(<<"Type">>)
           node == Named(<<"Node ID">>)
<1>1. type \in Seq(S) /\ FeeItems \in Seq(S) /\ node \in Seq(S)
  <2>1. /\ <<"Type">> \in Seq(UnfreezeNames) /\ <<"Fee", "Gas limit">> \in Seq(UnfreezeNames)
        /\ <<"Node ID">> \in Seq(UnfreezeNames)
    BY DEF UnfreezeNames
  <2> QED BY <2>1, NamedIn DEF FeeItems
<1>2. RegistryItems(t) = (type \o FeeItems) \o node
  BY DEF RegistryItems
<1> HIDE DEF type, node, S
<1>3. (type \o FeeItems) \o node \in Seq(S)
  BY <1>1, ConcatIn
<1> QED BY <1>2, <1>3 DEF S

LEMMA ElementNames ==
  ASSUME NEW t, NEW x \in ElementItems(t)
  PROVE  x[1] \in Unsourced
<1> DEFINE R == {"Rates: start", "Rates: rate"}
           B == {"Bounds: start", "Bounds: min", "Bounds: max"}
<1>1. R \subseteq Unsourced /\ B \subseteq Unsourced
      /\ {"Node"} \subseteq Unsourced /\ {"Token"} \subseteq Unsourced
  BY Zenon DEF Unsourced
<1>2. \/ x \in R \X (1..t.n) \/ x \in B \X (1..t.m)
      \/ x \in {"Node"} \X (1..t.n) \/ x \in {"Token"} \X (1..t.n)
  BY Zenon DEF ElementItems
<1> HIDE DEF R, B
<1>3. \A K, M : x \in K \X M => x[1] \in K
  OBVIOUS
<1> QED BY <1>1, <1>2, <1>3

\* The items of an amendment and of an unfreezing, whose fee or count may not do.
LEMMA ListedName ==
  ASSUME ReaderInv, status = "ok", tx.kind = "tx", NEW K,
         TxItems(tx) \in Seq(K \X Nat), NEW x \in Range(shown), x[1] \in ItemNames
  PROVE  x[1] \in K
<1>1. PICK i \in 1..numItems : x = parser_getItem(tx, i - 1, numItems)
  BY ShownTo DEF Range
<1>2. x # NoItem /\ x # Item("Network")
  <2>1. NoItem[1] = "none" /\ Item("Network")[1] = "Network"
    BY DEF NoItem, Item
  <2>2. "none" \notin ItemNames /\ "Network" \notin ItemNames
    BY UnsourcedNames, Zenon DEF Unsourced
  <2> QED BY <2>1, <2>2
<1>3. \E j : x = At(TxItems(tx), j)
  BY <1>1, <1>2 DEF parser_getItem
<1>4. x \in K \X Nat
  BY <1>2, <1>3, AtIn
<1> QED BY <1>4

\* An item that a value of the message is shown under belongs to the method.
LEMMA TxNames ==
  ASSUME ReaderInv, status = "ok", tx.kind = "tx", NEW x \in Range(shown),
         x[1] \in ItemNames
  PROVE  x[1] \in MethodFields[tx.method]
<1>0. tx \in AnyTx /\ tx.n \in Nat /\ tx.m \in Nat /\ tx.method \in TxMethods
  BY ShownTo, MethodOf DEF AnyTx
<1>1. CASE tx.method = "Amend"
  <2>1. TxItems(tx) = AmendItems(tx)
    BY <1>0, <1>1, TxItemsAre
  <2>2. x[1] \in AmendNames
    BY <1>0, <2>1, AmendIn, ListedName
  <2>3. AmendNames \subseteq Unsourced
    BY Zenon DEF AmendNames, Unsourced
  <2> QED BY <2>2, <2>3, UnsourcedNames
<1>2. CASE tx.method = "Unfreeze"
  <2>1. TxItems(tx) = RegistryItems(tx)
    BY <1>0, <1>2, TxItemsAre
  <2>2. x[1] \in UnfreezeNames
    BY <1>2, <2>1, UnfreezeIn, ListedName
  <2>3. UnfreezeNames \subseteq Unsourced \cup {"Node ID"}
    BY Zenon DEF UnfreezeNames, Unsourced
  <2>4. x[1] \in {"Node ID"}
    BY <2>2, <2>3, UnsourcedNames
  <2> QED BY <1>2, <2>4, FieldsOne, Zenon
<1>3. CASE tx.method # "Amend" /\ tx.method # "Unfreeze"
  <2>1. TxCount(tx) <= 251
    <3>1. CASE tx.method = "RegisterEntity"
      <4>1. tx.n \in 0..16
        BY <3>1, NodesBounded
      <4>2. TxCount(tx) = 1 + tx.n
        BY <3>1 DEF TxCount
      <4> QED BY <4>1, <4>2
    <3>2. CASE tx.method \in {"Burn", "Transfer", "Withdraw", "Allow", "Escrow",
                              "ReclaimEscrow", "CastVote", "CancelUpgrade", "Upgrade"}
      BY <3>2 DEF TxCount
    <3>3. CASE tx.method = "Deregister"
      BY <3>3 DEF TxCount
    <3> QED BY <1>0, <1>3, <3>1, <3>2, <3>3 DEF TxMethods
  <2>2. FeeThere
    BY <1>3 DEF FeeThere
  <2>3. Range(shown) = Content(tx)
    BY <2>1, <2>2, StakingReviewed DEF Reviewed
  <2> DEFINE F == MethodFields[tx.method]
  <2> HIDE DEF F
  <2>4. Content(tx) = ((ItemsOf({"Type"} \cup F) \cup ElementItems(tx))
                          \cup (IF tx.has_fee THEN FeeSet ELSE {})) \cup {NetworkItem}
    BY <1>0, TxContent DEF F
  <2>5. CASE x \in ItemsOf({"Type"} \cup F)
    <3>1. x[1] \in {"Type"} \cup F
      BY <2>5 DEF ItemsOf, Item
    <3>2. "Type" \notin ItemNames
      BY UnsourcedNames, Zenon DEF Unsourced
    <3> QED BY <3>1, <3>2 DEF F
  <2>6. CASE x \in ElementItems(tx)
    BY <2>6, <1>0, ElementNames, UnsourcedNames
  <2>7. CASE x \in FeeSet \cup {NetworkItem}
    <3>1. x[1] \in {"Fee", "Gas limit", "Network"}
      <4>1. \A k : Item(k)[1] = k
        BY DEF Item
      <4> QED BY <2>7, <4>1, Zenon DEF FeeSet, NetworkItem
    <3>2. {"Fee", "Gas limit", "Network"} \subseteq Unsourced
      BY Zenon DEF Unsourced
    <3> QED BY <3>1, <3>2, UnsourcedNames
  <2> QED BY <2>3, <2>4, <2>5, <2>6, <2>7
<1> QED BY <1>1, <1>2, <1>3

\* The items of a contract: none of them but the ParaTime has a value of its own.
ContractNames ==
  {"Review Contract", "Code ID", "Instance ID", "New Code ID", "Data", "Token", "none",
   "Fee", "Gas limit"}

ContractTail == {"New Code ID", "Fee", "Gas limit", "ParaTime"}

LEMMA ContractTailIn ==
  /\ RuntimeFeeItems \in Seq(ContractTail \X Nat)
  /\ Named(<<"New Code ID">>) \o RuntimeFeeItems \in Seq(ContractTail \X Nat)
<1> DEFINE S == ContractTail \X Nat
<1>1. FeeItems \in Seq(S) /\ Named(<<"ParaTime">>) \in Seq(S)
      /\ Named(<<"New Code ID">>) \in Seq(S)
  <2>1. /\ <<"ParaTime">> \in Seq(ContractTail) /\ <<"New Code ID">> \in Seq(ContractTail)
        /\ <<"Fee", "Gas limit">> \in Seq(ContractTail)
    BY DEF ContractTail
  <2> QED BY <2>1, NamedIn DEF FeeItems
<1> HIDE DEF S
<1>2. RuntimeFeeItems \in Seq(S)
  BY <1>1, ConcatIn DEF RuntimeFeeItems
<1>3. Named(<<"New Code ID">>) \o RuntimeFeeItems \in Seq(S)
  BY <1>1, <1>2, ConcatIn
<1> QED BY <1>2, <1>3 DEF S

LEMMA ContractItemNames ==
  ASSUME NEW t, NEW i \in Int, NEW common \in Seq(ContractTail \X Nat),
         NEW x, x = ContractItem(t, i, common)
  PROVE  x[1] \in ContractNames \/ x[1] \in ContractTail
<1> DEFINE r == ContractTitle
           h == Item(HeadKey(t))
           d == DataItem
           token == <<"Token", ((i - (2 + One(t.dataValid))) % 256) + 1>>
           rest == At(common, (i - ((2 + One(t.dataValid)) + (t.n % 256))) % 256)
<1>1. \A k : Item(k)[1] = k
  BY DEF Item
<1>2. r[1] \in ContractNames /\ d[1] \in ContractNames
  BY <1>1, Zenon DEF ContractTitle, DataItem, ContractNames
<1>3. h[1] \in ContractNames
  <2>1. HeadKey(t) = "Code ID" \/ HeadKey(t) = "Instance ID"
    BY Zenon DEF HeadKey
  <2>2. "Code ID" \in ContractNames /\ "Instance ID" \in ContractNames
    BY Zenon DEF ContractNames
  <2>3. h[1] = HeadKey(t)
    BY <1>1
  <2> QED BY <2>1, <2>2, <2>3, Zenon
<1>4. token[1] \in ContractNames
  <2>1. \A a, b : <<a, b>>[1] = a
    OBVIOUS
  <2>2. token[1] = "Token"
    BY <2>1
  <2> QED BY <2>2, Zenon DEF ContractNames
<1>5. rest[1] \in ContractNames \/ rest[1] \in ContractTail
  <2>1. CASE rest = NoItem
    BY <1>1, <2>1, Zenon DEF NoItem, ContractNames
  <2>2. CASE rest \in ContractTail \X Nat
    BY <2>2
  <2> QED BY <2>1, <2>2, AtIn
<1>6. x = ItemOfContract(t.dataValid, 2 + One(t.dataValid), t.n % 256, i, common, r, h, d)
  BY ContractItemIs
<1>7. x = r \/ x = h \/ x = d \/ x = token \/ x = rest
  BY <1>6, Zenon DEF ItemOfContract
<1> HIDE DEF r, h, d, token, rest
<1> QED BY <1>2, <1>3, <1>4, <1>5, <1>7

LEMMA Signed8Type ==
  ASSUME NEW i \in Nat
  PROVE  Signed8(i) \in Int
  BY DEF Signed8

\* The same for ParaTime transactions.
LEMMA RuntimeNames ==
  ASSUME ReaderInv, status = "ok", tx.kind = "runtime", NEW x \in Range(shown),
         x[1] \in ItemNames
  PROVE  x[1] = "ParaTime" \/ x[1] \in MethodFields[tx.method]
<1>1. tx \in AnyTx /\ tx.method \in RuntimeMethods
  BY ShownTo, MethodOf
<1>2. PICK i \in 1..numItems : x = parser_getItem(tx, i - 1, numItems)
  BY ShownTo DEF Range
<1>3. x # NoItem /\ x # Item("Network")
  <2>1. NoItem[1] = "none" /\ Item("Network")[1] = "Network"
    BY DEF NoItem, Item
  <2>2. "none" \notin ItemNames /\ "Network" \notin ItemNames
    BY UnsourcedNames, Zenon DEF Unsourced
  <2> QED BY <2>1, <2>2
<1>4. x = RuntimeItem(tx, Signed8(i - 1))
  BY <1>2, <1>3 DEF parser_getItem
<1>5. Signed8(i - 1) \in Int
  BY <1>2, Signed8Type, ShownTo
<1>6. CASE tx.method \in ContractMethods
  <2>1. \E common \in Seq(ContractTail \X Nat) : x = ContractItem(tx, Signed8(i - 1), common)
    <3>1. tx.method \notin ConsensusMethods /\ tx.method # "Encrypted" /\ tx.method # "Evm"
      BY <1>6 DEF ContractMethods, ConsensusMethods
    <3>2. CASE tx.method = "ContractUpgrade"
      BY <1>4, <3>1, <3>2, ContractTailIn DEF RuntimeItem, UpgradeItem
    <3>3. CASE tx.method # "ContractUpgrade"
      BY <1>4, <3>1, <3>3, ContractTailIn DEF RuntimeItem
    <3> QED BY <3>2, <3>3
  <2>2. x[1] \in ContractNames \/ x[1] \in ContractTail
    BY <1>5, <2>1, ContractItemNames
  <2>3. ContractNames \subseteq Unsourced /\ ContractTail \subseteq Unsourced \cup {"ParaTime"}
    BY Zenon DEF ContractNames, ContractTail, Unsourced
  <2>4. x[1] \in {"ParaTime"}
    BY <2>2, <2>3, UnsourcedNames
  <2> QED BY <2>4
<1>7. CASE tx.method \notin ContractMethods
  <2>1. PICK front, K, n : Fixed(tx, front, K, n)
    BY <1>1, <1>7, MethodsFixed
  <2> DEFINE s == front \o RuntimeFeeItems
  <2>2. s \in Seq(FixedItems(K))
    BY <2>1, FixedList DEF ListsN, Lists
  <2>3. x = At(s, Signed8(i - 1))
    BY <1>4, <1>5, <2>1 DEF Fixed
  <2> HIDE DEF s
  <2>4. x \in FixedItems(K)
    BY <1>3, <2>2, <2>3, AtIn
  <2>5. x[1] \in K \cup RuntimeFeeKeys
    BY <2>4 DEF FixedItems, ItemsOf, Item
  <2>6. K = {Title(tx)} \cup MethodFields[tx.method]
    BY <2>1 DEF Fixed
  <2>7. Title(tx) \in Unsourced
    BY Zenon DEF Title, Unsourced
  <2>8. RuntimeFeeKeys \subseteq Unsourced \cup {"ParaTime"}
    BY Zenon DEF RuntimeFeeKeys, Unsourced
  <2> QED BY <2>5, <2>6, <2>7, <2>8, UnsourcedNames
<1> QED BY <1>6, <1>7

LEMMA RangeIn ==
  ASSUME NEW S, NEW s \in Seq(S)
  PROVE  Range(s) \subseteq S
<1>1. DOMAIN s = 1..Len(s) /\ s \in [1..Len(s) -> S]
  BY LenProperties
<1> QED BY <1>1 DEF Range

-----------------------------------------------------------------------------
(* The keys that each of these items should be made of. *)

LEMMA KeysAre ==
  /\ ItemKeys["To"] = {"to", "account"} /\ ItemKeys["From"] = {"from", "account"}
  /\ ItemKeys["Amount"] = {"amount"} /\ ItemKeys["Shares"] = {"shares"}
  /\ ItemKeys["Beneficiary"] = {"beneficiary"} /\ ItemKeys["Vote"] = {"vote"}
  /\ ItemKeys[AmountChange] = {"negative", "amount_change"}
  /\ ItemKeys["Node ID"] = {"node_id"}
  /\ ItemKeys["Proposal ID"] = {"id", "cancel_upgrade"}
  /\ ItemKeys["ParaTime"] = {"runtime_id"}
  /\ \A name \in Versions : ItemKeys[name] = {"major", "minor", "patch"}
  BY Zenon DEF ItemKeys, ItemNames, Versions, AmountChange

LEMMA KeysDomain == DOMAIN ItemKeys = ItemNames
  BY Zenon DEF ItemKeys

LEMMA SentIs ==
  ASSUME tx.kind # "runtime", NEW name, name \notin Versions, name # "ParaTime"
  PROVE  Sent(name) = ItemKeys[name] \cap Range(message.body)
<1>1. MapOf(name) = Range(message.body)
  BY Zenon DEF MapOf
<1> QED BY <1>1 DEF Sent

LEMMA RuntimeSentIs ==
  ASSUME tx.kind = "runtime", NEW name, name \notin Versions, name # "ParaTime"
  PROVE  Sent(name) = (ItemKeys[name] \ {"account"}) \cap Range(message.body)
<1>1. MapOf(name) = Range(message.body)
  BY Zenon DEF MapOf
<1> QED BY <1>1 DEF Sent

-----------------------------------------------------------------------------
(* The versions of an upgrade. *)

Components == {"major", "minor", "patch"}

LEMMA VersionComponents ==
  ASSUME NEW v \in Seq(STRING)
  PROVE  VersionRead(v) \subseteq Components
<1> DEFINE Has(i, key) == IF i \in DOMAIN v /\ v[i] = key THEN 1 ELSE 0
           major == Has(1, "major")
           minor == Has(major + 1, "minor")
           patch == Has(major + minor + 1, "patch")
           k == major + minor + patch
<1>1. VersionRead(v) = Range(SubSeq(v, 1, k))
  BY DEF VersionRead
<1>2. /\ major \in 0..1 /\ minor \in 0..1 /\ patch \in 0..1
      /\ major = 1 => v[1] = "major"
      /\ minor = 1 => v[major + 1] = "minor"
      /\ patch = 1 => v[major + minor + 1] = "patch"
  OBVIOUS
<1> HIDE DEF major, minor, patch
<1>3. k \in 0..3
  BY <1>2
<1>4. \A i \in 1..k : v[i] \in Components
  <2> TAKE i \in 1..k
  <2>1. \/ major = 1 /\ i = 1
        \/ minor = 1 /\ i = major + 1
        \/ patch = 1 /\ i = major + minor + 1
    BY <1>2
  <2> QED BY <1>2, <2>1 DEF Components
<1> HIDE DEF k
<1>5. SubSeq(v, 1, k) \in Seq(Components)
  BY <1>3, <1>4, SubSeqProperties
<1>6. Range(SubSeq(v, 1, k)) \subseteq Components
  BY <1>5, RangeIn
<1> QED BY <1>1, <1>6

LEMMA VersionSent ==
  ASSUME tx.kind = "tx", message \in AnyMessage, Canonical(message),
         NEW name \in Versions
  PROVE  Source(name) = Sent(name)
<1>1. message.version \in Seq(STRING)
  BY DEF AnyMessage
<1>2. Source(name) = VersionRead(message.version)
  BY Zenon DEF Source
<1>3. name # "ParaTime"
  BY Zenon DEF Versions
<1>4. MapOf(name) = Range(message.version)
  BY <1>3, Zenon DEF MapOf
<1>5. ItemKeys[name] = Components
  BY KeysAre DEF Components
<1>6. Sent(name) = Components \cap Range(message.version)
  BY <1>4, <1>5 DEF Sent
<1>7. VersionRead(message.version) = Range(message.version)
  BY DEF Canonical
<1>8. VersionRead(message.version) \subseteq Components
  BY <1>1, VersionComponents
<1> QED BY <1>2, <1>6, <1>7, <1>8

-----------------------------------------------------------------------------
(* The items of a body. *)

\* One entry for one item.
LEMMA SentOne ==
  ASSUME ReaderInv, status = "ok", tx.kind = "tx", NEW k, NEW n,
         Layout[tx.method] = <<<<k, n>>>>, k # "negative", n \notin Versions,
         tx.method # "Deregister", tx.method # "Allow", n # "ParaTime",
         k \in ItemKeys[n]
  PROVE  Source(n) = Sent(n)
<1>1. Source(n) = {k} /\ Range(message.body) = {k}
  BY OneEntry
<1>2. Sent(n) = ItemKeys[n] \cap Range(message.body)
  BY SentIs
<1> QED BY <1>1, <1>2

\* Two entries, neither of which could be for the other's item.
LEMMA SentTwo ==
  ASSUME ReaderInv, status = "ok", tx.kind = "tx", NEW k, NEW n, NEW l, NEW p,
         Layout[tx.method] = <<<<k, n>>, <<l, p>>>>, k # "negative", n # p,
         n \notin Versions, p \notin Versions, n # "ParaTime", p # "ParaTime",
         tx.method # "Deregister", tx.method # "Allow",
         k \in ItemKeys[n], l \in ItemKeys[p], l \notin ItemKeys[n], k \notin ItemKeys[p]
  PROVE  Source(n) = Sent(n) /\ Source(p) = Sent(p)
<1>1. Source(n) = {k} /\ Source(p) = {l} /\ Range(message.body) = {k, l}
  BY TwoEntries
<1>2. /\ Sent(n) = ItemKeys[n] \cap Range(message.body)
      /\ Sent(p) = ItemKeys[p] \cap Range(message.body)
  BY SentIs
<1> QED BY <1>1, <1>2

LEMMA AllowanceSent ==
  ASSUME ReaderInv, status = "ok", tx.kind = "tx", tx.method = "Allow"
  PROVE  Source("Beneficiary") = Sent("Beneficiary") /\ Source(AmountChange) = Sent(AmountChange)
<1>1. PICK sign \in SUBSET {"negative"} :
           /\ Source("Beneficiary") = {"beneficiary"}
           /\ Source(AmountChange) = {"amount_change"} \cup sign
           /\ Range(message.body) = {"beneficiary", "amount_change"} \cup sign
  BY AllowanceEntries
<1>2. /\ "Beneficiary" \notin Versions /\ "Beneficiary" # "ParaTime"
      /\ AmountChange \notin Versions /\ AmountChange # "ParaTime"
  BY Zenon DEF Versions, AmountChange
<1>3. /\ Sent("Beneficiary") = ItemKeys["Beneficiary"] \cap Range(message.body)
      /\ Sent(AmountChange) = ItemKeys[AmountChange] \cap Range(message.body)
  BY <1>2, SentIs
<1>4. ItemKeys["Beneficiary"] = {"beneficiary"}
      /\ ItemKeys[AmountChange] = {"negative", "amount_change"}
  BY KeysAre, Zenon
<1>5. {"beneficiary"} \cap ({"beneficiary", "amount_change"} \cup sign) = {"beneficiary"}
      /\ {"negative", "amount_change"} \cap ({"beneficiary", "amount_change"} \cup sign)
           = {"amount_change"} \cup sign
  OBVIOUS
<1> QED BY <1>1, <1>3, <1>4, <1>5

LEMMA StakingSent ==
  ASSUME ReaderInv, status = "ok", tx.kind = "tx", Canonical(message),
         NEW name \in MethodFields[tx.method], name \in ItemNames
  PROVE  Source(name) = Sent(name)
<1>0. tx.method \in TxMethods /\ message \in AnyMessage
  BY MethodOf DEF ReaderInv, ReaderTypeOK
<1>1. CASE tx.method = "Burn"
  <2>1. "Amount" \notin Versions /\ "amount" # "negative" /\ "Amount" # "ParaTime"
    BY Zenon DEF Versions
  <2>2. MethodFields[tx.method] \subseteq {"Amount"} \cup Unsourced
    BY <1>1, FieldsOne, Zenon DEF Unsourced
  <2>3. Layout[tx.method] = <<<<"amount", "Amount">>>>
    BY <1>1, LayoutOne, Zenon
  <2>4. tx.method # "Deregister" /\ tx.method # "Allow"
    BY <1>1
  <2>5. "amount" \in ItemKeys["Amount"]
    BY KeysAre, Zenon
  <2>6. Source("Amount") = Sent("Amount")
    BY <2>1, <2>3, <2>4, <2>5, SentOne, Zenon
  <2> QED BY <2>2, <2>6, UnsourcedNames, Zenon
<1>2. CASE tx.method = "Unfreeze"
  <2>1. "Node ID" \notin Versions /\ "node_id" # "negative" /\ "Node ID" # "ParaTime"
    BY Zenon DEF Versions
  <2>2. MethodFields[tx.method] \subseteq {"Node ID"} \cup Unsourced
    BY <1>2, FieldsOne, Zenon DEF Unsourced
  <2>3. Layout[tx.method] = <<<<"node_id", "Node ID">>>>
    BY <1>2, LayoutOne, Zenon
  <2>4. tx.method # "Deregister" /\ tx.method # "Allow"
    BY <1>2
  <2>5. "node_id" \in ItemKeys["Node ID"]
    BY KeysAre, Zenon
  <2>6. Source("Node ID") = Sent("Node ID")
    BY <2>1, <2>3, <2>4, <2>5, SentOne, Zenon
  <2> QED BY <2>2, <2>6, UnsourcedNames, Zenon
<1>3. CASE tx.method = "CancelUpgrade"
  <2>1. "Proposal ID" \notin Versions /\ "cancel_upgrade" # "negative" /\ "Proposal ID" # "ParaTime"
    BY Zenon DEF Versions
  <2>2. MethodFields[tx.method] \subseteq {"Proposal ID"} \cup Unsourced
    BY <1>3, FieldsOne, Zenon DEF Unsourced
  <2>3. Layout[tx.method] = <<<<"cancel_upgrade", "Proposal ID">>>>
    BY <1>3, LayoutOne, Zenon
  <2>4. tx.method # "Deregister" /\ tx.method # "Allow"
    BY <1>3
  <2>5. "cancel_upgrade" \in ItemKeys["Proposal ID"]
    BY KeysAre, Zenon
  <2>6. Source("Proposal ID") = Sent("Proposal ID")
    BY <2>1, <2>3, <2>4, <2>5, SentOne, Zenon
  <2> QED BY <2>2, <2>6, UnsourcedNames, Zenon
<1>4. CASE tx.method = "Transfer"
  <2>1. /\ "To" \notin Versions /\ "Amount" \notin Versions
        /\ "to" # "negative" /\ "To" # "Amount"
        /\ "To" # "ParaTime" /\ "Amount" # "ParaTime"
    BY Zenon DEF Versions
  <2>2. MethodFields[tx.method] = {"To", "Amount"}
    BY <1>4, FieldsTwo, Zenon
  <2>3. Layout[tx.method] = <<<<"to", "To">>, <<"amount", "Amount">>>>
    BY <1>4, LayoutTwo, Zenon
  <2>4. tx.method # "Deregister" /\ tx.method # "Allow"
    BY <1>4
  <2>5. /\ "to" \in ItemKeys["To"] /\ "amount" \in ItemKeys["Amount"]
        /\ "amount" \notin ItemKeys["To"] /\ "to" \notin ItemKeys["Amount"]
    BY KeysAre, Zenon
  <2>6. Source("To") = Sent("To") /\ Source("Amount") = Sent("Amount")
    BY <2>1, <2>3, <2>4, <2>5, SentTwo, Zenon
  <2> QED BY <2>2, <2>6, Zenon
<1>5. CASE tx.method = "Withdraw"
  <2>1. /\ "From" \notin Versions /\ "Amount" \notin Versions
        /\ "from" # "negative" /\ "From" # "Amount"
        /\ "From" # "ParaTime" /\ "Amount" # "ParaTime"
    BY Zenon DEF Versions
  <2>2. MethodFields[tx.method] = {"From", "Amount"}
    BY <1>5, FieldsTwo, Zenon
  <2>3. Layout[tx.method] = <<<<"from", "From">>, <<"amount", "Amount">>>>
    BY <1>5, LayoutTwo, Zenon
  <2>4. tx.method # "Deregister" /\ tx.method # "Allow"
    BY <1>5
  <2>5. /\ "from" \in ItemKeys["From"] /\ "amount" \in ItemKeys["Amount"]
        /\ "amount" \notin ItemKeys["From"] /\ "from" \notin ItemKeys["Amount"]
    BY KeysAre, Zenon
  <2>6. Source("From") = Sent("From") /\ Source("Amount") = Sent("Amount")
    BY <2>1, <2>3, <2>4, <2>5, SentTwo, Zenon
  <2> QED BY <2>2, <2>6, Zenon
<1>6. CASE tx.method = "Escrow"
  <2>1. /\ "Amount" \notin Versions /\ "To" \notin Versions
        /\ "amount" # "negative" /\ "Amount" # "To"
        /\ "Amount" # "ParaTime" /\ "To" # "ParaTime"
    BY Zenon DEF Versions
  <2>2. MethodFields[tx.method] = {"Amount", "To"}
    BY <1>6, FieldsTwo, Zenon
  <2>3. Layout[tx.method] = <<<<"amount", "Amount">>, <<"account", "To">>>>
    BY <1>6, LayoutTwo, Zenon
  <2>4. tx.method # "Deregister" /\ tx.method # "Allow"
    BY <1>6
  <2>5. /\ "amount" \in ItemKeys["Amount"] /\ "account" \in ItemKeys["To"]
        /\ "account" \notin ItemKeys["Amount"] /\ "amount" \notin ItemKeys["To"]
    BY KeysAre, Zenon
  <2>6. Source("Amount") = Sent("Amount") /\ Source("To") = Sent("To")
    BY <2>1, <2>3, <2>4, <2>5, SentTwo, Zenon
  <2> QED BY <2>2, <2>6, Zenon
<1>7. CASE tx.method = "ReclaimEscrow"
  <2>1. /\ "Shares" \notin Versions /\ "From" \notin Versions
        /\ "shares" # "negative" /\ "Shares" # "From"
        /\ "Shares" # "ParaTime" /\ "From" # "ParaTime"
    BY Zenon DEF Versions
  <2>2. MethodFields[tx.method] = {"Shares", "From"}
    BY <1>7, FieldsTwo, Zenon
  <2>3. Layout[tx.method] = <<<<"shares", "Shares">>, <<"account", "From">>>>
    BY <1>7, LayoutTwo, Zenon
  <2>4. tx.method # "Deregister" /\ tx.method # "Allow"
    BY <1>7
  <2>5. /\ "shares" \in ItemKeys["Shares"] /\ "account" \in ItemKeys["From"]
        /\ "account" \notin ItemKeys["Shares"] /\ "shares" \notin ItemKeys["From"]
    BY KeysAre, Zenon
  <2>6. Source("Shares") = Sent("Shares") /\ Source("From") = Sent("From")
    BY <2>1, <2>3, <2>4, <2>5, SentTwo, Zenon
  <2> QED BY <2>2, <2>6, Zenon
<1>8. CASE tx.method = "CastVote"
  <2>1. /\ "Proposal ID" \notin Versions /\ "Vote" \notin Versions
        /\ "id" # "negative" /\ "Proposal ID" # "Vote"
        /\ "Proposal ID" # "ParaTime" /\ "Vote" # "ParaTime"
    BY Zenon DEF Versions
  <2>2. MethodFields[tx.method] = {"Proposal ID", "Vote"}
    BY <1>8, FieldsTwo, Zenon
  <2>3. Layout[tx.method] = <<<<"id", "Proposal ID">>, <<"vote", "Vote">>>>
    BY <1>8, LayoutTwo, Zenon
  <2>4. tx.method # "Deregister" /\ tx.method # "Allow"
    BY <1>8
  <2>5. /\ "id" \in ItemKeys["Proposal ID"] /\ "vote" \in ItemKeys["Vote"]
        /\ "vote" \notin ItemKeys["Proposal ID"] /\ "id" \notin ItemKeys["Vote"]
    BY KeysAre, Zenon
  <2>6. Source("Proposal ID") = Sent("Proposal ID") /\ Source("Vote") = Sent("Vote")
    BY <2>1, <2>3, <2>4, <2>5, SentTwo, Zenon
  <2> QED BY <2>2, <2>6, Zenon
<1>9. CASE tx.method = "Allow"
  <2>1. MethodFields[tx.method] = {"Beneficiary", AmountChange}
    BY <1>9, FieldsTwo, Zenon DEF AmountChange
  <2> QED BY <1>9, <2>1, AllowanceSent, Zenon
<1>10. CASE tx.method = "Upgrade"
  <2>1. MethodFields[tx.method] \subseteq Versions \cup Unsourced
    BY <1>10, FieldsOne, Zenon DEF Versions, Unsourced
  <2> QED BY <1>0, <2>1, VersionSent, UnsourcedNames, Zenon
<1>11. CASE tx.method \in {"Amend", "Deregister", "RegisterEntity"}
  <2>1. MethodFields[tx.method] \subseteq Unsourced
    BY <1>11, FieldsOne, Zenon DEF Unsourced
  <2> QED BY <2>1, UnsourcedNames
<1> QED BY <1>0, <1>1, <1>2, <1>3, <1>4, <1>5, <1>6, <1>7, <1>8, <1>9, <1>10, <1>11 DEF TxMethods

\* The fields of a ParaTime transaction that are made of its body.
LEMMA CallFields ==
  /\ \A m \in {"Deposit", "RuntimeTransfer", "RuntimeWithdraw", "Delegate"} :
       MethodFields[m] = {"To", "Amount"}
  /\ MethodFields["Undelegate"] = {"From", "Shares"}
  /\ MethodFields["Call"] = {"Instance ID"} /\ MethodFields["Instantiate"] = {"Code ID"}
  /\ MethodFields["ContractUpgrade"] = {"Instance ID", "New Code ID"}
<1>1. /\ MethodFields["Deposit"] = {"To", "Amount"}
      /\ MethodFields["RuntimeTransfer"] = {"To", "Amount"}
      /\ MethodFields["RuntimeWithdraw"] = {"To", "Amount"}
      /\ MethodFields["Delegate"] = {"To", "Amount"}
  BY Zenon DEF MethodFields
<1>2. /\ MethodFields["Undelegate"] = {"From", "Shares"}
      /\ MethodFields["Call"] = {"Instance ID"} /\ MethodFields["Instantiate"] = {"Code ID"}
      /\ MethodFields["ContractUpgrade"] = {"Instance ID", "New Code ID"}
  BY Zenon DEF MethodFields
<1> QED BY <1>1, <1>2, Zenon

LEMMA HashedFields ==
  /\ MethodFields["Encrypted"] = {"Warning!", "Tx Hash", "Pubkey", "Nonce"}
  /\ MethodFields["Evm"] = {"Warning!", "Tx Hash", "Address"}
  BY Zenon DEF MethodFields

LEMMA ParaTimeSent ==
  ASSUME ReaderInv, status = "ok", tx.kind = "runtime", Canonical(message)
  PROVE  Source("ParaTime") = Sent("ParaTime")
<1>1. PICK old \in AnyMeta, before \in AnyLeft :
         meta = MetaAfter(old, message) /\ tx = Parsed(message, old, before)
  BY DEF ReaderInv, ReadFromMessage
<1>2. parser_parse(message) /\ message \in AnyMessage
  BY DEF ReaderInv, ReadFromMessage, ReaderTypeOK
<1>3. BlobType(message) = "runtime" /\ message.context # "runtime"
  BY <1>1 DEF Parsed, Canonical
<1>4. message.context = "meta"
  BY <1>3 DEF BlobType
<1>5. MetaKeys \subseteq message.meta /\ Fine(message, message.meta)
  BY <1>2, <1>4 DEF parser_parse, _readContext
<1>6. "chain_context" \in message.meta /\ "runtime_id" \in message.meta
  BY <1>5 DEF MetaKeys
<1>7. Fine(message, {"chain_context"}) /\ Fine(message, {"runtime_id"})
  BY <1>5, <1>6 DEF Fine
<1>8. meta.runtime_id = "runtime_id"
  BY <1>1, <1>4, <1>6, <1>7 DEF MetaAfter
<1>9. Source("ParaTime") = {meta.runtime_id}
  BY Zenon DEF Source, RuntimeSource
<1>10. MapOf("ParaTime") = message.meta
  <2>1. "ParaTime" \notin Versions
    BY Zenon DEF Versions
  <2> QED BY <2>1, Zenon DEF MapOf
<1>11. ItemKeys["ParaTime"] = {"runtime_id"}
  BY KeysAre, Zenon
<1>12. Sent("ParaTime") = ({"runtime_id"} \ {"account"}) \cap message.meta
  BY <1>10, <1>11 DEF Sent
<1>13. Sent("ParaTime") = {"runtime_id"}
  BY <1>6, <1>12
<1> QED BY <1>8, <1>9, <1>13

\* The address of a consensus call, when it is there, comes first.
LEMMA AddressSent ==
  ASSUME NEW address \in {"to", "from"}, NEW m, m.body \in Seq(STRING),
         \A i \in DOMAIN m.body :
            m.body[i] \in {"to", "from"} => i = 1 /\ m.body[1] = address
  PROVE  (IF HasTo(m) THEN {m.body[1]} ELSE {}) = {address} \cap Range(m.body)
<1>1. DOMAIN m.body = 1..Len(m.body) /\ Len(m.body) \in Nat
  BY LenProperties
<1>2. CASE HasTo(m)
  <2>1. m.body # <<>> /\ m.body[1] \in {"to", "from"}
    BY <1>2 DEF HasTo
  <2>2. 1 \in DOMAIN m.body
    BY <2>1, <1>1, EmptySeq
  <2>3. m.body[1] = address /\ address \in Range(m.body)
    BY <2>1, <2>2 DEF Range
  <2> QED BY <1>2, <2>3
<1>3. CASE ~HasTo(m)
  <2>1. address \notin Range(m.body)
    <3> SUFFICES ASSUME NEW i \in DOMAIN m.body, m.body[i] = address
                 PROVE  FALSE
      BY DEF Range
    <3>1. i = 1 /\ m.body[1] = address
      OBVIOUS
    <3>2. m.body # <<>>
      BY <1>1, <3>1
    <3> QED BY <1>3, <3>1, <3>2 DEF HasTo
  <2> QED BY <1>3, <2>1
<1> QED BY <1>2, <1>3

LEMMA CallSent ==
  ASSUME ReaderInv, status = "ok", tx.kind = "runtime", Canonical(message),
         tx.method \in ConsensusMethods, NEW name \in MethodFields[tx.method]
  PROVE  Source(name) = Sent(name)
<1>1. PICK old \in AnyMeta, before \in AnyLeft : tx = Parsed(message, old, before)
  BY DEF ReaderInv, ReadFromMessage
<1>2. parser_parse(message) /\ message \in AnyMessage
  BY DEF ReaderInv, ReadFromMessage, ReaderTypeOK
<1>3. BlobType(message) = "runtime"
  BY <1>1 DEF Parsed
<1>4. _readRuntimeCall(message) /\ tx.method = RuntimeMethod(message)
  BY <1>1, <1>2, <1>3, KindOfMessage, MethodRead DEF _readRuntime
<1>5. message.method = tx.method /\ message.method \in ConsensusMethods
  BY <1>4 DEF RuntimeMethod, ConsensusMethods
<1>6. _readRuntimeConsensusBody(message)
  <2>1. RuntimeMethod(message) # "Encrypted" /\ RuntimeMethod(message) # "Evm"
    BY <1>4 DEF ConsensusMethods
  <2>2. RuntimeMethod(message) \in ConsensusMethods
    BY <1>4
  <2> QED BY <1>4, <2>1, <2>2, Zenon DEF _readRuntimeCall
<1>7. message.body \in Seq(STRING)
  BY <1>2 DEF AnyMessage
<1> DEFINE address == IF message.method = "Undelegate" THEN "from" ELSE "to"
<1>8. /\ \A i \in DOMAIN message.body :
           message.body[i] \in {"to", "from"} => i = 1 /\ message.body[1] = address
      /\ message.method = "Undelegate" => SharesEntry(message) = "shares"
  BY <1>5 DEF Canonical
<1>9. address \in {"to", "from"}
  OBVIOUS
<1> HIDE DEF address
<1>10. (IF HasTo(message) THEN {message.body[1]} ELSE {}) = {address} \cap Range(message.body)
  BY <1>7, <1>8, <1>9, AddressSent
<1>11. CASE message.method = "Undelegate"
  <2>1. name = "From" \/ name = "Shares"
    BY <1>5, <1>11, CallFields, Zenon
  <2>2. address = "from" /\ "shares" \in Range(message.body)
    BY <1>6, <1>11 DEF _readRuntimeConsensusBody, address
  <2>3. CASE name = "From"
    <3>1. Source(name) = IF HasTo(message) THEN {message.body[1]} ELSE {}
      BY <2>3, Zenon DEF Source, RuntimeSource
    <3>2. name \notin Versions /\ name # "ParaTime"
      BY <2>3, Zenon DEF Versions
    <3>3. ItemKeys[name] = {"from", "account"}
      BY <2>3, KeysAre, Zenon
    <3>4. Sent(name) = ({"from", "account"} \ {"account"}) \cap Range(message.body)
      BY <3>2, <3>3, RuntimeSentIs
    <3>5. {"from", "account"} \ {"account"} = {"from"}
      OBVIOUS
    <3> QED BY <1>10, <2>2, <3>1, <3>4, <3>5
  <2>4. CASE name = "Shares"
    <3>1. Source(name) = {SharesEntry(message)}
      BY <2>4, Zenon DEF Source, RuntimeSource
    <3>2. name \notin Versions /\ name # "ParaTime"
      BY <2>4, Zenon DEF Versions
    <3>3. ItemKeys[name] = {"shares"}
      BY <2>4, KeysAre, Zenon
    <3>4. Sent(name) = ({"shares"} \ {"account"}) \cap Range(message.body)
      BY <3>2, <3>3, RuntimeSentIs
    <3>5. {"shares"} \ {"account"} = {"shares"}
      OBVIOUS
    <3> QED BY <1>8, <1>11, <2>2, <3>1, <3>4, <3>5
  <2> QED BY <2>1, <2>3, <2>4
<1>12. CASE message.method # "Undelegate"
  <2>1. name = "To" \/ name = "Amount"
    <3>1. tx.method \in {"Deposit", "RuntimeTransfer", "RuntimeWithdraw", "Delegate"}
      BY <1>5, <1>12 DEF ConsensusMethods
    <3> QED BY <3>1, CallFields, Zenon
  <2>2. address = "to" /\ "amount" \in Range(message.body)
    BY <1>6, <1>12 DEF _readRuntimeConsensusBody, address
  <2>3. CASE name = "To"
    <3>1. Source(name) = IF HasTo(message) THEN {message.body[1]} ELSE {}
      BY <2>3, Zenon DEF Source, RuntimeSource
    <3>2. name \notin Versions /\ name # "ParaTime"
      BY <2>3, Zenon DEF Versions
    <3>3. ItemKeys[name] = {"to", "account"}
      BY <2>3, KeysAre, Zenon
    <3>4. Sent(name) = ({"to", "account"} \ {"account"}) \cap Range(message.body)
      BY <3>2, <3>3, RuntimeSentIs
    <3>5. {"to", "account"} \ {"account"} = {"to"}
      OBVIOUS
    <3> QED BY <1>10, <2>2, <3>1, <3>4, <3>5
  <2>4. CASE name = "Amount"
    <3>1. Source(name) = {"amount"}
      BY <2>4, Zenon DEF Source, RuntimeSource
    <3>2. name \notin Versions /\ name # "ParaTime"
      BY <2>4, Zenon DEF Versions
    <3>3. ItemKeys[name] = {"amount"}
      BY <2>4, KeysAre, Zenon
    <3>4. Sent(name) = ({"amount"} \ {"account"}) \cap Range(message.body)
      BY <3>2, <3>3, RuntimeSentIs
    <3>5. {"amount"} \ {"account"} = {"amount"}
      OBVIOUS
    <3> QED BY <2>2, <3>1, <3>4, <3>5
  <2> QED BY <2>1, <2>3, <2>4
<1> QED BY <1>11, <1>12

LEMMA OptionalRange == Range(Optional) = {"Name", "URL", "Email", "Keybase", "Twitter"}
  BY DEF Range, Optional

LEMMA EntityNames ==
  ASSUME ReaderInv, status = "ok", tx.kind \in {"entity", "metadata"}, NEW x \in Content(tx)
  PROVE  x[1] \in Unsourced
<1>1. tx \in AnyTx /\ tx.method = "none"
  BY ShownTo, MethodOf
<1>2. CASE x \in ElementItems(tx)
  BY <1>2, ElementNames
<1>3. CASE x \notin ElementItems(tx)
  <2>1. Title(tx) = "Sign"
    BY DEF Title
  <2>2. \/ x \in ItemsOf({"Sign"} \cup {"ID"} \cup {} \cup {})
        \/ x \in ItemsOf({"Sign"} \cup ({"Version", "Serial"} \cup tx.optional) \cup {} \cup {})
    BY <1>3, <2>1 DEF Content, ItemsOf
  <2>3. x[1] \in {"Sign", "ID", "Version", "Serial"} \cup tx.optional
    BY <2>2 DEF ItemsOf, Item
  <2>4. tx.optional \subseteq Unsourced
    BY <1>1, OptionalRange, Zenon DEF AnyTx, Unsourced
  <2>5. {"Sign", "ID", "Version", "Serial"} \subseteq Unsourced
    BY Zenon DEF Unsourced
  <2> QED BY <2>3, <2>4, <2>5
<1> QED BY <1>2, <1>3

\* No value is shown under another's name, and none of an earlier transaction's:
\* every field of an accepted review is made of the entries with the field's key,
\* although bodies are read by position, however many transactions came before.
THEOREM NoValueIsMisnamed == Spec => []ShownAsSent
<1>1. ReaderInv => ShownAsSent
  <2> SUFFICES ASSUME ReaderInv, status = "ok", Canonical(message),
                      NEW name \in (Shown \cap DOMAIN ItemKeys) \ {"Tx Hash"}
               PROVE  Source(name) = Sent(name)
    BY DEF ShownAsSent
  <2>1. name \in ItemNames
    BY KeysDomain
  <2>2. PICK x \in Range(shown) : x[1] = name
    BY DEF Shown
  <2>3. CASE tx.kind = "tx"
    BY <2>1, <2>2, <2>3, TxNames, StakingSent
  <2>4. CASE tx.kind = "runtime"
    <3>1. CASE name = "ParaTime"
      BY <2>4, <3>1, ParaTimeSent
    <3>2. CASE name \in MethodFields[tx.method]
      <4>1. CASE tx.method \in ConsensusMethods
        BY <2>4, <3>2, <4>1, CallSent
      <4>2. CASE tx.method \in ContractMethods
        <5>1. MethodFields[tx.method] \subseteq Unsourced
          BY <4>2, CallFields, Zenon DEF ContractMethods, Unsourced
        <5> QED BY <2>1, <3>2, <5>1, UnsourcedNames
      <4>3. CASE tx.method \in {"Encrypted", "Evm"}
        <5>1. /\ "Warning!" \notin ItemNames /\ "Pubkey" \notin ItemNames
              /\ "Nonce" \notin ItemNames /\ "Address" \notin ItemNames
          BY Zenon DEF ItemNames, Versions
        <5> QED BY <2>1, <3>2, <4>3, <5>1, HashedFields, Zenon
      <4>4. tx.method \in RuntimeMethods
        BY <2>4, MethodOf
      <4> QED BY <4>1, <4>2, <4>3, <4>4 DEF RuntimeMethods
    <3> QED BY <2>1, <2>2, <2>4, <3>1, <3>2, RuntimeNames
  <2>5. CASE tx.kind \in {"entity", "metadata"}
    <3>1. x \in Content(tx)
      BY <2>5, EntityReviewed, MetadataReviewed DEF Reviewed
    <3>2. x[1] \in Unsourced
      BY <2>5, <3>1, EntityNames
    <3> QED BY <2>1, <2>2, <3>2, UnsourcedNames
  <2>6. tx.kind \in {"tx", "entity", "metadata", "runtime"}
    BY ShownTo DEF AnyTx
  <2> QED BY <2>3, <2>4, <2>5, <2>6
<1> QED BY <1>1, InvHolds, PTL

-----------------------------------------------------------------------------
=============================================================================
