------------------------------ MODULE TxReader ------------------------------
(***************************************************************************)
(* Oasis transactions on their way to a review in the consumer build: the  *)
(* context and the CBOR maps of parser_impl_con.c, read into parser_tx_obj,*)
(* then the loop of ReviewItems over the items.  One transaction after the *)
(* other is read into the same object.                                     *)
(*                                                                         *)
(* A CBOR map is what the reader asks of it: the set of its keys where it  *)
(* is searched, the sequence of its keys where it is read in order.  A key *)
(* also stands for its value; `bad` names the one value of a message that  *)
(* its reader takes no value from, being of another type or size.          *)
(***************************************************************************)
EXTENDS ReviewItems

CONSTANTS
  Message,       \* what may be sent, records of AnyMessage
  Before,        \* bound: what may be sent before the last one
  MaxMessages    \* bound: transactions read one after the other

VARIABLES
  message,    \* the transaction in the buffer
  meta,       \* parser_tx_obj.oasis.runtime.meta, which only metadata writes
  left,       \* parser_tx_obj.oasis.tx: its method and the lengths of its lists
  received    \* number of transactions so far

readerVars == <<vars, message, meta, left, received>>

Chains == {"mainnet", "testnet", "other"}

\* `context` says what comes first: CBOR metadata, a context with one of the known
\* prefixes, another one, one that is shorter than two bytes, longer than the
\* buffer or not printable.  `chain` is the context's suffix, or chain_context of
\* the metadata; `second` tells whether a well-formed CBOR map follows.
AnyMessage ==
  [context : {"meta", "tx", "runtime", "entity", "metadata", "other", "empty",
              "overlong", "unprintable"},
   chain : Chains, second : BOOLEAN, meta : SUBSET STRING, root : SUBSET STRING,
   fee : SUBSET STRING, ai : SUBSET STRING, call : SUBSET STRING, format : Nat,
   method : STRING, body : Seq(STRING), inner : Seq(STRING),
   target : Seq(STRING), version : Seq(STRING), entity : SUBSET STRING,
   data : {"map", "other"}, n : Nat, m : Nat, bad : STRING \X Nat]

ASSUME MessageAssumption ==
  /\ Message \subseteq AnyMessage /\ Message # {}
  /\ Before \subseteq Message /\ MaxMessages \in Nat

\* The values of these keys, where they are there, are what they should be.
Fine(m, keys) == \A k \in keys : m.bad # <<k, 0>>

-----------------------------------------------------------------------------
(* The context. *)

MetaKeys == {"chain_context", "runtime_id"}

\* _readContext; _readRuntimeMeta when the first byte begins a map.
_readContext(m) ==
  IF m.context = "meta"
  THEN MetaKeys \subseteq m.meta /\ Fine(m, m.meta)
  ELSE m.context \notin {"empty", "overlong", "unprintable"}

\* What _readRuntimeMeta leaves of a message in the object.  It writes one key
\* after the other and stops at the first that is missing or bad.
MetaAfter(old, m) ==
  LET chain == "chain_context" \in m.meta /\ Fine(m, {"chain_context"})
      id    == chain /\ "runtime_id" \in m.meta /\ Fine(m, {"runtime_id"})
  IN IF m.context # "meta"
     THEN [old EXCEPT !.runtime_id = IF @ = "zero" THEN @ ELSE "stale"]
     ELSE [chain_context |-> IF chain THEN m.chain ELSE old.chain_context,
           runtime_id |-> IF id THEN "runtime_id"
                          ELSE IF old.runtime_id = "zero" THEN "zero" ELSE "stale",
           has_orig_to |-> IF id THEN "orig_to" \in m.meta ELSE old.has_orig_to]

\* matchPrefix.  Metadata gives the prefix of a ParaTime transaction.
BlobType(m) == IF m.context = "meta" THEN "runtime" ELSE m.context

_extractContextSuffix(m) ==
  BlobType(m) \in {"tx", "runtime", "entity", "metadata"}

-----------------------------------------------------------------------------
(* Consensus transactions: the body is read in order, key by key, and each *)
(* value goes to the field that the second component names as its item.    *)

Layout ==
  [Transfer      |-> <<<<"to", "To">>, <<"amount", "Amount">>>>,
   Burn          |-> <<<<"amount", "Amount">>>>,
   Withdraw      |-> <<<<"from", "From">>, <<"amount", "Amount">>>>,
   Allow         |-> <<<<"beneficiary", "Beneficiary">>,
                       <<"amount_change", "Amount change">>>>,
   Escrow        |-> <<<<"amount", "Amount">>, <<"account", "To">>>>,
   ReclaimEscrow |-> <<<<"shares", "Shares">>, <<"account", "From">>>>,
   Amend         |-> <<<<"amendment", "none">>>>,
   Unfreeze      |-> <<<<"node_id", "Node ID">>>>,
   RegisterEntity |-> <<<<"signature", "none">>, <<"untrusted_raw_value", "none">>>>,
   Upgrade       |-> <<<<"upgrade", "Handler">>>>,
   CancelUpgrade |-> <<<<"cancel_upgrade", "Proposal ID">>>>,
   CastVote      |-> <<<<"id", "Proposal ID">>, <<"vote", "Vote">>>>]

\* The maps inside a body, and the one inside an upgrade.
Inner ==
  [Amend          |-> <<"rates", "bounds">>,
   RegisterEntity |-> <<"signature", "public_key">>,
   Upgrade        |-> <<"v", "epoch", "target", "handler">>,
   CancelUpgrade  |-> <<"proposal_id">>]

Target ==
  <<"consensus_protocol", "runtime_host_protocol", "runtime_committee_protocol">>

KeysOf(layout) == [i \in DOMAIN layout |-> layout[i][1]]

\* governance.SubmitProposal is two transactions, told apart by the body's key.
Method(m) ==
  IF m.method # "SubmitProposal" THEN m.method
  ELSE IF m.body = <<"upgrade">> THEN "Upgrade" ELSE "CancelUpgrade"

\* Mutant of BodyMatches: all keys are there, in whatever order.
BodyHasKeys(m) == Range(m.body) = Range(KeysOf(Layout[Method(m)]))

\* Mutant of BodyMatches: the number of entries is not checked.
BodyStartsRight(m) ==
  LET keys == KeysOf(Layout[Method(m)]) IN
  \/ IsPrefix(keys, m.body)
  \/ m.method = "Allow" /\ m.body = <<"negative">> \o keys

\* CHECK_CBOR_MAP_LEN and _matchKey; `negative` is optional.
BodyMatches(m) ==
  LET keys == KeysOf(Layout[Method(m)]) IN
  \/ m.body = keys
  \/ m.method = "Allow" /\ m.body = <<"negative">> \o keys

\* _readVersion takes the components it finds in this order; what comes
\* otherwise is passed over and the component is zero.
VersionRead(v) ==
  LET Has(i, key) == IF i \in DOMAIN v /\ v[i] = key THEN 1 ELSE 0
      major == Has(1, "major")
      minor == Has(major + 1, "minor")
      patch == Has(major + minor + 1, "patch")
  IN Range(SubSeq(v, 1, major + minor + patch))

MAX_ENTITY_NODES == 16

\* _readEntity: every field is optional, in any order.
_readEntity(m) ==
  /\ Fine(m, m.entity)
  /\ "nodes" \in m.entity => m.n <= MAX_ENTITY_NODES

_readBody(m) ==
  \/ m.method = "Deregister"
  \/ /\ "body" \in m.root /\ Fine(m, {"body"})
     /\ BodyMatches(m) /\ Fine(m, Range(m.body))
     /\ Method(m) \in DOMAIN Inner =>
          m.inner = Inner[Method(m)] /\ Fine(m, Range(m.inner))
     /\ Method(m) = "Upgrade" =>
          /\ m.target = Target
          /\ m.version # <<>> /\ Fine(m, VersionRead(m.version))
     /\ Method(m) = "RegisterEntity" => _readEntity(m)

\* The fee is optional, and so are its two keys.
_readFee(m) ==
  "fee" \in m.root =>
    Fine(m, {"fee"}) /\ ("amount" \in m.fee => Fine(m, {"fee amount"}))

_readNonce(m) == "nonce" \in m.root /\ Fine(m, {"nonce"})

_readMethod(m) ==
  /\ "method" \in m.root
  /\ m.method \in (TxMethods \ {"Upgrade", "CancelUpgrade"}) \cup {"SubmitProposal"}

_readTx(m) == _readMethod(m) /\ _readFee(m) /\ _readNonce(m) /\ _readBody(m)

_readEntityMetadata(m) ==
  {"Version", "Serial"} \subseteq m.root /\ Fine(m, m.root)

-----------------------------------------------------------------------------
(* What a consensus transaction leaves in the union, also a refused one.   *)

\* No method: zeros, or characters where the method lies.
Nothing == [method |-> "none", n |-> 0, m |-> 0]

\* The entries of the body were reached, and those that are read before a list.
BodyEntered(m) ==
  /\ _readFee(m) /\ _readNonce(m)
  /\ "body" \in m.root /\ Fine(m, {"body"})
  /\ BodyMatches(m) /\ Fine(m, Range(m.body))

\* _readAmendment takes the lengths in turn, without a look at the elements.
ListRead(m, i) ==
  /\ BodyEntered(m)
  /\ Len(m.inner) = 2
  /\ \A j \in 1..i : m.inner[j] = Inner.Amend[j] /\ Fine(m, {m.inner[j]})

\* _readEntity takes the number of nodes last, and before it is compared.
NodesRead(m) ==
  /\ BodyEntered(m)
  /\ m.inner = Inner.RegisterEntity /\ Fine(m, Range(m.inner))
  /\ "nodes" \in m.entity /\ Fine(m, m.entity)

LengthLeft(read, n) == IF read THEN n ELSE 0

\* A proposal is an upgrade (zero) until all of a cancellation was read.
TxLeft(m) ==
  IF ~_readMethod(m) THEN Nothing
  ELSE IF m.method = "SubmitProposal"
       THEN [Nothing EXCEPT !.method = IF _readTx(m) THEN Method(m) ELSE "Upgrade"]
  ELSE IF m.method = "Amend"
       THEN [method |-> "Amend", n |-> LengthLeft(ListRead(m, 1), m.n),
             m |-> LengthLeft(ListRead(m, 2), m.m)]
  ELSE IF m.method = "RegisterEntity"
       THEN [Nothing EXCEPT !.method = "RegisterEntity",
                            !.n = LengthLeft(NodesRead(m), m.n)]
  ELSE [Nothing EXCEPT !.method = m.method]

\* The URL of a descriptor is copied over the method before its characters are
\* looked at; one that is refused may read as a method.
DescriptorLeft(m) ==
  IF {"Version", "Serial", "URL"} \subseteq m.root /\ ~Fine(m, {"URL"})
     /\ m.method \in TxMethods
  THEN [method |-> m.method, n |-> m.n, m |-> m.m]
  ELSE Nothing

\* Mutant of LeftAfter: the signature context has a place of its own.
LeftByMetadata(old, m) ==
  IF m.context = "meta" \/ ~_readContext(m) \/ ~m.second THEN old
  ELSE CASE m.context = "tx"       -> TxLeft(m)
         [] m.context = "metadata" -> DescriptorLeft(m)
         [] OTHER                  -> old

\* What a message leaves there.  Metadata has the signature context written over
\* it, 99 characters; neither a ParaTime transaction of a plain context nor an
\* entity reaches it.
LeftAfter(old, m) ==
  IF ~_readContext(m) THEN old
  ELSE IF m.context = "meta" THEN Nothing
  ELSE IF ~m.second THEN old
  ELSE CASE m.context = "tx"       -> TxLeft(m)
         [] m.context = "metadata" -> DescriptorLeft(m)
         [] OTHER                  -> old

-----------------------------------------------------------------------------
(* ParaTime transactions: keys are searched, with two exceptions in the    *)
(* body of a consensus call, and the number of entries has bounds only.    *)

Encrypted(m) == "format" \in m.call /\ m.format = 1

RuntimeMethod(m) == IF Encrypted(m) THEN "Encrypted" ELSE m.method

\* An address comes first or not at all.
HasTo(m) == m.body # <<>> /\ m.body[1] \in {"to", "from"}

\* The entry whose value becomes the shares: that a key `shares` exists is
\* checked, but the value is taken from the place behind the address.
SharesEntry(m) == IF HasTo(m) THEN m.body[2] ELSE m.body[1]

_readRuntimeConsensusBody(m) ==
  /\ Len(m.body) \in 1..2
  /\ HasTo(m) => Fine(m, {m.body[1]})
  /\ IF m.method = "Undelegate"
     THEN "shares" \in Range(m.body) /\ Fine(m, {SharesEntry(m)})
     ELSE "amount" \in Range(m.body) /\ Fine(m, {"amount"})

_readRuntimeContractsBody(m) ==
  LET needed == (IF m.method = "Instantiate" THEN {} ELSE {"id"})
                \cup (IF m.method = "Call" THEN {} ELSE {"code_id"})
                \cup {"tokens"}
  IN Len(m.body) \in 1..5 /\ needed \subseteq Range(m.body)
     /\ Fine(m, needed \cup {"data"})

\* The bodies of an encrypted and of an EVM call.
HashedBody(m, needed) ==
  Len(m.body) \in 1..4 /\ needed \subseteq Range(m.body) /\ Fine(m, needed)

_readRuntimeCall(m) ==
  /\ "call" \in m.root /\ Fine(m, {"call"})
  /\ Cardinality(m.call) \in 2..4
  /\ "format" \in m.call => m.format <= 1 /\ Fine(m, {"format"})
  /\ "body" \in m.call
  /\ Encrypted(m)
     \/ ("method" \in m.call /\ m.method \in (RuntimeMethods \ {"Encrypted"}))
  /\ CASE RuntimeMethod(m) \in ConsensusMethods -> _readRuntimeConsensusBody(m)
       [] RuntimeMethod(m) = "Encrypted" -> HashedBody(m, {"pk", "nonce", "data"})
       [] RuntimeMethod(m) = "Evm"       -> HashedBody(m, {"address", "data"})
       [] OTHER                          -> _readRuntimeContractsBody(m)

_readRuntimeAi(m) ==
  /\ "ai" \in m.root /\ Cardinality(m.ai) \in 1..3 /\ "fee" \in m.ai
  /\ Cardinality(m.fee) \in 1..3 /\ "amount" \in m.fee
  /\ Fine(m, {"fee amount"} \cup (m.fee \cap {"gas", "consensus_messages"}))

_readRuntime(m) ==
  "v" \in m.root /\ Fine(m, {"v"}) /\ _readRuntimeCall(m) /\ _readRuntimeAi(m)

-----------------------------------------------------------------------------
\* parser_parse, in expert mode.
parser_parse(m) ==
  /\ _readContext(m) /\ _extractContextSuffix(m)
  /\ m.second
  /\ CASE BlobType(m) = "tx"       -> _readTx(m)
       [] BlobType(m) = "entity"   -> _readEntity(m)
       [] BlobType(m) = "metadata" -> _readEntityMetadata(m)
       [] OTHER                    -> _readRuntime(m)

Unread == [kind |-> "tx", method |-> "none", has_fee |-> FALSE, n |-> 0, m |-> 0,
           stale |-> 0, dataValid |-> FALSE, optional |-> {}, bad |-> NoElement]

\* What the items need to know of a message that was read, and of what was in the
\* object before.
Parsed(m, old, before) ==
  LET type    == BlobType(m)
      isNodes == type = "entity" \/ (type = "tx" /\ m.method = "RegisterEntity")
      isData  == type = "runtime" /\ "data" \in Range(m.body) /\ m.data = "map"
      mapped  == type = "runtime" /\ HasTo(m) /\ MetaAfter(old, m).has_orig_to
      judged  == {"Rate", "Bound", "Node", "Token", "Vote"}
                 \cup (IF mapped THEN {"To", "From"} ELSE {})
  IN [kind |-> type,
      method |-> CASE type = "tx"      -> Method(m)
                   [] type = "runtime" -> RuntimeMethod(m)
                   [] OTHER            -> "none",
      has_fee |-> type = "tx" /\ "fee" \in m.root,
      n |-> IF isNodes /\ "nodes" \notin m.entity THEN 0 ELSE m.n,
      m |-> m.m,
      stale |-> IF type = "runtime" THEN TxCount(LeftAfter(before, m)) ELSE 0,
      dataValid |-> isData /\ RuntimeMethod(m) \in ContractMethods,
      optional |-> IF type = "metadata" THEN m.root \cap Range(Optional) ELSE {},
      bad |-> IF m.bad[1] \in judged THEN m.bad ELSE NoElement]

Ready == [chain_context |-> "none", runtime_id |-> "zero", has_orig_to |-> FALSE]

Init ==
  /\ tx = Unread /\ numItems = 0 /\ idx = 0 /\ shown = <<>> /\ status = "refused"
  /\ message = (CHOOSE m \in Message : TRUE) /\ meta = Ready /\ left = Nothing
  /\ received = 0

\* A transaction arrives and is read; the walk over its items may begin.
Receive(m) ==
  /\ status # "walking"
  /\ received < MaxMessages
  /\ m \in Before \/ received + 1 = MaxMessages
  /\ received' = received + 1
  /\ message' = m
  /\ meta' = MetaAfter(meta, m)
  /\ left' = LeftAfter(left, m)
  /\ idx' = 0 /\ shown' = <<>>
  /\ IF parser_parse(m)
     THEN /\ tx' = Parsed(m, meta, left)
          /\ numItems' = parser_getNumItems(tx')
          /\ status' = "walking"
     ELSE tx' = Unread /\ numItems' = 0 /\ status' = "refused"

Walk == Next /\ UNCHANGED <<message, meta, left, received>>

ReaderNext == Walk \/ \E m \in Message : Receive(m)

\* The loop over the items waits for nothing.
Spec == Init /\ [][ReaderNext]_readerVars /\ WF_readerVars(Walk)

-----------------------------------------------------------------------------
(* What the review says of the message: the keys that an item is made of.  *)

Versions == {"Consensus", "Runtime Host", "Runtime Committee"}

\* A negative allowance shows as a sign before the amount.
StakingSource(name) ==
  LET layout == Layout[tx.method]
      signed == One(message.body[1] = "negative")
      fields == {i \in DOMAIN layout : layout[i][2] = name}
  IN {message.body[i + signed] : i \in fields}
     \cup (IF signed = 1 /\ name = "Amount change" THEN {"negative"} ELSE {})

\* The hash of an EVM call's data is written to the field of an encrypted one,
\* and the review shows its own, which stays zero.
RuntimeSource(name) ==
  CASE name = "ParaTime"        -> {meta.runtime_id}
    [] name = "Shares"          -> {SharesEntry(message)}
    [] name \in {"To", "From"}  -> IF HasTo(message) THEN {message.body[1]} ELSE {}
    [] name = "Tx Hash"         -> IF tx.method = "Evm" THEN {} ELSE {"data"}
    [] OTHER                    -> {"amount"}

Source(name) ==
  IF tx.kind = "runtime" THEN RuntimeSource(name)
  ELSE IF name \in Versions THEN VersionRead(message.version)
  ELSE StakingSource(name)

\* The last item.  A hash as long as a genesis hash fits meta.chain_context too,
\* so that one is compared whatever the transaction is.
NetworkShown ==
  LET suffix == IF message.context = "meta" THEN "other" ELSE message.chain IN
  IF "mainnet" \in {suffix, meta.chain_context} THEN "mainnet"
  ELSE IF "testnet" \in {suffix, meta.chain_context} THEN "testnet"
  ELSE "other"

-----------------------------------------------------------------------------
(* The keys an item should be made of, by their names. *)

ItemNames ==
  Versions \cup {"To", "From", "Amount", "Shares", "Beneficiary", "Amount change",
                "Node ID", "Proposal ID", "Vote", "ParaTime", "Tx Hash"}

ItemKeys ==
  [name \in ItemNames |->
     CASE name = "To"            -> {"to", "account"}
       [] name = "From"          -> {"from", "account"}
       [] name = "Amount"        -> {"amount"}
       [] name = "Shares"        -> {"shares"}
       [] name = "Beneficiary"   -> {"beneficiary"}
       [] name = "Amount change" -> {"negative", "amount_change"}
       [] name = "Node ID"       -> {"node_id"}
       [] name = "Proposal ID"   -> {"id", "cancel_upgrade"}
       [] name = "Vote"          -> {"vote"}
       [] name = "ParaTime"      -> {"runtime_id"}
       [] name = "Tx Hash"       -> {"data"}
       [] OTHER                  -> {"major", "minor", "patch"}]

\* The map that an item is read from.
MapOf(name) ==
  CASE name = "ParaTime"  -> message.meta
    [] name \in Versions  -> Range(message.version)
    [] OTHER              -> Range(message.body)

\* An account is the address of an escrow; ParaTime transactions know no such key.
Sent(name) ==
  (ItemKeys[name] \ (IF tx.kind = "runtime" THEN {"account"} ELSE {})) \cap MapOf(name)

\* Where the reader depends on the order of keys without asking for it: the
\* address of a consensus call and the components of a version.  A context given
\* in full, not as metadata, says nothing of the ParaTime.
Canonical(m) ==
  LET address == IF m.method = "Undelegate" THEN "from" ELSE "to" IN
  /\ m.context # "runtime"
  /\ VersionRead(m.version) = Range(m.version)
  /\ m.method \in ConsensusMethods =>
       /\ \A i \in DOMAIN m.body :
            m.body[i] \in {"to", "from"} => i = 1 /\ m.body[1] = address
       /\ m.method = "Undelegate" => SharesEntry(m) = "shares"

Shown == {item[1] : item \in Range(shown)}

ReaderTypeOK ==
  /\ TypeOK
  /\ message \in AnyMessage
  /\ meta \in [chain_context : Chains \cup {"none"},
              runtime_id : {"zero", "stale", "runtime_id"}, has_orig_to : BOOLEAN]
  /\ left \in [method : TxMethods \cup {"none"}, n : Nat, m : Nat]
  /\ received \in 0..MaxMessages

\* No value is shown under another's name: every field of an accepted review is
\* made of the entries with the field's key, although bodies are read by position,
\* and none of them of an earlier transaction's.
ShownAsSent ==
  status = "ok" /\ Canonical(message) =>
    \A name \in (Shown \cap DOMAIN ItemKeys) \ {"Tx Hash"} :
      Source(name) = Sent(name)

\* Nothing of a consensus transaction's body is signed without having been shown
\* (the number of entries is compared, CHECK_CBOR_MAP_LEN); a deregistration's body
\* is not looked at, and lists have items of their own.
BodyShown ==
  status = "ok" /\ tx.kind = "tx" /\ tx.method # "Deregister" =>
    \A key \in Range(message.body)
             \ {"amendment", "signature", "untrusted_raw_value"} :
      \E name \in Shown : key \in Source(name)

\* A plain context leaves the method of an earlier transaction where it is counted.
CountsEarlier == message.context = "runtime" /\ TxCount(left) > 0

\* A transaction that was read, and of which no element is malformed, is accepted:
\* no counted item is missing, and whatever was read before makes no difference
\* to a transaction with metadata (_computeRuntimeSigContext, _read).
WellFormedAccepted ==
  status = "walking" /\ tx.bad = NoElement /\ ~CountsEarlier ~> status = "ok"

\* The network of a review is the one the transaction was made for
\* (tests/utils/testcases.cpp:1121, by the context's suffix alone).
NetworkIsSent ==
  status = "ok" /\ "Network" \in Shown => NetworkShown = message.chain
=============================================================================
