---------------------------- MODULE ReviewItems ----------------------------
(***************************************************************************)
(* The items of an Oasis review in the consumer build: how many there are  *)
(* (_getNumItems), which one an index shows (parser_getItem), and the loop *)
(* of parser_validate that reads each once before a review may start.      *)
(*                                                                         *)
(* An item is a key and, in a list, a position: <<"Node", 2>>.             *)
(***************************************************************************)
EXTENDS Naturals, Integers, FiniteSets, SequencesExt

VARIABLES
  tx,         \* parser_tx_obj, a record of AnyTx
  numItems,   \* parser_getNumItems
  idx,        \* the loop's index
  shown,      \* the items read so far
  status      \* "walking", "ok", "refused"

vars == <<tx, numItems, idx, shown, status>>

-----------------------------------------------------------------------------
(* Transactions.  `n` is the length of the list of rates, nodes or tokens, *)
(* `m` of the list of bounds, `bad` names a malformed element of a list or *)
(* a value that its item refuses.  `stale` counts the items of the method  *)
(* that an earlier consensus transaction left in the union.                *)

TxMethods ==
  {"Transfer", "Burn", "Withdraw", "Allow", "Escrow", "ReclaimEscrow", "Amend",
   "Deregister", "Unfreeze", "RegisterEntity", "CastVote", "Upgrade",
   "CancelUpgrade"}

ConsensusMethods == {"Deposit", "RuntimeTransfer", "RuntimeWithdraw", "Delegate",
                     "Undelegate"}

ContractMethods == {"Call", "Instantiate", "ContractUpgrade"}

RuntimeMethods == ConsensusMethods \cup ContractMethods \cup {"Encrypted", "Evm"}

Optional == <<"Name", "URL", "Email", "Keybase", "Twitter">>

NoElement == <<"none", 0>>

AnyTx ==
  [kind : {"tx", "entity", "metadata", "runtime"},
   method : TxMethods \cup RuntimeMethods \cup {"none"},
   has_fee : BOOLEAN, n : Nat, m : Nat, stale : Nat, dataValid : BOOLEAN,
   optional : SUBSET Range(Optional),
   bad : {"none", "Rate", "Bound", "Node", "Token", "To", "From", "Vote"} \X Nat]

\* matchPrefix: these contexts go on after their prefix, the others must not.
HasSuffix(t) == t.kind \in {"tx", "runtime"}

-----------------------------------------------------------------------------
(* How many items there are. *)

One(c) == IF c THEN 1 ELSE 0

\* The switch over v->oasis.tx.method.
TxCount(t) ==
  CASE t.method \in {"Burn", "Unfreeze"} -> 1
    [] t.method \in {"Transfer", "Withdraw", "Allow", "Escrow", "ReclaimEscrow",
                     "CastVote", "CancelUpgrade"} -> 2
    [] t.method = "Upgrade"        -> 6
    [] t.method = "Amend"          -> 2 * t.n + 3 * t.m
    [] t.method = "RegisterEntity" -> 1 + t.n
    [] OTHER                       -> 0

\* Mutant of RuntimeCount: the data of a contract call is not counted.
RuntimeCountNoData(t) ==
  CASE t.method \in ConsensusMethods -> 3
    [] t.method = "ContractUpgrade"  -> 3 + t.n
    [] t.method = "Encrypted"        -> 5
    [] t.method = "Evm"              -> 4
    [] OTHER                         -> 2 + t.n

\* The switch over v->oasis.runtime.call.method.
RuntimeCount(t) ==
  CASE t.method \in ConsensusMethods -> 3
    [] t.method = "ContractUpgrade"  -> 3 + t.n + One(t.dataValid)
    [] t.method = "Encrypted"        -> 5
    [] t.method = "Evm"              -> 4
    [] OTHER                         -> 2 + t.n + One(t.dataValid)

\* A uint8_t.  A ParaTime transaction also passes the switch over
\* v->oasis.tx.method, with what lies there in the union.
_getNumItems(t) ==
  CASE t.kind = "entity"   -> (2 + t.n) % 256
    [] t.kind = "metadata" -> 3 + Cardinality(t.optional)
    [] t.kind = "tx"       -> ((IF t.has_fee THEN 3 ELSE 1) + TxCount(t)) % 256
    [] OTHER               -> (3 + t.stale + RuntimeCount(t)) % 256

parser_getNumItems(t) == (_getNumItems(t) + One(HasSuffix(t))) % 256

-----------------------------------------------------------------------------
(* Which item an index shows. *)

\* The index becomes an int8_t on its way.
Signed8(i) == IF i % 256 < 128 THEN i % 256 ELSE (i % 256) - 256

Item(key) == <<key, 0>>

NoItem == Item("none")

Named(keys) == [i \in DOMAIN keys |-> Item(keys[i])]

\* A list of n elements, each shown with these keys.
Elements(keys, n) ==
  [i \in 1..(n * Len(keys)) |->
     <<keys[((i - 1) % Len(keys)) + 1], ((i - 1) \div Len(keys)) + 1>>]

At(items, i) == IF i + 1 \in DOMAIN items THEN items[i + 1] ELSE NoItem

FeeItems == Named(<<"Fee", "Gas limit">>)

StakingKeys ==
  [Transfer |-> <<"Type", "To", "Amount">>,
   Burn     |-> <<"Type", "Amount">>,
   Withdraw |-> <<"Type", "From", "Amount">>,
   Allow    |-> <<"Type", "Beneficiary", "Amount change">>]

EscrowKeys ==
  [Escrow        |-> <<"Type", "To", "Amount">>,
   ReclaimEscrow |-> <<"Type", "From", "Shares">>]

GovernanceKeys ==
  [CastVote      |-> <<"Type", "Proposal ID", "Vote">>,
   CancelUpgrade |-> <<"Type", "Kind", "Proposal ID">>,
   Upgrade       |-> <<"Type", "Kind", "Handler", "Consensus", "Runtime Host",
                       "Runtime Committee", "Epoch">>]

EntityItems(t) == Named(<<"ID">>) \o Elements(<<"Node">>, t.n)

AmendItems(t) ==
  Named(<<"Type">>) \o Elements(<<"Rates: start", "Rates: rate">>, t.n)
  \o Elements(<<"Bounds: start", "Bounds: min", "Bounds: max">>, t.m) \o FeeItems

RegistryItems(t) ==
  CASE t.method = "Deregister" -> Named(<<"Type">>) \o FeeItems
    [] t.method = "Unfreeze"   -> Named(<<"Type">>) \o FeeItems \o Named(<<"Node ID">>)
    [] OTHER -> Named(<<"Type">>) \o EntityItems(t) \o FeeItems

\* The switch of parser_getItemTx.
TxItems(t) ==
  CASE t.method \in DOMAIN StakingKeys    -> Named(StakingKeys[t.method]) \o FeeItems
    [] t.method \in DOMAIN EscrowKeys     -> Named(EscrowKeys[t.method]) \o FeeItems
    [] t.method \in DOMAIN GovernanceKeys ->
         Named(GovernanceKeys[t.method]) \o FeeItems
    [] t.method = "Amend"                 -> AmendItems(t)
    [] OTHER                              -> RegistryItems(t)

\* parser_getItemEntityMetadata: the first field present that is not behind the
\* index, the absent fields before it being skipped; the last is not bounded.
MetadataItem(t, i) ==
  LET Absent(k) == Cardinality({j \in 1..(k - 1) : Optional[j] \notin t.optional})
      fits == {k \in 1..5 : /\ Optional[k] \in t.optional
                            /\ k = 5 \/ i + Absent(k) < 2 + k}
  IN IF i = 0 THEN Item("Version")
     ELSE IF i = 1 THEN Item("Serial")
     ELSE IF fits = {} THEN NoItem
     ELSE Item(Optional[CHOOSE k \in fits : \A j \in fits : k <= j])

RuntimeFeeItems == FeeItems \o Named(<<"ParaTime">>)

ConsensusItems(t) ==
  Named(IF t.method = "Undelegate" THEN <<"Type", "From", "Shares">>
                                   ELSE <<"Type", "To", "Amount">>)
  \o RuntimeFeeItems

EncryptedItems ==
  Named(<<"Review Encrypted", "Warning!", "Tx Hash", "Pubkey", "Nonce">>)
  \o RuntimeFeeItems

EvmItems ==
  Named(<<"Review Contract", "Warning!", "Tx Hash", "Address">>) \o RuntimeFeeItems

\* Contracts, where a list of tokens lies between items at fixed places.  The
\* index of a token is cut to a byte again.
ContractItem(t, i, common) ==
  LET head == IF t.method = "Instantiate"
              THEN Named(<<"Review Contract", "Code ID">>)
              ELSE Named(<<"Review Contract", "Instance ID">>)
      offset == 2 + One(t.dataValid)
      tokens == t.n % 256
  IN IF i \in {0, 1} THEN head[i + 1]
     ELSE IF t.dataValid /\ i = 2 THEN Item("Data")
     ELSE IF i < offset + tokens THEN <<"Token", ((i - offset) % 256) + 1>>
     ELSE At(common, (i - (offset + tokens)) % 256)

UpgradeItem(t, i) == ContractItem(t, i, Named(<<"New Code ID">>) \o RuntimeFeeItems)

\* The switch of parser_getItemRuntime.
RuntimeItem(t, i) ==
  CASE t.method \in ConsensusMethods  -> At(ConsensusItems(t), i)
    [] t.method = "Encrypted"         -> At(EncryptedItems, i)
    [] t.method = "Evm"               -> At(EvmItems, i)
    [] t.method = "ContractUpgrade"   -> UpgradeItem(t, i)
    [] OTHER                          -> ContractItem(t, i, RuntimeFeeItems)

\* parser_getItemOasis: the network comes last.
parser_getItem(t, i, count) ==
  IF i >= count THEN NoItem
  ELSE IF HasSuffix(t) /\ i + 1 = count THEN Item("Network")
  ELSE IF t.kind = "tx"
       THEN At(TxItems(t), IF t.method = "Amend" THEN i ELSE Signed8(i))
  ELSE IF t.kind = "runtime" THEN RuntimeItem(t, Signed8(i))
  ELSE IF i = 0 THEN Item("Sign")
  ELSE IF t.kind = "entity" THEN At(EntityItems(t), i - 1)
  ELSE MetadataItem(t, i - 1)

\* What an item may fail on: the list element it is read from, the account that
\* orig_to must map to (parser_ethMapNative), a vote other than 1, 2 or 3.
Element(item) ==
  CASE item[1] \in {"Rates: start", "Rates: rate"} -> <<"Rate", item[2]>>
    [] item[1] \in {"Bounds: start", "Bounds: min", "Bounds: max"} ->
         <<"Bound", item[2]>>
    [] item[1] \in {"Node", "Token", "To", "From", "Vote"} -> item
    [] OTHER -> NoElement

\* Whether the element is there and well formed.
Readable(t, item) ==
  LET e == Element(item) IN
  e # NoElement => e # t.bad /\ e[2] <= (IF e[1] = "Bound" THEN t.m ELSE t.n)

-----------------------------------------------------------------------------
(* The loop of parser_validate. *)

Walking == status = "walking" /\ idx < numItems

Current == parser_getItem(tx, idx, numItems)

\* Mutant of Shows: whether an element can be read is never asked.
ShowsUnread == Current # NoItem

\* An item that cannot be read is an error, but for a token: what
\* _getTokenAtIndex returns is not looked at, and the display formats what the
\* token's memory holds, or fails to.
Shows == Current # NoItem /\ (Readable(tx, Current) \/ Current[1] = "Token")

Fails == Current = NoItem \/ ~Readable(tx, Current)

\* Mutant of ShowItem: the index stays.
ShowItemAgain ==
  /\ Walking
  /\ Shows
  /\ shown' = Append(shown, Current)
  /\ UNCHANGED <<tx, numItems, idx, status>>

ShowItem ==
  /\ Walking
  /\ Shows
  /\ shown' = Append(shown, Current)
  /\ idx' = (idx + 1) % 256
  /\ UNCHANGED <<tx, numItems, status>>

Refuse ==
  /\ Walking
  /\ Fails
  /\ status' = "refused"
  /\ UNCHANGED <<tx, numItems, idx, shown>>

Accept ==
  /\ status = "walking"
  /\ idx >= numItems
  /\ status' = "ok"
  /\ UNCHANGED <<tx, numItems, idx, shown>>

Next == ShowItem \/ Refuse \/ Accept

-----------------------------------------------------------------------------
(* What a review should show: the fields of the transaction as             *)
(* parser_txdef_con.h declares them, the fee when there is one.            *)

MethodFields ==
  [Transfer |-> {"To", "Amount"}, Burn |-> {"Amount"},
   Withdraw |-> {"From", "Amount"}, Allow |-> {"Beneficiary", "Amount change"},
   Escrow |-> {"To", "Amount"}, ReclaimEscrow |-> {"From", "Shares"},
   Amend |-> {}, Deregister |-> {}, Unfreeze |-> {"Node ID"},
   RegisterEntity |-> {"ID"}, CastVote |-> {"Proposal ID", "Vote"},
   Upgrade |-> {"Kind", "Handler", "Consensus", "Runtime Host",
                "Runtime Committee", "Epoch"},
   CancelUpgrade |-> {"Kind", "Proposal ID"},
   Deposit |-> {"To", "Amount"}, RuntimeTransfer |-> {"To", "Amount"},
   RuntimeWithdraw |-> {"To", "Amount"}, Delegate |-> {"To", "Amount"},
   Undelegate |-> {"From", "Shares"}, Call |-> {"Instance ID"},
   Instantiate |-> {"Code ID"}, ContractUpgrade |-> {"Instance ID", "New Code ID"},
   Encrypted |-> {"Warning!", "Tx Hash", "Pubkey", "Nonce"},
   Evm |-> {"Warning!", "Tx Hash", "Address"}]

Title(t) ==
  IF t.kind \in {"entity", "metadata"} THEN "Sign"
  ELSE IF t.method = "Encrypted" THEN "Review Encrypted"
  ELSE IF t.method \in ContractMethods \cup {"Evm"} THEN "Review Contract"
  ELSE "Type"

ElementItems(t) ==
  IF t.method = "Amend"
  THEN ({"Rates: start", "Rates: rate"} \X (1..t.n))
       \cup ({"Bounds: start", "Bounds: min", "Bounds: max"} \X (1..t.m))
  ELSE IF t.kind = "entity" \/ t.method = "RegisterEntity" THEN {"Node"} \X (1..t.n)
  ELSE IF t.method \in ContractMethods THEN {"Token"} \X (1..t.n)
  ELSE {}

Content(t) ==
  LET fields ==
        CASE t.kind = "entity"   -> {"ID"}
          [] t.kind = "metadata" -> {"Version", "Serial"} \cup t.optional
          [] OTHER -> MethodFields[t.method] \cup {"Network"}
      fee == IF t.kind = "runtime" THEN {"Fee", "Gas limit", "ParaTime"}
             ELSE IF t.kind = "tx" /\ t.has_fee THEN {"Fee", "Gas limit"}
             ELSE {}
      data == IF t.kind = "runtime" /\ t.dataValid THEN {"Data"} ELSE {}
  IN {Item(k) : k \in {Title(t)} \cup fields \cup fee \cup data}
     \cup ElementItems(t)

\* What is counted fits the uint8_t of the count and, where the items of a ParaTime
\* transaction are chosen, the int8_t of the index.
ItemsFit(t) ==
  /\ t.kind = "tx" => TxCount(t) <= 251
  /\ t.kind = "runtime" => RuntimeCount(t) + t.stale <= 125

TypeOK ==
  /\ tx \in AnyTx
  /\ numItems \in 0..255
  /\ status \in {"walking", "ok", "refused"}
  /\ idx = Len(shown)
  /\ idx <= numItems

\* A transaction that passes parser_validate shows each of its fields exactly
\* once, and nothing else: the count and the switches over the index, kept in
\* two files, agree ("check that all can be shown", parser_consumer.c:98).  Where
\* the count also has items of an earlier transaction, none passes.  What does not
\* fit is left out: a count that wraps hides items.
AllShown ==
  status = "ok" /\ ItemsFit(tx) =>
    /\ Range(shown) = Content(tx)
    /\ Len(shown) = Cardinality(Content(tx))

\* No transaction passes with a list element that cannot be read, a destination
\* that its orig_to does not map to or an unknown vote ("and are valid",
\* parser_consumer.c:98).  Tokens are not looked at (parser_consumer.c:840).
MalformedRefused ==
  status = "ok" => \A item \in Range(shown) : item[1] # "Token" => Readable(tx, item)
=============================================================================
