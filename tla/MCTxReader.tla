----------------------------- MODULE MCTxReader -----------------------------
(***************************************************************************)
(* TxReader on every kind of transaction: well formed, with lists from     *)
(* empty to the longest whose items a byte still counts, and with each key *)
(* missing, misplaced or bad in turn.                                      *)
(***************************************************************************)
EXTENDS TxReader

Blank ==
  [context |-> "tx", chain |-> "testnet", second |-> TRUE, meta |-> {},
   root |-> {"method", "fee", "nonce", "body"}, fee |-> {"gas", "amount"},
   ai |-> {}, call |-> {}, format |-> 0, method |-> "none", body |-> <<>>,
   inner |-> <<>>, target |-> <<>>, version |-> <<>>, entity |-> {},
   data |-> "other", n |-> 0, m |-> 0, bad |-> NoElement]

-----------------------------------------------------------------------------
(* Well-formed messages. *)

Staking(k) ==
  [Blank EXCEPT !.method = IF k \in {"Upgrade", "CancelUpgrade"}
                           THEN "SubmitProposal" ELSE k,
                !.body = KeysOf(Layout[k]),
                !.inner = IF k \in DOMAIN Inner THEN Inner[k] ELSE <<>>,
                !.target = IF k = "Upgrade" THEN Target ELSE <<>>,
                !.version = IF k = "Upgrade" THEN <<"major", "minor", "patch">>
                            ELSE <<>>,
                !.entity = IF k = "RegisterEntity" THEN {"v", "id", "nodes"} ELSE {}]

Stakings == {Staking(k) : k \in DOMAIN Layout} \cup {[Blank EXCEPT !.method = "Deregister"]}

NegativeAllow == [Staking("Allow") EXCEPT !.body = <<"negative">> \o @]

RuntimeBody ==
  [Deposit |-> <<"to", "amount">>, RuntimeTransfer |-> <<"to", "amount">>,
   RuntimeWithdraw |-> <<"to", "amount">>, Delegate |-> <<"to", "amount">>,
   Undelegate |-> <<"from", "shares">>, Call |-> <<"id", "data", "tokens">>,
   Instantiate |-> <<"code_id", "data", "tokens">>,
   ContractUpgrade |-> <<"id", "code_id", "data", "tokens">>,
   Encrypted |-> <<"pk", "nonce", "data">>, Evm |-> <<"address", "data">>]

Runtime(k) ==
  [Blank EXCEPT !.context = "meta", !.chain = "mainnet",
                !.meta = {"chain_context", "runtime_id"},
                !.root = {"v", "call", "ai"}, !.ai = {"fee", "si"},
                !.fee = {"gas", "amount", "consensus_messages"},
                !.call = IF k = "Encrypted" THEN {"body", "format"}
                         ELSE {"body", "method"},
                !.format = IF k = "Encrypted" THEN 1 ELSE 0,
                !.method = IF k = "Encrypted" THEN "none" ELSE k,
                !.body = RuntimeBody[k], !.data = "map"]

Runtimes == {Runtime(k) : k \in DOMAIN RuntimeBody}

Bare(k) == [Runtime(k) EXCEPT !.context = "runtime", !.meta = {}]

\* ParaTime transactions of a plain context, where an earlier method is counted.
Bares == {[Bare(k) EXCEPT !.n = n] : k \in DOMAIN RuntimeBody, n \in {0, 2, 121}}

Entity == [Blank EXCEPT !.context = "entity", !.root = {},
                        !.entity = {"v", "id", "nodes"}, !.n = 2]

Metadata(optional) ==
  [Blank EXCEPT !.context = "metadata", !.root = {"Version", "Serial"} \cup optional]

-----------------------------------------------------------------------------
(* Lists. *)

Bad(list, n) == {NoElement} \cup (IF n = 0 THEN {} ELSE {<<list, 1>>, <<list, n>>})

\* 124 rates and one bound make, with type, fee and network, 255 items.
Amendments ==
  {[Staking("Amend") EXCEPT !.n = l[1], !.m = l[2]] :
     l \in {<<0, 0>>, <<1, 0>>, <<0, 1>>, <<2, 3>>, <<124, 1>>}}
  \cup {[Staking("Amend") EXCEPT !.n = 3, !.m = 2, !.bad = b] :
          b \in Bad("Rate", 3) \cup Bad("Bound", 2)}

Entities ==
  {[e EXCEPT !.n = n, !.bad = b] : e \in {Entity, Staking("RegisterEntity")},
     n \in {0, 1, 2, MAX_ENTITY_NODES, MAX_ENTITY_NODES + 1},
     b \in Bad("Node", 2) \cup Bad("Node", MAX_ENTITY_NODES)}

\* 121 tokens with the contract's data put ParaTime of an upgrade at index 127,
\* the last that an int8_t holds.
Contracts ==
  {[Runtime(k) EXCEPT !.n = n, !.data = d, !.bad = b] :
     k \in {"Call", "Instantiate", "ContractUpgrade"}, n \in {0, 1, 2, 121},
     d \in {"map", "other"}, b \in Bad("Token", 2)}

Lists == Amendments \cup Entities \cup Contracts

-----------------------------------------------------------------------------
(* What a host may send instead. *)

\* One key of a map missing.
Without(m) ==
  {[m EXCEPT !.root = @ \ {k}] :
     k \in m.root \ (IF m.method = "Unfreeze" THEN {"fee"} ELSE {})}
  \cup {[m EXCEPT !.meta = @ \ {k}] : k \in m.meta}
  \cup {[m EXCEPT !.fee = @ \ {k}] : k \in m.fee}
  \cup {[m EXCEPT !.ai = @ \ {k}] : k \in m.ai}
  \cup {[m EXCEPT !.call = @ \ {k}] : k \in m.call}
  \cup {[m EXCEPT !.entity = @ \ {k}] : k \in m.entity}

\* The entries of a body in another order, one too many, one too few.
Rearranged(m) ==
  {[m EXCEPT !.body = Reverse(@)], [m EXCEPT !.body = Append(@, "memo")],
   [m EXCEPT !.body = <<"memo">> \o @], [m EXCEPT !.inner = Reverse(@)],
   [m EXCEPT !.target = Reverse(@)], [m EXCEPT !.version = Reverse(@)]}
  \cup (IF m.body = <<>> THEN {}
        ELSE {[m EXCEPT !.body = Tail(@)], [m EXCEPT !.body = Front(@)]})

\* One value of the wrong type or size.
Spoiled(m) ==
  {[m EXCEPT !.bad = <<k, 0>>] :
     k \in m.root \cup m.meta \cup m.entity \cup Range(m.body)
            \cup Range(m.inner) \cup Range(m.version) \cup m.call
            \cup {"fee amount", "gas", "To", "From", "Vote"}}

Variants(m) == {m} \cup Without(m) \cup Rearranged(m) \cup Spoiled(m)

Contexts ==
  {[Staking("Transfer") EXCEPT !.context = c, !.chain = h] :
     c \in {"tx", "runtime", "entity", "metadata", "other", "empty", "overlong",
            "unprintable"}, h \in Chains}
  \cup {[m EXCEPT !.second = FALSE] : m \in {Staking("Burn"), Runtime("Deposit")}}
  \cup {[Runtime("Deposit") EXCEPT !.chain = h] : h \in Chains}

Mapped(m) == [m EXCEPT !.meta = @ \cup {"orig_to"}]

Others ==
  {[Runtime(k) EXCEPT !.call = @ \cup {"format"}, !.format = f, !.n = 2] :
     k \in {"Evm", "Call"}, f \in {0, 1, 2}}
  \cup {[Runtime("Call") EXCEPT !.call = {"body", "format"}, !.format = 1,
                               !.body = <<"pk", "nonce", "data">>]}
  \cup {[Staking("Burn") EXCEPT !.method = "unknown"]}
  \cup {[Runtime("Deposit") EXCEPT !.meta = @ \cup {"to"}, !.body = b] :
          b \in {<<"amount">>, <<"amount", "account">>, <<"to", "amount">>}}

\* What leaves a method and lists that are counted again: consensus transactions
\* read to their end, refused on the way, and with lists that wrap the count of what
\* comes next; and a descriptor with a URL that reads as a method.
Leavings ==
  {Staking("Transfer"), Staking("CancelUpgrade"),
   [Staking("CancelUpgrade") EXCEPT !.bad = <<"proposal_id", 0>>],
   [Staking("RegisterEntity") EXCEPT !.n = MAX_ENTITY_NODES + 1],
   [Staking("Amend") EXCEPT !.n = 2, !.m = 3, !.bad = <<"bounds", 0>>],
   [Staking("Amend") EXCEPT !.n = 125, !.m = 1],
   [Metadata({"URL"}) EXCEPT !.method = "Burn", !.bad = <<"URL", 0>>]}

OrdinaryMessages ==
  Lists \cup Contexts \cup Others \cup Bares \cup Leavings
  \cup {Metadata(o) : o \in SUBSET Range(Optional)}
  \cup UNION {Variants(m) :
                m \in Stakings \cup Runtimes \cup {NegativeAllow}
                      \cup {Mapped(Runtime("Deposit")), Mapped(Runtime("Undelegate"))}}

\* What may have left something in the object: metadata whole and cut short, on
\* either network, with orig_to; consensus transactions; and what leaves all or part
\* of it alone.
Traces ==
  {[Runtime("Deposit") EXCEPT !.chain = h] : h \in Chains}
  \cup Without(Runtime("Deposit"))
  \cup {Mapped(Runtime("Deposit")), Bare("Deposit"), Entity, Metadata({"URL"})}
  \cup Leavings

\* An unfreezing without a fee.
UnfreezeMessages ==
  Stakings \cup Runtimes \cup {[Staking("Unfreeze") EXCEPT !.root = @ \ {"fee"}]}

\* ParaTime transactions of all kinds, and transfers on either network.
MixedMessages ==
  Stakings \cup Runtimes
  \cup {[Staking("Transfer") EXCEPT !.chain = h] : h \in Chains}
=============================================================================
