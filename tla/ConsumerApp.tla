---------------------------- MODULE ConsumerApp ----------------------------
(***************************************************************************)
(* The consumer build (APP_CONSUMER): Oasis transactions signed with       *)
(* ed25519, secp256k1 or sr25519, Ethereum transactions signed blind, and  *)
(* addresses, each shown to the user first.  One action per path through a *)
(* handler of apdu_handler.c and per button of the user.                   *)
(*                                                                         *)
(* A review stores what it shows when it starts; signing reads the buffer, *)
(* the path and parser_tx_obj when the user approves.                      *)
(***************************************************************************)
EXTENDS EthSession

CONSTANTS
  Chunk,         \* payloads the host sends
  Parse(_, _),   \* transaction type, buffer -> kind of transaction
  Scheme         \* Oasis signature schemes the host asks for

\* What a parse finds: nothing valid, a consensus transaction, a ParaTime
\* transaction, one that needs expert mode (a contract call, an encrypted or an
\* EVM call), either of these two after a plain context instead of the CBOR
\* metadata, or an Ethereum transaction.
Bare == {"bare", "bare contract"}

Kind == {"invalid", "consensus", "runtime", "contract", "eth"} \cup Bare

ASSUME ConsumerAssumption ==
  /\ Chunk \subseteq Seq(Unit)
  /\ \A c \in Chunk : Declared(c) \in Nat
  /\ Scheme \subseteq {"ed25519", "secp256k1", "sr25519"}
  /\ \A b \in Buffers :
       /\ Parse("oasis", b) \in Kind \ {"eth"}
       /\ Parse("eth", b) \in {"invalid", "eth"}

\* A buffer with an RLP header is no Oasis transaction: its first byte, read as
\* the length of the context, is at least 192 (or is 1 or 2).  The parser does
\* not enforce MAX_CONTEXT_SIZE, so this is about the contexts that exist.
ASSUME FormatsDisjoint ==
  \A b \in Buffers : Declared(b) # 0 => Parse("oasis", b) = "invalid"

VARIABLES
  blob_type,   \* parser_tx_obj.type, left by the last Oasis transaction parsed
  expert,      \* the expert mode setting
  ui,          \* what the user is asked
  waiting,     \* the host's command is unanswered
  reply,       \* the last answer
  first,       \* history: the last first packet, [type, path]
  sent,        \* history: the payload acknowledged since then
  sig          \* history: the signature the last step answered with, if any

app     == <<blob_type, expert, ui, waiting, reply>>
history == <<first, sent, sig>>
vars    == <<sessionVars, app, history>>

Screens == {"idle", "review", "address", "error"}

Show(screen, scheme, kind) ==
  [screen |-> screen, scheme |-> scheme, kind |-> kind,
   renderer |-> tx_type', shown |-> buffer']

Blank == [screen |-> "idle", scheme |-> "none", kind |-> "invalid",
          renderer |-> "oasis", shown |-> <<>>]

NoSig == [scheme |-> "none"]

\* An answer: its status word, and whether the bytes before it are what the
\* handler put there.
Answers(sw, body) == [sw |-> sw, body |-> body]

TypeOK ==
  /\ tx_initialized \in BOOLEAN
  /\ tx_type \in {"oasis", "eth"}
  /\ buffer \in Buffers
  /\ hdPath \in AnyPath \cup AnyEthPath
  /\ blob_type \in {"none", "consensus", "runtime"}
  /\ expert \in BOOLEAN
  /\ ui.screen \in Screens /\ ui.kind \in Kind /\ ui.shown \in Buffers
  /\ waiting \in BOOLEAN
  /\ reply.body \in {"intact", "overwritten"}
  /\ Len(sent) <= BufferSize + 1

Init ==
  /\ SessionInit
  /\ blob_type = "none"
  /\ expert \in BOOLEAN
  /\ ui = Blank
  /\ waiting = FALSE
  /\ reply = Answers("none", "intact")
  /\ first = [type |-> "none", path |-> NoPath]
  /\ sent = <<>>
  /\ sig = NoSig

-----------------------------------------------------------------------------
Ready == ~waiting

\* A command that is answered at once.
Answer(sw) ==
  /\ waiting' = FALSE
  /\ reply' = Answers(sw, "intact")
  /\ UNCHANGED ui

\* Mutant: IO_ASYNCH_REPLY is not set, so the host goes on during the review.
AskWithoutFlag(screen, scheme, kind) ==
  /\ waiting' = FALSE
  /\ ui' = Show(screen, scheme, kind)
  /\ reply' = Answers("none", "intact")

\* IO_ASYNCH_REPLY: the user answers.
Ask(screen, scheme, kind) ==
  /\ waiting' = TRUE
  /\ ui' = Show(screen, scheme, kind)
  /\ reply' = Answers("none", "intact")

\* What the host was told has been taken, capped one unit above the buffer.
Acknowledge(c) == sent' = Take(sent \o c, BufferSize + 1)

-----------------------------------------------------------------------------
\* Oasis commands that stop in process_chunk.
Command(sessionStep, sw) ==
  /\ Ready
  /\ sessionStep
  /\ Answer(sw)
  /\ sig' = NoSig
  /\ UNCHANGED <<blob_type, expert>>

SignInit(p) ==
  /\ Command(ChunkInit(p), PathCode(p))
  /\ first' = [type |-> "oasis", path |-> p]
  /\ sent' = <<>>

SignAdd(c) ==
  /\ Command(ChunkAppend(c), "OK")
  /\ Acknowledge(c)
  /\ UNCHANGED first

SignOverflow(c) ==
  /\ Command(ChunkOverflow(c), "OUTPUT_BUFFER_TOO_SMALL")
  /\ UNCHANGED <<first, sent>>

SignUninitialized ==
  /\ Command(ChunkUninitialized, "TX_NOT_INITIALIZED")
  /\ UNCHANGED <<first, sent>>

SignBadParameter ==
  /\ Command(ChunkBadP1, "INVALIDP1P2") \/ Command(ChunkBadP2, "INVALIDP1P2")
  /\ UNCHANGED <<first, sent>>

\* Ethereum commands that do not complete a transaction.
EthPart(p, c) ==
  /\ ~EthFirstComplete(p, c)
  /\ Command(EthFirst(p, c), EthFirstCode(p, c))
  /\ first' = [type |-> "eth", path |-> p]
  /\ sent' = IF EthFirstCode(p, c) = "OK" THEN Take(c, BufferSize + 1) ELSE <<>>

EthMorePart(c) ==
  /\ ~EthMoreComplete(c)
  /\ Command(EthMore(c), EthMoreCode(c))
  /\ IF EthMoreCode(c) = "OK" THEN Acknowledge(c) ELSE UNCHANGED sent
  /\ UNCHANGED first

EthRefused ==
  /\ Command(EthBadP, "INVALIDP1P2")
  /\ UNCHANGED <<first, sent>>

-----------------------------------------------------------------------------
\* tx_parse on the collected buffer.  An Oasis transaction leaves its type in
\* parser_tx_obj, an Ethereum one leaves parser_tx_obj alone; so does an invalid
\* one, or it leaves any type it got to.
Parsed == Parse(tx_type', buffer')

\* Mutant: a consensus transaction leaves the type of an earlier one.
TxParseKeepsType ==
  blob_type' \in
    IF tx_type' = "eth" \/ Parsed = "consensus" THEN {blob_type}
    ELSE IF Parsed = "invalid" THEN {blob_type, "consensus", "runtime"}
    ELSE {"runtime"}

TxParse ==
  blob_type' \in
    IF tx_type' = "eth" THEN {blob_type}
    ELSE IF Parsed = "invalid" THEN {blob_type, "consensus", "runtime"}
    ELSE IF Parsed = "consensus" THEN {"consensus"}
    ELSE {"runtime"}

\* parser_parse asks for expert mode after the reading, before the items are counted.
NeedsExpert == Parsed \in {"contract", "bare contract"} /\ ~expert

\* handleSignEd25519, handleSignSecp256k1, handleSignSr25519 on the last chunk.  A
\* bare transaction is accepted or not: _getNumItems reads the method of an earlier
\* transaction in the union, and parser_validate refuses items that do not exist.
Last(scheme, c) ==
  /\ Ready
  /\ ChunkAppend(c)
  /\ Acknowledge(c)
  /\ TxParse
  /\ \/ /\ Parsed \in {"invalid"} \cup Bare /\ ~NeedsExpert
        /\ Answer("DATA_INVALID")
     \/ NeedsExpert /\ Ask("error", "none", Parsed)
     \/ /\ Parsed # "invalid" /\ ~NeedsExpert
        /\ Ask("review", scheme, Parsed)
  /\ sig' = NoSig
  /\ UNCHANGED <<expert, first>>

\* handleSignEth on a complete transaction, whatever tx_type says it is.
EthComplete ==
  /\ TxParse
  /\ \/ (Parsed = "invalid" \/ NeedsExpert) /\ Answer("DATA_INVALID")
     \/ Parsed # "invalid" /\ ~NeedsExpert /\ Ask("review", "eth", Parsed)
  /\ sig' = NoSig
  /\ UNCHANGED expert

EthLastFirst(p, c) ==
  /\ Ready
  /\ EthFirstComplete(p, c)
  /\ EthFirst(p, c)
  /\ first' = [type |-> "eth", path |-> p]
  /\ sent' = Take(c, BufferSize + 1)
  /\ EthComplete

EthLastMore(c) ==
  /\ Ready
  /\ EthMoreComplete(c)
  /\ EthMore(c)
  /\ Acknowledge(c)
  /\ UNCHANGED first
  /\ EthComplete

-----------------------------------------------------------------------------
\* handleGetAddr.
GetAddr(p) ==
  /\ Ready
  /\ extractHDPath(p)
  /\ sig' = NoSig
  /\ UNCHANGED <<tx_initialized, tx_type, buffer, blob_type, expert, first, sent>>
  /\ IF p \in Path
     THEN Answer("OK") \/ Answer("EXECUTION_ERROR") \/ Ask("address", "none", "invalid")
     ELSE Answer(PathCode(p))

\* handleGetEthAddr.  INS_GET_ADDR_ETH is also INS_SIGN_ED25519: when the user
\* is asked, handleApdu goes on to handleSignEd25519, which stops in
\* process_chunk with an error, and the error's status word is written over the
\* first two bytes of the answer that waits for the user.
GetEthAddr(p) ==
  /\ Ready
  /\ extract_eth_path(p)
  /\ tx_initialized' = FALSE
  /\ sig' = NoSig
  /\ UNCHANGED <<tx_type, buffer, blob_type, expert, first, sent>>
  /\ IF p \in EthPath
     THEN \/ Answer("OK") \/ Answer("EXECUTION_ERROR") \/ Answer("INVALIDP1P2")
          \/ /\ waiting' = TRUE
             /\ ui' = Show("address", "eth", "invalid")
             /\ reply' = Answers("none", "overwritten")
     ELSE Answer(EthPathCode(p))

-----------------------------------------------------------------------------
\* What the digest covers: crypto_getBytesToSign looks at parser_tx_obj.type,
\* crypto_getSr25519BytesToSign at nothing; both take the length of the metadata
\* from the union, where it is this transaction's only if this one had metadata.
Covers(scheme) ==
  CASE scheme = "eth" -> "all"
    [] scheme # "sr25519" /\ blob_type # "runtime" -> "all"
    [] OTHER -> IF ui.kind \in {"runtime", "contract"}
                THEN "after metadata"
                ELSE "after a stale length"

UserAnswer(sw, body) ==
  /\ waiting' = FALSE
  /\ ui' = Blank
  /\ reply' = Answers(sw, body)

\* app_sign_ed25519, app_sign_secp256k1, app_sign_sr25519, app_sign_eth.  The
\* operating system derives no key for the zeroed path (app/Makefile:57).
Approve ==
  /\ ui.screen = "review"
  /\ \/ /\ hdPath # NoPath
        /\ UserAnswer("OK", "intact")
        /\ sig' = [scheme |-> ui.scheme, kind |-> ui.kind, renderer |-> ui.renderer,
                   message |-> buffer, path |-> hdPath,
                   covers |-> Covers(ui.scheme), sent |-> sent]
     \/ UserAnswer("SIGN_VERIFY_ERROR", "intact") /\ sig' = NoSig
  /\ UNCHANGED <<sessionVars, blob_type, expert, first, sent>>

\* app_reply_address
ApproveAddress ==
  /\ ui.screen = "address"
  /\ UserAnswer("OK", reply.body)
  /\ UNCHANGED <<sessionVars, blob_type, expert, history>>

\* app_reject; app_reply_error for the error screen.
Dismiss ==
  /\ ui.screen # "idle"
  /\ UserAnswer(IF ui.screen = "error" THEN "DATA_INVALID" ELSE "COMMAND_NOT_ALLOWED",
                "intact")
  /\ UNCHANGED <<sessionVars, blob_type, expert, history>>

\* The settings can be reached when nothing is shown.
ToggleExpert ==
  /\ ui.screen = "idle"
  /\ expert' = ~expert
  /\ UNCHANGED <<sessionVars, blob_type, ui, waiting, reply, history>>

-----------------------------------------------------------------------------
HostCommand ==
  \/ \E p \in AnyPath : SignInit(p) \/ GetAddr(p)
  \/ \E c \in Chunk :
       \/ SignAdd(c) \/ SignOverflow(c) \/ EthMorePart(c) \/ EthLastMore(c)
       \/ \E s \in Scheme : Last(s, c)
       \/ \E p \in AnyEthPath : EthPart(p, c) \/ EthLastFirst(p, c)
  \/ \E p \in AnyEthPath : GetEthAddr(p)
  \/ SignUninitialized \/ SignBadParameter \/ EthRefused

User == Approve \/ ApproveAddress \/ Dismiss \/ ToggleExpert

Next == HostCommand \/ User

Spec == Init /\ [][Next]_vars

-----------------------------------------------------------------------------
Signed == sig # NoSig

\* What the user sees is what an approval would sign, in the form the parser
\* gave it: no command gets at the buffer or the transaction type during a
\* review (view_review_init in the sign handlers, app_sign_*).
ReviewIsCurrent ==
  ui.screen = "review" =>
    /\ ui.shown = buffer
    /\ ui.renderer = tx_type
    /\ ui.kind = Parse(tx_type, buffer)

\* A signed Oasis transaction consists of all the payload the host was told has
\* been taken since the first packet, in order: no chunk of another session, and
\* none lost, whatever commands of either protocol came between.
OasisSignsAllSent ==
  Signed /\ sig.renderer = "oasis" => sig.message = sig.sent

\* An Ethereum signature is over exactly one transaction of the declared length,
\* parsed as such, although Oasis chunks go to the same buffer and the missing
\* length is computed with unsigned numbers (process_chunk_eth).
EthSignsOneTransaction ==
  Signed /\ sig.scheme = "eth" =>
    /\ sig.renderer = "eth"
    /\ Declared(sig.message) = Len(sig.message)

\* For an Oasis transaction the digest follows the kind that was shown, although
\* crypto_getBytesToSign reads it from a global any earlier parse has written.
DigestFollowsKind ==
  Signed /\ sig.renderer = "oasis" /\ sig.scheme \in {"ed25519", "secp256k1"} =>
    /\ sig.kind = "consensus" => sig.covers = "all"
    /\ sig.kind \in {"runtime", "contract"} => sig.covers = "after metadata"

\* An address the user has approved reaches the host as it was computed: the
\* first byte is the length of the public key (crypto.c:568-589).
AddressArrives == reply.sw = "OK" => reply.body = "intact"
=============================================================================
