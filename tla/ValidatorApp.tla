---------------------------- MODULE ValidatorApp ----------------------------
(***************************************************************************)
(* The validator build (APP_VALIDATOR): the host feeds a transaction in    *)
(* chunks, the device parses it and, for a consensus vote, either shows it *)
(* to the operator (the first vote after power on) or lets the vote state  *)
(* machine decide.  One action per path through handleSignEd25519,         *)
(* handleSignSecp256k1/Sr25519, handleGetAddr, the Ethereum commands (this *)
(* build accepts them too) and the operator's buttons.                     *)
(*                                                                         *)
(* The transport is half duplex: the SDK accepts no command while one is   *)
(* unanswered.  The vote's bytes are read by Parse, a parameter: the proofs*)
(* use only the type of its result.                                        *)
(***************************************************************************)
EXTENDS Votes, EthSession

CONSTANTS
  Chunk,        \* payloads the host sends
  Parse(_),     \* parser_parse: buffer -> [err, type, vote]
  SignIns,      \* the signing instructions the host uses
  Cautious,     \* TRUE: the operator never confirms a vote older than a signed one
  MaxRestart    \* bound on the number of restarts

\* What a parse can tell: whether it failed, the kind of context, the raw vote.
ParseResult ==
  [err : BOOLEAN, type : {"none", "consensus", "node"}, vote : RawVote]

ASSUME ValidatorAssumption ==
  /\ Chunk \subseteq Seq(Unit)
  /\ \A c \in Chunk : Declared(c) \in Nat
  /\ \A b \in Buffers :
       /\ Parse(b) \in ParseResult
       /\ ~Parse(b).err => Parse(b).type # "none"
  /\ SignIns \subseteq {"ed25519", "secp256k1", "sr25519"}
  /\ Cautious \in BOOLEAN
  /\ MaxRestart \in Nat

VARIABLES
  parser_tx_obj,  \* the last parsed transaction
  vote,           \* the vote parser_validate released, NoVote otherwise
  vote_state,     \* the vote state machine
  ui,             \* what the operator is asked: a vote, an address, or nothing
  waiting,        \* the host's command is unanswered
  reply,          \* status word of the last answer
  signed,         \* signatures of votes issued since power on
  past,           \* signatures of votes issued in earlier power cycles
  restarts        \* restarts so far

guard == <<parser_tx_obj, vote, vote_state>>
link  == <<ui, waiting, reply>>
history == <<signed, past, restarts>>
vars  == <<sessionVars, guard, link, history>>

Idle == [screen |-> "idle", shown |-> NoVote]

Screen ==
  {Idle} \cup [screen : {"address"}, shown : {NoVote}]
         \cup [screen : {"vote"}, shown : Vote]

Code == {"none", "OK", "DATA_INVALID", "WRONG_LENGTH", "INVALIDP1P2",
         "TX_NOT_INITIALIZED", "OUTPUT_BUFFER_TOO_SMALL", "SIGN_VERIFY_ERROR",
         "CONDITIONS_NOT_SATISFIED", "COMMAND_NOT_ALLOWED", "EXECUTION_ERROR"}

\* crypto_getBytesToSign: its body is compiled for the consumer only, so the
\* caller's zeroed digest stays as it is; <<>> stands for it.
crypto_getBytesToSign(m) == <<>>

\* A signature of a vote: the vote the guard judged, the bytes in the buffer
\* and the digest that was signed.
Signature == [vote : Vote, message : Buffers, digest : {<<>>} \cup Buffers]

TypeOK ==
  /\ SessionTypeOK
  /\ parser_tx_obj \in [type : {"none", "consensus", "node"}, vote : RawVote]
  /\ vote \in Vote \cup {NoVote}
  /\ vote_state \in [isInitialized : BOOLEAN, vote : Vote \cup {NoVote}]
  /\ ui \in Screen
  /\ waiting \in BOOLEAN
  /\ reply \in Code
  /\ signed \subseteq Signature
  /\ past \subseteq Signature
  /\ restarts \in 0..MaxRestart

Init ==
  /\ SessionInit
  /\ parser_tx_obj = [type |-> "none", vote |-> NoVote]
  /\ vote = NoVote
  /\ vote_state = [isInitialized |-> FALSE, vote |-> NoVote]
  /\ ui = Idle
  /\ waiting = FALSE
  /\ reply = "none"
  /\ signed = {}
  /\ past = {}
  /\ restarts = 0

-----------------------------------------------------------------------------
\* The next command is taken when the previous one has been answered.
Ready == ~waiting

Answer(sw) ==
  /\ waiting' = FALSE
  /\ ui' = Idle
  /\ reply' = sw

\* IO_ASYNCH_REPLY: the answer is left to the operator.
Ask(screen, v) ==
  /\ waiting' = TRUE
  /\ ui' = [screen |-> screen, shown |-> v]
  /\ UNCHANGED reply

-----------------------------------------------------------------------------
\* Commands that stop in process_chunk.
Refused(chunkStep, sw) ==
  /\ Ready
  /\ chunkStep
  /\ Answer(sw)
  /\ UNCHANGED <<guard, signed, past, restarts>>

SignInit(p)       == Refused(ChunkInit(p), PathCode(p))
SignAdd(c)        == Refused(ChunkAppend(c), "OK")
SignOverflow(c)   == Refused(ChunkOverflow(c), "OUTPUT_BUFFER_TOO_SMALL")
SignUninitialized == Refused(ChunkUninitialized, "TX_NOT_INITIALIZED")
SignBadP1         == Refused(ChunkBadP1, "INVALIDP1P2")
SignBadP2         == Refused(ChunkBadP2, "INVALIDP1P2")

\* Ethereum packets that do not complete a transaction.
EthPart(p, c) == /\ ~EthFirstComplete(p, c)
                 /\ Refused(EthFirst(p, c), EthFirstCode(p, c))
EthMorePart(c) == /\ ~EthMoreComplete(c)
                  /\ Refused(EthMore(c), EthMoreCode(c))
EthRefused     == Refused(EthBadP, "INVALIDP1P2")

-----------------------------------------------------------------------------
\* parser_parse overwrites of parser_tx_obj what it gets to: an unknown context
\* leaves the previous type and vote, a node message the previous vote.
Parsed(p) ==
  [type |-> IF p.type = "none" THEN parser_tx_obj.type ELSE p.type,
   vote |-> IF p.type = "consensus" THEN p.vote ELSE parser_tx_obj.vote]

\* Mutants of TxParse: height and round are released swapped; `vote` is left
\* alone once it is set.
TxParseSwapped(m) ==
  LET p == Parse(m) IN
  /\ parser_tx_obj' = Parsed(p)
  /\ vote' = IF p.err \/ p.type = "node" THEN vote
             ELSE IF Acceptable(p.vote)
             THEN [Type |-> p.vote.Type, Height |-> p.vote.Round, Round |-> p.vote.Height]
             ELSE NoVote

TxParseOnce(m) ==
  LET p == Parse(m) IN
  /\ parser_tx_obj' = Parsed(p)
  /\ vote' = IF p.err \/ p.type = "node" \/ vote # NoVote THEN vote
             ELSE IF Acceptable(p.vote) THEN p.vote ELSE NoVote

\* tx_parse on the buffer m: parser_parse fills parser_tx_obj; parser_validate
\* leaves `vote` alone for a node message and otherwise zeroes it before the
\* range checks release it.
TxParse(m) ==
  LET p == Parse(m) IN
  /\ parser_tx_obj' = Parsed(p)
  /\ vote' = IF p.err \/ p.type = "node" THEN vote
             ELSE IF Acceptable(p.vote) THEN p.vote ELSE NoVote

ParseFails(m) ==
  LET p == Parse(m) IN
  p.err \/ (p.type = "consensus" /\ ~Acceptable(p.vote))

\* The signature over m, or the failure of the cryptographic call.
EmitVote(m, v) ==
  \/ /\ Answer("OK")
     /\ signed' = signed \cup {[vote |-> v, message |-> m,
                                 digest |-> crypto_getBytesToSign(m)]}
  \/ /\ Answer("SIGN_VERIFY_ERROR")
     /\ UNCHANGED signed

\* Mutants of app_sign_vote: the guard is not moved; the first vote is signed.
app_sign_unmoved(m, v) ==
  \/ /\ ~vote_state.isInitialized
     /\ vote_state' = [isInitialized |-> TRUE, vote |-> v]
     /\ Answer("CONDITIONS_NOT_SATISFIED")
     /\ UNCHANGED signed
  \/ /\ vote_state.isInitialized
     /\ validate_state_transition(vote_state.vote, v)
     /\ UNCHANGED vote_state
     /\ EmitVote(m, v)

app_sign_first(m, v) ==
  /\ vote_state.isInitialized => validate_state_transition(vote_state.vote, v)
  /\ vote_state' = [isInitialized |-> TRUE, vote |-> v]
  /\ EmitVote(m, v)

\* app_sign_ed25519 for a consensus vote v: the first vote after power on arms
\* the guard and is not signed; a vote out of order is refused with both votes
\* in the answer; any other moves the guard and is signed.
app_sign_vote(m, v) ==
  \/ /\ ~vote_state.isInitialized
     /\ vote_state' = [isInitialized |-> TRUE, vote |-> v]
     /\ Answer("CONDITIONS_NOT_SATISFIED")
     /\ UNCHANGED signed
  \/ /\ vote_state.isInitialized
     /\ ~validate_state_transition(vote_state.vote, v)
     /\ Answer("COMMAND_NOT_ALLOWED")
     /\ UNCHANGED <<vote_state, signed>>
  \/ /\ vote_state.isInitialized
     /\ validate_state_transition(vote_state.vote, v)
     /\ vote_state' = [vote_state EXCEPT !.vote = v]
     /\ EmitVote(m, v)

\* handleSignEd25519 on the last chunk.
LastChunk(c) ==
  /\ Ready
  /\ ChunkAppend(c)
  /\ TxParse(buffer')
  /\ UNCHANGED <<past, restarts>>

LastInvalid(c) ==
  /\ LastChunk(c)
  /\ ParseFails(buffer')
  /\ Answer("DATA_INVALID")
  /\ UNCHANGED <<vote_state, signed>>

\* Mutant of LastFirstVote: the vote is not shown first.
FirstVoteUnseen(c) ==
  /\ LastChunk(c)
  /\ ~ParseFails(buffer')
  /\ parser_tx_obj'.type = "consensus"
  /\ ~vote_state.isInitialized
  /\ app_sign_vote(buffer', vote')

LastFirstVote(c) ==
  /\ "ed25519" \in SignIns
  /\ LastChunk(c)
  /\ ~ParseFails(buffer')
  /\ parser_tx_obj'.type = "consensus"
  /\ ~vote_state.isInitialized
  /\ Ask("vote", parser_tx_obj'.vote)
  /\ UNCHANGED <<vote_state, signed>>

LastVote(c) ==
  /\ "ed25519" \in SignIns
  /\ LastChunk(c)
  /\ ~ParseFails(buffer')
  /\ parser_tx_obj'.type = "consensus"
  /\ vote_state.isInitialized
  /\ app_sign_vote(buffer', vote')

LastNode(c) ==
  /\ "ed25519" \in SignIns
  /\ LastChunk(c)
  /\ ~ParseFails(buffer')
  /\ parser_tx_obj'.type = "node"
  /\ Answer("OK") \/ Answer("SIGN_VERIFY_ERROR")
  /\ UNCHANGED <<vote_state, signed>>

\* handleSignSecp256k1 and handleSignSr25519 after a successful parse: the rest
\* of both handlers is compiled for the consumer only, so the command returns
\* without a status word and without IO_ASYNCH_REPLY.
LastOtherCurve(c) ==
  /\ SignIns \cap {"secp256k1", "sr25519"} # {}
  /\ LastChunk(c)
  /\ ~ParseFails(buffer')
  /\ waiting' = TRUE
  /\ UNCHANGED <<vote_state, signed, ui, reply>>

\* handleSignEth on a complete transaction.  It is parsed as an Oasis one, by
\* the only parser of this build; what follows a successful parse is compiled
\* for the consumer only.
EthComplete ==
  /\ Ready
  /\ TxParse(buffer')
  /\ IF ParseFails(buffer') THEN Answer("DATA_INVALID")
     ELSE waiting' = TRUE /\ UNCHANGED <<ui, reply>>
  /\ UNCHANGED <<vote_state, history>>

EthLastFirst(p, c) ==
  /\ EthFirstComplete(p, c)
  /\ EthFirst(p, c)
  /\ EthComplete

EthLastMore(c) ==
  /\ EthMoreComplete(c)
  /\ EthMore(c)
  /\ EthComplete

-----------------------------------------------------------------------------
\* handleGetAddr: the path is extracted first, then the key is derived.
GetAddr(p) ==
  /\ Ready
  /\ extractHDPath(p)
  /\ IF p \in Path
     THEN \/ Answer("OK")
          \/ Answer("EXECUTION_ERROR")
          \/ Ask("address", NoVote)
     ELSE Answer(PathCode(p))
  /\ UNCHANGED <<tx_initialized, tx_type, buffer, guard, history>>

\* handleGetEthAddr.  When the operator is asked, handleApdu goes on to
\* handleSignEd25519, for INS_GET_ADDR_ETH is INS_SIGN_ED25519: process_chunk
\* stops it, since the path has closed the session.
GetEthAddr(p) ==
  /\ Ready
  /\ extract_eth_path(p)
  /\ tx_initialized' = FALSE
  /\ IF p \in EthPath
     THEN \/ Answer("OK")
          \/ Answer("EXECUTION_ERROR")
          \/ Answer("INVALIDP1P2")
          \/ Ask("address", NoVote)
     ELSE Answer(EthPathCode(p))
  /\ UNCHANGED <<tx_type, buffer, guard, history>>

-----------------------------------------------------------------------------
\* The operator confirms.  A cautious one checks the vote on the screen
\* against everything this key has signed.
NotOlder(v) ==
  \A s \in signed \cup past :
    s.vote = v \/ Precedes(s.vote, v)

ApproveVote ==
  /\ ui.screen = "vote"
  /\ Cautious => NotOlder(ui.shown)
  /\ app_sign_vote(buffer, vote)
  /\ UNCHANGED <<sessionVars, parser_tx_obj, vote, past, restarts>>

ApproveAddress ==
  /\ ui.screen = "address"
  /\ Answer("OK")
  /\ UNCHANGED <<sessionVars, guard, history>>

\* app_reject
Reject ==
  /\ ui # Idle
  /\ Answer("COMMAND_NOT_ALLOWED")
  /\ UNCHANGED <<sessionVars, guard, history>>

\* Power off, or the application is left: everything but flash is lost.
Restart ==
  /\ restarts < MaxRestart
  /\ restarts' = restarts + 1
  /\ SessionReset
  /\ parser_tx_obj' = [type |-> "none", vote |-> NoVote]
  /\ vote' = NoVote
  /\ vote_state' = [isInitialized |-> FALSE, vote |-> NoVote]
  /\ ui' = Idle
  /\ waiting' = FALSE
  /\ reply' = "none"
  /\ signed' = {}
  /\ past' = past \cup signed

-----------------------------------------------------------------------------
Next ==
  \/ \E p \in AnyPath : SignInit(p) \/ GetAddr(p)
  \/ \E p \in AnyEthPath : GetEthAddr(p)
  \/ \E c \in Chunk :
       \/ SignAdd(c) \/ SignOverflow(c) \/ LastInvalid(c)
       \/ LastFirstVote(c) \/ LastVote(c) \/ LastNode(c) \/ LastOtherCurve(c)
       \/ EthMorePart(c) \/ EthLastMore(c)
       \/ \E p \in AnyEthPath : EthPart(p, c) \/ EthLastFirst(p, c)
  \/ SignUninitialized \/ SignBadP1 \/ SignBadP2 \/ EthRefused
  \/ ApproveVote \/ ApproveAddress \/ Reject
  \/ Restart

Spec == Init /\ [][Next]_vars

-----------------------------------------------------------------------------
\* The abstract guard this device implements: the watermark is the vote of the
\* initialised vote state, and the votes cast are those signed since power on.
VotesOf(S) == {s.vote : s \in S}

Guard == INSTANCE VoteGuard WITH
  watermark <- IF vote_state.isInitialized THEN vote_state.vote ELSE NoVote,
  cast      <- VotesOf(signed)

\* The device implements the abstract guard: since power on, every vote signed
\* is above the one before it (app_sign_ed25519 over try_state_transition).
ImplementsVoteGuard == Guard!GuardSpec

\* No vote signed since power on is above the vote the state machine remembers,
\* so a vote accepted by it is newer than all of them (vote_fsm.c).
SignedBelowWatermark ==
  \A s \in signed :
    /\ vote_state.isInitialized
    /\ s.vote = vote_state.vote \/ Precedes(s.vote, vote_state.vote)

\* Since power on, one vote is signed for one message at most: a second block
\* at the same height, round and step gets no signature.
NoDoubleSign ==
  \A s, t \in signed : s.vote = t.vote => s = t

\* The same over all power cycles, although the vote state is lost in each: it
\* takes an operator who confirms no vote older than a signed one.
NoDoubleSignEver ==
  Cautious =>
    \A s, t \in signed \cup past : s.vote = t.vote => s = t

\* While the operator decides, the vote on the screen is the vote the guard will
\* judge and the one in the buffer: nothing the host sends slips in between the
\* display and the decision (view_review_init to app_sign_ed25519).
ReviewShowsBuffer ==
  /\ ui # Idle => waiting
  /\ ui.screen = "vote" =>
       LET p == Parse(buffer) IN
       /\ ~vote_state.isInitialized
       /\ vote = ui.shown
       /\ ~p.err /\ p.type = "consensus" /\ p.vote = ui.shown

\* The bytes under a signature carry the vote the guard judged: the globals
\* `vote` and parser_tx_obj never belong to an earlier buffer than the one
\* signed.
SignedBytesCarryVote ==
  \A s \in signed :
    LET p == Parse(s.message) IN
    ~p.err /\ p.type = "consensus" /\ p.vote = s.vote

\* The guard is armed only by the operator's confirmation, and with the vote
\* that was on the screen.
ArmedByOperator ==
  [][~vote_state.isInitialized /\ vote_state'.isInitialized
       => ui.screen = "vote" /\ vote_state'.vote = ui.shown]_vars

\* Two messages are never signed through the same digest: the signature is a
\* signature of the message (docs/APDUSPEC.md, SIGN_ED25519).
SignatureBindsMessage ==
  \A s, t \in signed : s.digest = t.digest => s.message = t.message
=============================================================================
