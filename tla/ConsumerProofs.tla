--------------------------- MODULE ConsumerProofs ---------------------------
(***************************************************************************)
(* Proofs about ConsumerApp, for every set of units, paths and payloads,   *)
(* every parser and every header format that satisfy the assumptions; and, *)
(* from `Chunks` on, about the library on top of it: it signs what it was  *)
(* asked to, for any payloads and any size of the chunks it cuts them into.*)
(***************************************************************************)
EXTENDS HostConsumer, SessionProofs

-----------------------------------------------------------------------------
(* The inductive invariant.                                                *)

\* An open Oasis session holds what was acknowledged since its first packet,
\* unless Ethereum packets have come in between: these take only a buffer with
\* an RLP header, which no Oasis transaction is.
Collected ==
  tx_initialized /\ tx_type = "oasis" => buffer = sent \/ Declared(buffer) # 0

\* The type the digest goes by is that of the transaction shown.
TypeFollowsKind ==
  /\ ui.kind = "consensus" => blob_type = "consensus"
  /\ ui.kind \in {"runtime", "contract"} => blob_type = "runtime"

\* What holds of a review from its start to the user's answer.
GoodReview ==
  /\ ui.shown = buffer
  /\ ui.renderer = tx_type
  /\ ui.kind = Parse(tx_type, buffer)
  /\ tx_type = "oasis" => buffer = sent /\ TypeFollowsKind
  /\ ui.scheme = "eth" => tx_type = "eth" /\ Declared(buffer) = Len(buffer)

\* While something is on the screen the command is unanswered.
Asking == ui.screen # "idle" => waiting

SigInv == OasisSignsAllSent /\ EthSignsOneTransaction /\ DigestFollowsKind

IInv ==
  /\ TypeOK
  /\ sent \in Seq(Unit)
  /\ Collected
  /\ Asking
  /\ ui.screen = "review" => GoodReview
  /\ SigInv

-----------------------------------------------------------------------------
(* What the host's commands do to the session.                             *)

SessionOK ==
  /\ tx_initialized \in BOOLEAN
  /\ tx_type \in {"oasis", "eth"}
  /\ buffer \in Buffers
  /\ hdPath \in AnyPath \cup AnyEthPath
  /\ sent \in Seq(Unit)
  /\ Len(sent) <= BufferSize + 1
  /\ Collected

\* What is acknowledged stays within its cap, and is all of it while it fits.
LEMMA AcknowledgeAppends ==
  ASSUME SessionOK, NEW c \in Seq(Unit), Acknowledge(c)
  PROVE  /\ sent' \in Seq(Unit)
         /\ Len(sent') <= BufferSize + 1
         /\ Len(sent) + Len(c) <= BufferSize => sent' = sent \o c
<1> DEFINE d == sent \o c
<1>1. d \in Seq(Unit) /\ Len(d) = Len(sent) + Len(c) /\ Len(d) \in Nat
  BY DEF SessionOK
<1>2. BufferSize + 1 \in Nat /\ BufferSize \in Nat
  BY SessionAssumption
<1>3. sent' = Take(d, BufferSize + 1)
  BY DEF Acknowledge
<1> HIDE DEF d
<1>4. /\ Take(d, BufferSize + 1) \in Seq(Unit)
      /\ Len(Take(d, BufferSize + 1)) <= BufferSize + 1
      /\ Len(d) <= BufferSize + 1 => Take(d, BufferSize + 1) = d
  BY <1>1, <1>2, TakeProperties
<1>5. Len(sent) + Len(c) <= BufferSize => Take(d, BufferSize + 1) = d
  BY <1>1, <1>2, <1>4
<1>6. QED
  BY <1>3, <1>4, <1>5 DEF d

\* An Oasis chunk that is appended.
LEMMA ChunkAppendOK ==
  ASSUME SessionOK, NEW c \in Seq(Unit), ChunkAppend(c), Acknowledge(c)
  PROVE  SessionOK'
<1>1. /\ buffer \in Buffers /\ Len(buffer) + Len(c) <= BufferSize
      /\ buffer' = buffer \o c
      /\ UNCHANGED <<tx_initialized, tx_type, hdPath>>
      /\ tx_initialized
  BY DEF SessionOK, ChunkAppend, Fits
<1>2. buffer' \in Buffers
  BY <1>1, AppendFits
<1>3. Declared(buffer) # 0 => Declared(buffer') # 0
  BY <1>1, AppendKeepsHeader
<1>4. buffer = sent => buffer' = sent'
  BY <1>1, AcknowledgeAppends
<1>5. Collected'
  BY <1>1, <1>3, <1>4 DEF SessionOK, Collected
<1>6. QED
  BY <1>1, <1>2, <1>5, AcknowledgeAppends DEF SessionOK, AnyPath, AnyEthPath

\* An Ethereum packet that follows another.
LEMMA EthMoreOK ==
  ASSUME SessionOK, NEW c \in Seq(Unit), EthMore(c),
         IF EthMoreCode(c) = "OK" THEN Acknowledge(c) ELSE UNCHANGED sent
  PROVE  SessionOK'
<1>1. buffer \in Buffers /\ Len(buffer) \in Nat /\ Declared(buffer) \in Nat
  BY EthAssumption, BufferIsSeq DEF SessionOK
<1>2. Kept(c) \in Seq(Unit)
  BY <1>1, TakeProperties DEF Kept, Missing
<1>3. /\ tx_initialized' \in BOOLEAN /\ (tx_initialized' => tx_initialized)
      /\ UNCHANGED <<tx_type, hdPath>>
  BY DEF EthMore
<1>4. CASE EthMoreCode(c) = "OK"
  <2>1. Declared(buffer) # 0 /\ Len(buffer) + Len(Kept(c)) <= BufferSize
    BY <1>4 DEF EthMoreCode, Fits
  <2>2. buffer' = buffer \o Kept(c)
    BY <1>4 DEF EthMore
  <2>3. buffer' \in Buffers /\ Declared(buffer') # 0
    BY <1>1, <1>2, <2>1, <2>2, AppendFits, AppendKeepsHeader
  <2>4. sent' \in Seq(Unit) /\ Len(sent') <= BufferSize + 1
    BY <1>4, AcknowledgeAppends
  <2>5. QED
    BY <1>3, <2>3, <2>4 DEF SessionOK, Collected, AnyPath, AnyEthPath
<1>5. CASE EthMoreCode(c) # "OK"
  <2>1. buffer' = buffer /\ sent' = sent
    BY <1>5 DEF EthMore
  <2>2. QED
    BY <1>3, <2>1 DEF SessionOK, Collected, AnyPath, AnyEthPath
<1>6. QED
  BY <1>4, <1>5

\* The first packet of an Ethereum transaction.
LEMMA EthFirstOK ==
  ASSUME SessionOK, NEW p \in AnyEthPath, NEW c \in Seq(Unit), EthFirst(p, c),
         Declared(c) \in Nat,
         sent' \in {<<>>, Take(c, BufferSize + 1)}
  PROVE  SessionOK'
<1>0. SessionTypeOK
  BY DEF SessionOK, SessionTypeOK
<1>1. SessionTypeOK' /\ tx_type' = "eth"
  BY <1>0, EthFirstType DEF EthFirst
<1>2. BufferSize \in Nat /\ BufferSize + 1 \in Nat
  BY SessionAssumption
<1>3. sent' \in Seq(Unit) /\ Len(sent') <= BufferSize + 1
  <2>1. CASE sent' = <<>>
    BY <1>2, <2>1, EmptyIsBuffer
  <2>2. CASE sent' = Take(c, BufferSize + 1)
    BY <1>2, <2>2, TakeProperties
  <2> QED BY <2>1, <2>2
<1>4. QED
  BY <1>1, <1>3 DEF SessionOK, SessionTypeOK, Collected

\* What is in Chunk is a payload whose header, if any, can be read.
LEMMA ChunkIsSeq ==
  ASSUME NEW c \in Chunk
  PROVE  c \in Seq(Unit) /\ Declared(c) \in Nat
BY ConsumerAssumption

\* No command of the host spoils an open session.
LEMMA HostKeepsSession ==
  ASSUME SessionOK, HostCommand
  PROVE  SessionOK'
<1> USE DEF Command
<1>1. ASSUME NEW p \in AnyPath, SignInit(p)
      PROVE  SessionOK'
  <2>1. buffer' = <<>> /\ sent' = <<>> /\ tx_type' = "oasis" /\ hdPath' = p
        /\ tx_initialized' \in BOOLEAN
    BY <1>1 DEF SignInit, ChunkInit, extractHDPath
  <2>2. BufferSize + 1 \in Nat
    BY SessionAssumption
  <2>3. QED
    BY <2>1, <2>2, EmptyIsBuffer DEF SessionOK, Collected
<1>2. ASSUME NEW p \in AnyPath, GetAddr(p)
      PROVE  SessionOK'
  BY <1>2 DEF GetAddr, extractHDPath, SessionOK, Collected
<1>3. ASSUME NEW c \in Chunk, SignAdd(c)
      PROVE  SessionOK'
  BY <1>3, ChunkIsSeq, ChunkAppendOK DEF SignAdd
<1>4. ASSUME NEW c \in Chunk, SignOverflow(c)
      PROVE  SessionOK'
  BY <1>4 DEF SignOverflow, ChunkOverflow, SessionOK, Collected, AnyPath, AnyEthPath
<1>5. ASSUME NEW c \in Chunk, EthMorePart(c)
      PROVE  SessionOK'
  BY <1>5, ChunkIsSeq, EthMoreOK DEF EthMorePart
<1>6. ASSUME NEW c \in Chunk, EthLastMore(c)
      PROVE  SessionOK'
  <2>1. EthMoreCode(c) = "OK" /\ EthMore(c) /\ Acknowledge(c)
    BY <1>6 DEF EthLastMore, EthMoreComplete
  <2>2. QED
    BY <2>1, ChunkIsSeq, EthMoreOK
<1>7. ASSUME NEW c \in Chunk, NEW s \in Scheme, Last(s, c)
      PROVE  SessionOK'
  BY <1>7, ChunkIsSeq, ChunkAppendOK DEF Last
<1>8. ASSUME NEW c \in Chunk, NEW p \in AnyEthPath, EthPart(p, c)
      PROVE  SessionOK'
  <2>1. EthFirst(p, c) /\ sent' \in {<<>>, Take(c, BufferSize + 1)}
    BY <1>8 DEF EthPart
  <2>2. QED
    BY <2>1, ChunkIsSeq, EthFirstOK
<1>9. ASSUME NEW c \in Chunk, NEW p \in AnyEthPath, EthLastFirst(p, c)
      PROVE  SessionOK'
  <2>1. EthFirst(p, c) /\ sent' \in {<<>>, Take(c, BufferSize + 1)}
    BY <1>9 DEF EthLastFirst
  <2>2. QED
    BY <2>1, ChunkIsSeq, EthFirstOK
<1>10. ASSUME NEW p \in AnyEthPath, GetEthAddr(p)
       PROVE  SessionOK'
  BY <1>10 DEF GetEthAddr, extract_eth_path, SessionOK, Collected
<1>11. ASSUME SignUninitialized \/ SignBadParameter \/ EthRefused
       PROVE  SessionOK'
  <2>1. /\ tx_initialized' = FALSE \/ tx_initialized' = tx_initialized
        /\ tx_type' = tx_type /\ buffer' = buffer /\ hdPath' = hdPath
        /\ sent' = sent
    BY <1>11 DEF SignUninitialized, SignBadParameter, EthRefused, ChunkUninitialized,
                 ChunkBadP1, ChunkBadP2, EthBadP, sessionVars
  <2>2. CASE tx_initialized' = FALSE
    BY <2>1, <2>2 DEF SessionOK, Collected
  <2>3. CASE tx_initialized' = tx_initialized
    BY <2>1, <2>3 DEF SessionOK, Collected
  <2>4. QED
    BY <2>1, <2>2, <2>3
<1>12. QED
  BY <1>1, <1>2, <1>3, <1>4, <1>5, <1>6, <1>7, <1>8, <1>9, <1>10, <1>11
     DEF HostCommand

-----------------------------------------------------------------------------
(* What the host's commands do to the screen.                              *)

Types ==
  /\ blob_type \in {"none", "consensus", "runtime"}
  /\ expert \in BOOLEAN
  /\ ui.screen \in Screens /\ ui.kind \in Kind /\ ui.shown \in Buffers
  /\ waiting \in BOOLEAN
  /\ reply.body \in {"intact", "overwritten"}

\* A command is taken when nothing is on the screen.  It is answered at once,
\* or it shows what it has put into the buffer and waits.
ScreenStep ==
  /\ ~waiting
  /\ sig' = NoSig
  /\ Types'
  /\ \/ waiting' = FALSE /\ ui' = ui
     \/ waiting' = TRUE /\ ui'.screen \in {"address", "error"}
     \/ waiting' = TRUE /\ ui'.screen = "review" /\ GoodReview'

LEMMA ParseKinds ==
  ASSUME NEW b \in Buffers
  PROVE  /\ Parse("oasis", b) \in Kind \ {"eth"}
         /\ Parse("eth", b) \in {"invalid", "eth"}
         /\ Parse("eth", b) \in Kind
         /\ Declared(b) # 0 => Parse("oasis", b) = "invalid"
BY ConsumerAssumption, FormatsDisjoint DEF Kind

\* A command that is answered at once.
LEMMA AnswerStep ==
  ASSUME Types, Ready, waiting' = FALSE, ui' = ui, reply'.body = "intact",
         sig' = NoSig, expert' = expert,
         blob_type' \in {"none", "consensus", "runtime"}
  PROVE  ScreenStep
BY DEF Types, Ready, ScreenStep

\* A command that shows an address or an error.
LEMMA AskStep ==
  ASSUME Types, Ready, waiting' = TRUE,
         ui'.screen \in {"address", "error"}, ui'.kind \in Kind, ui'.shown \in Buffers,
         reply'.body \in {"intact", "overwritten"},
         sig' = NoSig, expert' = expert,
         blob_type' \in {"none", "consensus", "runtime"}
  PROVE  ScreenStep
BY DEF Types, Ready, ScreenStep, Screens

\* The type of transaction the parser leaves.
LEMMA TxParseType ==
  ASSUME Types, TxParse
  PROVE  /\ blob_type' \in {"none", "consensus", "runtime"}
         /\ tx_type' # "eth" /\ Parsed = "consensus" => blob_type' = "consensus"
         /\ tx_type' # "eth" /\ Parsed \in {"runtime", "contract"}
              => blob_type' = "runtime"
<1>1. CASE tx_type' = "eth"
  BY <1>1 DEF Types, TxParse
<1>2. CASE tx_type' # "eth" /\ Parsed = "invalid"
  BY <1>2 DEF Types, TxParse
<1>3. CASE tx_type' # "eth" /\ Parsed = "consensus"
  BY <1>3 DEF Types, TxParse
<1>4. CASE tx_type' # "eth" /\ Parsed # "invalid" /\ Parsed # "consensus"
  <2>1. blob_type' = "runtime"
    BY <1>4 DEF TxParse
  <2>2. QED
    BY <1>4, <2>1
<1>5. QED
  BY <1>1, <1>2, <1>3, <1>4

\* A command that starts a review: an Oasis transaction that parses has no RLP
\* header, so its session has seen Oasis packets only.
LEMMA ReviewStep ==
  ASSUME Types, SessionOK', Ready, TxParse, Parsed # "invalid",
         NEW scheme, Ask("review", scheme, Parsed),
         sig' = NoSig, expert' = expert,
         tx_type' = "oasis" => buffer' = sent' \/ Declared(buffer') # 0,
         scheme = "eth" => Declared(buffer') # 0 /\ Declared(buffer') = Len(buffer')
  PROVE  ScreenStep
<1>1. buffer' \in Buffers /\ tx_type' \in {"oasis", "eth"}
  BY DEF SessionOK
<1>2. Parsed = Parse(tx_type', buffer') /\ Parsed \in Kind
  BY <1>1, ParseKinds DEF Parsed
<1>3. tx_type' = "oasis" => Declared(buffer') = 0 /\ buffer' = sent'
  BY <1>1, <1>2, ParseKinds
<1>4. /\ waiting' = TRUE
      /\ ui'.screen = "review" /\ ui'.scheme = scheme /\ ui'.kind = Parsed
      /\ ui'.renderer = tx_type' /\ ui'.shown = buffer'
      /\ reply'.body = "intact"
  BY DEF Ask, Show, Answers
<1>5. GoodReview'
  <2>1. tx_type' = "oasis" => TypeFollowsKind'
    BY <1>4, TxParseType DEF TypeFollowsKind
  <2>2. scheme = "eth" => tx_type' = "eth" /\ Declared(buffer') = Len(buffer')
    BY <1>1, <1>3
  <2>3. QED
    BY <1>2, <1>3, <1>4, <2>1, <2>2 DEF GoodReview
<1>6. Types'
  BY <1>1, <1>2, <1>4, TxParseType DEF Types, Screens
<1>7. QED
  BY <1>4, <1>5, <1>6 DEF ScreenStep, Ready

\* The answer of handleSignEth to a complete transaction.
LEMMA EthCompleteStep ==
  ASSUME Types, SessionOK', Ready, EthComplete,
         Declared(buffer') # 0, Declared(buffer') = Len(buffer')
  PROVE  ScreenStep
<1>1. TxParse /\ sig' = NoSig /\ expert' = expert
  BY DEF EthComplete
<1>2. blob_type' \in {"none", "consensus", "runtime"}
  BY <1>1, TxParseType
<1>3. CASE Answer("DATA_INVALID")
  BY <1>1, <1>2, <1>3, AnswerStep DEF Answer, Answers
<1>4. CASE Parsed # "invalid" /\ Ask("review", "eth", Parsed)
  BY <1>1, <1>4, ReviewStep
<1>5. QED
  BY <1>3, <1>4 DEF EthComplete

\* A command either is answered at once or shows what it has put into the buffer.
LEMMA HostScreen ==
  ASSUME SessionOK, Types, HostCommand
  PROVE  ScreenStep
<1>1. SessionOK'
  BY HostKeepsSession
<1>2. buffer' \in Buffers
  BY <1>1 DEF SessionOK
<1>3. ASSUME Ready, waiting' = FALSE, ui' = ui, reply'.body = "intact",
             sig' = NoSig, expert' = expert, blob_type' = blob_type
      PROVE  ScreenStep
  BY <1>3, AnswerStep DEF Types
<1>4. ASSUME NEW p \in AnyPath, GetAddr(p)
      PROVE  ScreenStep
  <2>1. Ready /\ sig' = NoSig /\ expert' = expert /\ blob_type' = blob_type
    BY <1>4 DEF GetAddr
  <2>2. ASSUME NEW sw, Answer(sw)
        PROVE  ScreenStep
    BY <1>3, <2>1, <2>2 DEF Answer, Answers
  <2>3. CASE Ask("address", "none", "invalid")
    BY <1>2, <2>1, <2>3, AskStep DEF Ask, Show, Answers, Kind, Types
  <2>4. QED
    BY <1>4, <2>2, <2>3 DEF GetAddr
<1>5. ASSUME NEW p \in AnyEthPath, GetEthAddr(p)
      PROVE  ScreenStep
  <2>1. Ready /\ sig' = NoSig /\ expert' = expert /\ blob_type' = blob_type
    BY <1>5 DEF GetEthAddr
  <2>2. ASSUME NEW sw, Answer(sw)
        PROVE  ScreenStep
    BY <1>3, <2>1, <2>2 DEF Answer, Answers
  <2>3. CASE /\ waiting' = TRUE
             /\ ui' = Show("address", "eth", "invalid")
             /\ reply' = Answers("none", "overwritten")
    BY <1>2, <2>1, <2>3, AskStep DEF Show, Answers, Kind, Types
  <2>4. QED
    BY <1>5, <2>2, <2>3 DEF GetEthAddr
<1>6. ASSUME NEW c \in Chunk, NEW s \in Scheme, Last(s, c)
      PROVE  ScreenStep
  <2>1. Ready /\ sig' = NoSig /\ expert' = expert /\ TxParse
    BY <1>6 DEF Last
  <2>2. blob_type' \in {"none", "consensus", "runtime"}
    BY <2>1, TxParseType
  <2>3. CASE Answer("DATA_INVALID")
    BY <2>1, <2>2, <2>3, AnswerStep DEF Answer, Answers
  <2>4. CASE NeedsExpert /\ Ask("error", "none", Parsed)
    BY <1>2, <2>1, <2>2, <2>4, AskStep DEF Ask, Show, Answers, Kind, Bare, NeedsExpert
  <2>5. CASE Parsed # "invalid" /\ Ask("review", s, Parsed)
    <3>1. tx_type' = "oasis" => buffer' = sent' \/ Declared(buffer') # 0
      BY <1>1, <1>6 DEF SessionOK, Collected, Last, ChunkAppend
    <3>2. s # "eth"
      BY ConsumerAssumption
    <3>3. QED
      BY <1>1, <2>1, <2>5, <3>1, <3>2, ReviewStep
  <2>6. QED
    BY <1>6, <2>3, <2>4, <2>5 DEF Last
<1>7. ASSUME NEW c \in Chunk, NEW p \in AnyEthPath, EthLastFirst(p, c)
      PROVE  ScreenStep
  <2>1. EthFirstCode(p, c) = "OK" /\ Declared(c) = Len(c) /\ EthFirst(p, c)
        /\ Ready /\ EthComplete
    BY <1>7 DEF EthLastFirst, EthFirstComplete
  <2>2. buffer' = Take(c, Declared(c))
    BY <2>1 DEF EthFirst
  <2>3. c \in Seq(Unit) /\ Declared(c) \in Nat
    BY ChunkIsSeq
  <2>4. buffer' = c
    BY <2>1, <2>2, <2>3, TakeProperties
  <2>5. Declared(c) # 0
    BY <2>1 DEF EthFirstCode, EthPathCode
  <2>6. QED
    BY <1>1, <2>1, <2>4, <2>5, EthCompleteStep
<1>8. ASSUME NEW c \in Chunk, EthLastMore(c)
      PROVE  ScreenStep
  <2>1. EthMoreCode(c) = "OK" /\ Missing = Len(c) /\ EthMore(c)
        /\ Ready /\ EthComplete
    BY <1>8 DEF EthLastMore, EthMoreComplete
  <2>2. /\ c \in Seq(Unit) /\ Len(c) \in Nat
        /\ buffer \in Buffers /\ Len(buffer) \in Nat /\ Declared(buffer) \in Nat
    BY ChunkIsSeq, BufferIsSeq, EthAssumption DEF SessionOK
  <2>3. Kept(c) = c
    BY <2>1, <2>2, TakeProperties DEF Kept
  <2>4. buffer' = buffer \o c
    BY <2>1, <2>3 DEF EthMore
  <2>5. Declared(buffer) # 0 /\ Len(buffer) + Len(c) <= BufferSize
    BY <2>1, <2>3 DEF EthMoreCode, Fits
  <2>6. Declared(buffer') = Declared(buffer) /\ Len(buffer') = Len(buffer) + Len(c)
    BY <2>2, <2>4, <2>5, AppendFits, AppendKeepsHeader
  <2>7. Declared(buffer') = Len(buffer')
    BY <2>1, <2>2, <2>6 DEF Missing
  <2>8. QED
    BY <1>1, <2>1, <2>5, <2>6, <2>7, EthCompleteStep
<1>9. ASSUME \/ \E p \in AnyPath : SignInit(p)
             \/ \E c \in Chunk : SignAdd(c) \/ SignOverflow(c) \/ EthMorePart(c)
             \/ \E c \in Chunk, p \in AnyEthPath : EthPart(p, c)
             \/ SignUninitialized \/ SignBadParameter \/ EthRefused
      PROVE  ScreenStep
  <2> USE DEF SignInit, SignAdd, SignOverflow, SignUninitialized, SignBadParameter,
              EthRefused, EthPart, EthMorePart, Command
  <2>1. Ready /\ sig' = NoSig /\ expert' = expert /\ blob_type' = blob_type
    BY <1>9
  <2>2. waiting' = FALSE /\ ui' = ui /\ reply'.body = "intact"
    BY <1>9 DEF Answer, Answers
  <2>3. QED
    BY <1>3, <2>1, <2>2
<1>10. QED
  BY <1>4, <1>5, <1>6, <1>7, <1>8, <1>9 DEF HostCommand

-----------------------------------------------------------------------------
(* The theorems.                                                           *)

LEMMA TypeOKParts ==
  TypeOK /\ sent \in Seq(Unit) /\ Collected <=> Types /\ SessionOK
BY DEF TypeOK, Types, SessionOK

\* The invariant holds at power on.
LEMMA InitIInv == Init => IInv
<1> SUFFICES ASSUME Init PROVE IInv
  OBVIOUS
<1>1. BufferSize + 1 \in Nat
  BY SessionAssumption
<1>2. SessionOK
  <2>1. tx_initialized = FALSE /\ tx_type = "oasis" /\ hdPath = NoPath
        /\ buffer = <<>> /\ sent = <<>>
    BY DEF Init, SessionInit
  <2>2. buffer \in Buffers /\ sent \in Seq(Unit) /\ Len(sent) <= BufferSize + 1
    BY <1>1, <2>1, EmptyIsBuffer
  <2>3. QED
    BY <2>1, <2>2 DEF SessionOK, Collected, AnyPath
<1>3. Types
  BY EmptyIsBuffer DEF Init, Types, Blank, Answers, Screens, Kind
<1>4. ui.screen = "idle"
  BY DEF Init, Blank
<1>5. SigInv
  BY DEF Init, SigInv, OasisSignsAllSent, EthSignsOneTransaction,
         DigestFollowsKind, Signed
<1>6. QED
  BY <1>2, <1>3, <1>4, <1>5, TypeOKParts DEF IInv, Asking

\* A command of the host keeps the invariant: nothing is on the screen.
LEMMA HostStep ==
  ASSUME IInv, HostCommand
  PROVE  IInv'
<1>1. SessionOK /\ Types
  BY TypeOKParts DEF IInv
<1>2. SessionOK' /\ ScreenStep
  BY <1>1, HostKeepsSession, HostScreen
<1>3. (TypeOK /\ sent \in Seq(Unit) /\ Collected)'
  BY <1>2, TypeOKParts DEF ScreenStep, TypeOK, Types, SessionOK
<1>4. ui.screen = "idle"
  BY <1>2 DEF ScreenStep, IInv, Asking
<1>5. Asking' /\ (ui'.screen = "review" => GoodReview')
  BY <1>2, <1>4 DEF ScreenStep, Asking
<1>6. SigInv'
  BY <1>2 DEF ScreenStep, SigInv, OasisSignsAllSent, EthSignsOneTransaction,
              DigestFollowsKind, Signed
<1>7. QED
  BY <1>3, <1>5, <1>6 DEF IInv

\* The session, what was sent and the digest's type do not change under the
\* user's hands, so neither does what depends on them only.
LEMMA SessionFixed ==
  ASSUME SessionOK, UNCHANGED <<sessionVars, sent>>
  PROVE  SessionOK'
<1>1. /\ tx_initialized' = tx_initialized /\ tx_type' = tx_type
      /\ buffer' = buffer /\ hdPath' = hdPath /\ sent' = sent
  BY DEF sessionVars
<1>2. QED
  BY <1>1 DEF SessionOK, Collected

\* An approval signs what the review has shown.
LEMMA ApproveStep ==
  ASSUME IInv, Approve
  PROVE  SigInv'
<1>1. CASE sig' = NoSig
  BY <1>1 DEF SigInv, OasisSignsAllSent, EthSignsOneTransaction,
              DigestFollowsKind, Signed
<1>2. CASE sig' = [scheme |-> ui.scheme, kind |-> ui.kind, renderer |-> ui.renderer,
                   message |-> buffer, path |-> hdPath,
                   covers |-> Covers(ui.scheme), sent |-> sent]
  <2>1. GoodReview
    BY DEF IInv, Approve
  <2>2. /\ sig'.scheme = ui.scheme /\ sig'.kind = ui.kind /\ sig'.renderer = ui.renderer
        /\ sig'.message = buffer /\ sig'.sent = sent
        /\ sig'.covers = Covers(ui.scheme)
    BY <1>2
  <2>3. OasisSignsAllSent'
    BY <2>1, <2>2, SMT DEF GoodReview, OasisSignsAllSent, IInv, TypeOK
  <2>4. EthSignsOneTransaction'
    BY <2>1, <2>2 DEF GoodReview, EthSignsOneTransaction
  <2>5. ASSUME ui.renderer = "oasis", ui.scheme \in {"ed25519", "secp256k1"}
        PROVE  /\ ui.kind = "consensus" => Covers(ui.scheme) = "all"
               /\ ui.kind \in {"runtime", "contract"}
                    => Covers(ui.scheme) = "after metadata"
    BY <2>1, <2>5 DEF GoodReview, TypeFollowsKind, Covers
  <2>6. DigestFollowsKind'
    BY <2>2, <2>5 DEF DigestFollowsKind
  <2>7. QED
    BY <2>3, <2>4, <2>6 DEF SigInv
<1>3. QED
  BY <1>1, <1>2 DEF Approve

\* What the user does keeps the invariant.
LEMMA UserKeepsIInv ==
  ASSUME IInv, User
  PROVE  IInv'
<1>1. SessionOK /\ Types
  BY TypeOKParts DEF IInv
<1>2. UNCHANGED <<sessionVars, sent>> /\ blob_type' = blob_type
  BY DEF User, Approve, ApproveAddress, Dismiss, ToggleExpert, history
<1>3. SessionOK'
  BY <1>1, <1>2, SessionFixed
<1>4. ASSUME NEW sw, NEW body, UserAnswer(sw, body)
      PROVE  ui' = Blank /\ waiting' = FALSE /\ reply'.body = body
  BY <1>4 DEF UserAnswer, Answers
<1>5. CASE ui' = Blank /\ waiting' = FALSE /\ reply'.body \in {"intact", "overwritten"}
           /\ expert' = expert /\ SigInv'
  <2>1. Types'
    BY <1>1, <1>2, <1>5, EmptyIsBuffer DEF Types, Blank, Screens, Kind
  <2>2. ui'.screen = "idle"
    BY <1>5 DEF Blank
  <2>3. QED
    BY <1>3, <1>5, <2>1, <2>2, TypeOKParts DEF IInv, Asking, TypeOK, Types, SessionOK
<1>6. CASE Approve
  BY <1>4, <1>5, <1>6, ApproveStep DEF Approve
<1>7. ASSUME UNCHANGED history
      PROVE  SigInv'
  BY <1>7 DEF IInv, SigInv, OasisSignsAllSent, EthSignsOneTransaction,
              DigestFollowsKind, Signed, history
<1>8. CASE ApproveAddress
  BY <1>1, <1>4, <1>5, <1>7, <1>8 DEF ApproveAddress, Types
<1>9. CASE Dismiss
  BY <1>4, <1>5, <1>7, <1>9 DEF Dismiss
<1>10. CASE ToggleExpert
  <2>1. /\ ui' = ui /\ waiting' = waiting /\ reply' = reply /\ ui.screen = "idle"
        /\ expert' = ~expert /\ UNCHANGED history
    BY <1>10 DEF ToggleExpert
  <2>2. expert' \in BOOLEAN
    BY <1>1, <2>1 DEF Types
  <2>3. Types'
    BY <1>1, <1>2, <2>1, <2>2 DEF Types
  <2>4. QED
    BY <1>3, <1>7, <2>1, <2>3 DEF IInv, Asking, TypeOK, Types, SessionOK
<1>11. QED
  BY <1>6, <1>8, <1>9, <1>10 DEF User

LEMMA StutterKeepsIInv ==
  ASSUME IInv, UNCHANGED vars
  PROVE  IInv'
<1>1. /\ UNCHANGED <<tx_initialized, tx_type, buffer, hdPath>>
      /\ UNCHANGED <<blob_type, expert, ui, waiting, reply>>
      /\ UNCHANGED <<first, sent, sig>>
  BY DEF vars, app, history, sessionVars
<1>2. TypeOK' /\ sent' \in Seq(Unit) /\ Collected' /\ Asking'
  BY <1>1 DEF IInv, TypeOK, Collected, Asking
<1>3. (ui.screen = "review" => GoodReview)'
  BY <1>1 DEF IInv, GoodReview, TypeFollowsKind
<1>4. SigInv'
  BY <1>1 DEF IInv, SigInv, OasisSignsAllSent, EthSignsOneTransaction,
              DigestFollowsKind, Signed
<1>5. QED
  BY <1>2, <1>3, <1>4 DEF IInv

\* The invariant is inductive.
LEMMA Invariant == Spec => []IInv
<1>1. Init => IInv
  BY InitIInv
<1>2. IInv /\ [Next]_vars => IInv'
  BY HostStep, UserKeepsIInv, StutterKeepsIInv DEF Next
<1>3. QED
  BY <1>1, <1>2, PTL DEF Spec

\* The variables have their types: in particular no sequence of chunks of either
\* protocol writes past the transaction buffer (buffering_append).
THEOREM TypeCorrect == Spec => []TypeOK
<1>1. IInv => TypeOK
  BY DEF IInv
<1>2. QED
  BY <1>1, Invariant, PTL

\* What is on the screen is what an approval signs (view_review_init to app_sign_*).
THEOREM ReviewStaysCurrent == Spec => []ReviewIsCurrent
<1>1. IInv => ReviewIsCurrent
  BY DEF IInv, GoodReview, ReviewIsCurrent
<1>2. QED
  BY <1>1, Invariant, PTL

\* A signed Oasis transaction is all the payload that was acknowledged since the
\* first packet, whatever Ethereum packets and address commands came between.
THEOREM OasisSignatureIsComplete == Spec => []OasisSignsAllSent
<1>1. IInv => OasisSignsAllSent
  BY DEF IInv, SigInv
<1>2. QED
  BY <1>1, Invariant, PTL

\* An Ethereum signature is over one transaction of the length it declares.
THEOREM EthSignatureIsOneTransaction == Spec => []EthSignsOneTransaction
<1>1. IInv => EthSignsOneTransaction
  BY DEF IInv, SigInv
<1>2. QED
  BY <1>1, Invariant, PTL

\* The digest of an Oasis transaction is of the kind that was shown, although the
\* global it goes by outlives transactions (crypto_getBytesToSign).
THEOREM DigestIsOfKindShown == Spec => []DigestFollowsKind
<1>1. IInv => DigestFollowsKind
  BY DEF IInv, SigInv
<1>2. QED
  BY <1>1, Invariant, PTL
-----------------------------------------------------------------------------
(* Chunks.                                                                 *)

\* The first n units of a payload, or all of it.
Upto(n, m) == IF n < Len(m) THEN n ELSE Len(m)

\* What k chunks of a payload hold together.
Sent(m, k) == SubSeq(m, 1, Upto(CHUNK_SIZE * k, m))

LEMMA Quotient ==
  ASSUME NEW a \in Nat, NEW b \in Nat \ {0}
  PROVE  /\ a \div b \in Nat
         /\ b * (a \div b) <= a /\ a < b * (a \div b) + b
OBVIOUS

LEMMA Products ==
  ASSUME NEW b \in Nat \ {0}, NEW i \in Nat
  PROVE  /\ b * i \in Nat
         /\ b * (i + 1) = b * i + b
         /\ \A j \in Nat : i <= j => b * i <= b * j
OBVIOUS

\* Each chunk goes on where the ones before it stopped, and the last one ends at
\* the end of the payload.
LEMMA ChunkBounds ==
  ASSUME NEW m \in Seq(Unit) \ {<<>>}
  PROVE  /\ Len(Chunks(m)) \in Nat \ {0}
         /\ \A i \in 1..Len(Chunks(m)) :
              Chunks(m)[i] = SubSeq(m, CHUNK_SIZE * (i - 1) + 1, Upto(CHUNK_SIZE * i, m))
         /\ \A i \in 1..Len(Chunks(m)) : CHUNK_SIZE * (i - 1) < Len(m)
         /\ Len(m) <= CHUNK_SIZE * Len(Chunks(m))
<1> DEFINE n == (Len(m) + CHUNK_SIZE - 1) \div CHUNK_SIZE
<1>1. CHUNK_SIZE \in Nat \ {0} /\ Len(m) \in Nat \ {0}
  BY HostAssumption, EmptySeq
<1>2. Len(m) + CHUNK_SIZE - 1 \in Nat
  BY <1>1
<1>3. /\ n \in Nat
      /\ CHUNK_SIZE * n <= Len(m) + CHUNK_SIZE - 1
      /\ Len(m) + CHUNK_SIZE - 1 < CHUNK_SIZE * n + CHUNK_SIZE
  BY <1>1, <1>2, Quotient
<1>4. Len(Chunks(m)) = n
  BY <1>3 DEF Chunks
<1>5. ASSUME NEW i \in 1..n
      PROVE  Chunks(m)[i] = SubSeq(m, CHUNK_SIZE * (i - 1) + 1, Upto(CHUNK_SIZE * i, m))
  BY <1>5 DEF Chunks, Upto
<1> HIDE DEF n
<1>6. CHUNK_SIZE * n \in Nat
  BY <1>1, <1>3, Products
<1>7. n # 0
  <2>1. n = 0 => CHUNK_SIZE * n = 0
    BY <1>1
  <2> QED BY <1>1, <1>3, <1>6, <2>1
<1>8. ASSUME NEW i \in 1..n
      PROVE  CHUNK_SIZE * (i - 1) < Len(m)
  <2>1. i - 1 \in Nat /\ i \in Nat /\ i = (i - 1) + 1
    BY <1>3
  <2>2. /\ CHUNK_SIZE * (i - 1) \in Nat
        /\ CHUNK_SIZE * i = CHUNK_SIZE * (i - 1) + CHUNK_SIZE
        /\ CHUNK_SIZE * i <= CHUNK_SIZE * n
    BY <1>1, <1>3, <2>1, Products
  <2> QED BY <1>1, <1>3, <1>6, <2>2
<1>9. Len(m) <= CHUNK_SIZE * n
  BY <1>1, <1>3, <1>6
<1> QED BY <1>3, <1>4, <1>5, <1>7, <1>8, <1>9

LEMMA SentGrows ==
  ASSUME NEW m \in Seq(Unit) \ {<<>>}
  PROVE  /\ Sent(m, 0) = <<>>
         /\ Sent(m, Len(Chunks(m))) = m
         /\ \A i \in 1..Len(Chunks(m)) :
              /\ Chunks(m)[i] \in Seq(Unit)
              /\ Sent(m, i) = Sent(m, i - 1) \o Chunks(m)[i]
<1> DEFINE n == Len(Chunks(m))
<1>1. CHUNK_SIZE \in Nat \ {0} /\ Len(m) \in Nat \ {0}
  BY HostAssumption, EmptySeq
<1>2. /\ n \in Nat \ {0}
      /\ Len(m) <= CHUNK_SIZE * n
  BY ChunkBounds
<1>3. Sent(m, 0) = <<>>
  <2>1. Upto(CHUNK_SIZE * 0, m) = 0
    BY <1>1 DEF Upto
  <2> QED BY <2>1, SubSeqEmpty DEF Sent
<1>4. Sent(m, n) = m
  <2>1. Upto(CHUNK_SIZE * n, m) = Len(m)
    <3>1. CHUNK_SIZE * n \in Nat
      BY <1>1, <1>2, Products
    <3> HIDE DEF n
    <3> QED BY <1>1, <1>2, <3>1 DEF Upto
  <2> QED BY <2>1, SubSeqFull DEF Sent
<1>5. ASSUME NEW i \in 1..n
      PROVE  Chunks(m)[i] \in Seq(Unit) /\ Sent(m, i) = Sent(m, i - 1) \o Chunks(m)[i]
  <2> DEFINE k == CHUNK_SIZE * (i - 1)
             e == Upto(CHUNK_SIZE * i, m)
  <2>1. Chunks(m)[i] = SubSeq(m, k + 1, e) /\ k < Len(m)
    BY ChunkBounds
  <2>2. i - 1 \in Nat /\ i \in Nat /\ i = (i - 1) + 1
    BY <1>2
  <2>3. k \in Nat /\ CHUNK_SIZE * i = k + CHUNK_SIZE /\ CHUNK_SIZE * i \in Nat
    BY <1>1, <2>2, Products
  <2>4. Upto(k, m) = k
    BY <2>1 DEF Upto
  <2>5. e \in k..Len(m)
    <3>1. e = IF CHUNK_SIZE * i < Len(m) THEN CHUNK_SIZE * i ELSE Len(m)
      BY DEF Upto
    <3> HIDE DEF e, k, n
    <3> QED BY <1>1, <2>1, <2>3, <3>1
  <2>6. Sent(m, i) = SubSeq(m, 1, e) /\ Sent(m, i - 1) = SubSeq(m, 1, k)
    BY <2>4 DEF Sent
  <2> HIDE DEF e, k, n
  <2>7. SubSeq(m, 1, k) \o SubSeq(m, k + 1, e) = SubSeq(m, 1, e)
    <3>1. 1 \in 1..(Len(m) + 1) /\ k \in (1 - 1)..Len(m)
      BY <1>1, <2>1, <2>3
    <3> QED BY <2>5, <3>1, ConcatAdjacentSubSeq
  <2>8. SubSeq(m, k + 1, e) \in Seq(Unit)
    <3>1. \A j \in (k + 1)..e : m[j] \in Unit
      BY <2>3, <2>5, ElementOfSeq
    <3>2. k + 1 \in Int /\ e \in Int
      BY <2>3, <2>5
    <3> QED BY <3>1, <3>2, SubSeqProperties
  <2> QED BY <2>1, <2>6, <2>7, <2>8
<1> QED BY <1>3, <1>4, <1>5

-----------------------------------------------------------------------------
(* The invariant.                                                          *)

Calls ==
  [state : {"send", "sent"}, scheme : Scheme, path : Path \cup BadPath,
   payload : Payload, chunk : Nat]

NumChunks == Len(Chunks(call.payload))

Quiet == ui.screen # "idle" => waiting

\* The device holds the path of the call and the chunks sent before the next.
BeforeChunk ==
  /\ ~waiting
  /\ call.chunk # 0 => /\ hdPath = call.path
                       /\ tx_type = "oasis"
                       /\ buffer = Sent(call.payload, call.chunk - 1)

SignedIsAsked ==
  /\ sig.scheme = call.scheme
  /\ sig.path = call.path
  /\ sig.message = call.payload

\* The chunk is answered: an acknowledged one is in the buffer behind those before
\* it, and behind the last one there is a signature or an error.
AfterAnswer ==
  /\ call.chunk = 0 => buffer = <<>>
  /\ call.chunk # 0 /\ reply.sw = "OK" => buffer = Sent(call.payload, call.chunk)
  /\ call.chunk # NumChunks => sig = NoSig
  /\ call.chunk = NumChunks =>
       /\ reply.sw = "OK" <=> sig # NoSig
       /\ sig # NoSig => SignedIsAsked

\* The user is asked about the whole payload.
DuringReview ==
  /\ call.chunk = NumChunks
  /\ sig = NoSig
  /\ ui.screen \in {"review", "error"}
  /\ ui.screen = "review" => /\ buffer = call.payload
                             /\ ui.shown = call.payload
                             /\ ui.scheme = call.scheme
                             /\ ui.renderer = "oasis"

AfterChunk ==
  /\ hdPath = call.path
  /\ tx_type = "oasis"
  /\ IF waiting THEN DuringReview ELSE AfterAnswer

InCall ==
  /\ call \in Calls
  /\ call.chunk <= NumChunks
  /\ call.state = "send" => BeforeChunk
  /\ call.state = "sent" => AfterChunk

ResultOK == result = NoResult \/ (result.code = "OK") = (result.sig # NoSig)

HInv ==
  /\ Quiet
  /\ call = Idle \/ InCall
  /\ ResultOK

\* A call in progress is not Idle, and its payload is cut into chunks.
LEMMA CallFacts ==
  ASSUME InCall
  PROVE  /\ call # Idle /\ call.state # "idle"
         /\ call.payload \in Seq(Unit) \ {<<>>}
         /\ call.chunk \in Nat /\ NumChunks \in Nat \ {0}
         /\ call.scheme \in Scheme /\ call.scheme # "none"
         /\ call.path \in Path \cup BadPath /\ call.path # NoPath
<1>1. call \in Calls
  BY DEF InCall
<1>2. call.payload \in Seq(Unit) \ {<<>>}
  BY <1>1, HostAssumption DEF Calls
<1>3. NumChunks \in Nat \ {0}
  BY <1>2, ChunkBounds DEF NumChunks
<1> QED BY <1>1, <1>2, <1>3, ConsumerAssumption, SessionAssumption DEF Calls, Idle

LEMMA InitHInv == HostInit => HInv
BY DEF HostInit, Init, Blank, HInv, Quiet, ResultOK

-----------------------------------------------------------------------------
(* The library's steps.                                                    *)

\* What a chunk leads to: an answer without a signature, or the last one to a
\* question about all of them.
LEMMA SendOK ==
  ASSUME HInv, Send
  PROVE  HInv'
<1>1. InCall /\ call.state = "send" /\ BeforeChunk /\ Quiet
  BY DEF HInv, Send, InCall, Idle
<1>2. /\ call' = [call EXCEPT !.state = "sent"] /\ result' = result
      /\ call' \in Calls /\ call'.state = "sent"
      /\ call'.chunk = call.chunk /\ call'.payload = call.payload
      /\ call'.path = call.path /\ call'.scheme = call.scheme
      /\ NumChunks' = NumChunks /\ call'.chunk <= NumChunks'
  <2>1. call \in Calls /\ call' = [call EXCEPT !.state = "sent"] /\ result' = result
    BY <1>1 DEF InCall, Send
  <2>2. /\ call' \in Calls /\ call'.state = "sent"
        /\ call'.chunk = call.chunk /\ call'.payload = call.payload
        /\ call'.path = call.path /\ call'.scheme = call.scheme
    BY <2>1 DEF Calls
  <2> QED BY <1>1, <2>1, <2>2 DEF NumChunks, InCall
<1>3. ~waiting /\ ui.screen = "idle"
  BY <1>1 DEF BeforeChunk, Quiet
<1>4. ResultOK'
  BY <1>2 DEF HInv, ResultOK
<1>5. ASSUME AfterChunk', Quiet' PROVE HInv'
  BY <1>2, <1>4, <1>5 DEF HInv, InCall
<1>6. ASSUME NEW step, NEW sw, Command(step, sw)
      PROVE  /\ waiting' = FALSE /\ ui' = ui /\ reply'.sw = sw /\ sig' = NoSig
             /\ Quiet'
  BY <1>3, <1>6 DEF Command, Answer, Answers, Quiet
<1>7. CASE call.chunk = 0 /\ SendPath
  <2>1. SignInit(call.path)
    BY <1>7 DEF SendPath
  <2>2. ChunkInit(call.path) /\ sig' = NoSig /\ waiting' = FALSE /\ Quiet'
    BY <2>1, <1>3 DEF SignInit, Command, Answer, Quiet
  <2>3. buffer' = <<>> /\ tx_type' = "oasis" /\ hdPath' = call.path
    BY <2>2 DEF ChunkInit, extractHDPath
  <2>4. call.chunk # NumChunks
    BY <1>1, <1>7, CallFacts
  <2>5. AfterAnswer'
    BY <1>2, <1>7, <2>2, <2>3, <2>4 DEF AfterAnswer
  <2> QED BY <1>2, <1>5, <2>2, <2>3, <2>5 DEF AfterChunk
<1>8. CASE call.chunk > 0
  <2> DEFINE c == Chunks(call.payload)[call.chunk]
  <2>1. call.chunk # 0 /\ call.chunk \in 1..NumChunks
    BY <1>1, <1>8, CallFacts DEF InCall
  <2>2. hdPath = call.path /\ tx_type = "oasis"
        /\ buffer = Sent(call.payload, call.chunk - 1)
    BY <1>1, <2>1 DEF BeforeChunk
  <2>3. buffer \o c = Sent(call.payload, call.chunk)
    BY <1>1, <2>1, <2>2, CallFacts, SentGrows DEF NumChunks
  <2>4. \/ SignAdd(c) /\ call.chunk < NumChunks
        \/ SignOverflow(c) \/ SignUninitialized
        \/ Last(call.scheme, c) /\ call.chunk = NumChunks
    BY <1>8, <2>1 DEF Send, SendAdd, SendLast, NumChunks
  <2> HIDE DEF c
  <2>5. CASE SignOverflow(c) \/ SignUninitialized
    <3>1. /\ sig' = NoSig /\ waiting' = FALSE /\ Quiet'
          /\ reply'.sw \in {"OUTPUT_BUFFER_TOO_SMALL", "TX_NOT_INITIALIZED"}
      BY <1>3, <2>5 DEF SignOverflow, SignUninitialized, Command, Answer, Answers, Quiet
    <3>2. hdPath' = hdPath /\ tx_type' = tx_type
      BY <2>5 DEF SignOverflow, SignUninitialized, Command, ChunkOverflow,
                  ChunkUninitialized, sessionVars
    <3>3. AfterAnswer'
      BY <1>2, <2>1, <3>1 DEF AfterAnswer
    <3> QED BY <1>2, <1>5, <2>2, <3>1, <3>2, <3>3 DEF AfterChunk
  <2>6. CASE SignAdd(c) /\ call.chunk < NumChunks
    <3>1. ChunkAppend(c) /\ sig' = NoSig /\ waiting' = FALSE /\ Quiet'
      BY <1>3, <2>6 DEF SignAdd, Command, Answer, Quiet
    <3>2. hdPath' = hdPath /\ tx_type' = tx_type /\ buffer' = Sent(call.payload, call.chunk)
      BY <2>3, <3>1 DEF ChunkAppend
    <3>3. call.chunk # NumChunks
      BY <2>1, <2>6
    <3>4. AfterAnswer'
      BY <1>2, <2>1, <3>1, <3>2, <3>3 DEF AfterAnswer
    <3> QED BY <1>2, <1>5, <2>2, <3>1, <3>2, <3>4 DEF AfterChunk
  <2>7. CASE Last(call.scheme, c) /\ call.chunk = NumChunks
    <3>1. ChunkAppend(c) /\ sig' = NoSig
      BY <2>7 DEF Last
    <3>2. hdPath' = hdPath /\ tx_type' = tx_type /\ buffer' = call.payload
      <4>1. Sent(call.payload, call.chunk) = call.payload
        BY <1>1, <2>7, CallFacts, SentGrows DEF NumChunks
      <4> QED BY <2>3, <3>1, <4>1 DEF ChunkAppend
    <3>3. CASE Answer("DATA_INVALID")
      <4>1. waiting' = FALSE /\ reply'.sw = "DATA_INVALID" /\ Quiet'
        BY <1>3, <3>3 DEF Answer, Answers, Quiet
      <4>2. AfterAnswer'
        BY <1>2, <2>1, <3>1, <4>1 DEF AfterAnswer
      <4> QED BY <1>2, <1>5, <2>2, <3>2, <4>1, <4>2 DEF AfterChunk
    <3>4. CASE Ask("error", "none", Parsed) \/ Ask("review", call.scheme, Parsed)
      <4>1. waiting' = TRUE /\ Quiet'
            /\ ui'.screen \in {"review", "error"}
            /\ (ui'.screen = "review" =>
                  /\ ui'.shown = buffer' /\ ui'.scheme = call.scheme
                  /\ ui'.renderer = tx_type')
        BY <3>4 DEF Ask, Show, Quiet
      <4>2. DuringReview'
        BY <1>2, <2>2, <2>7, <3>1, <3>2, <4>1 DEF DuringReview
      <4> QED BY <1>2, <1>5, <2>2, <3>2, <4>1, <4>2 DEF AfterChunk
    <3> QED BY <2>7, <3>3, <3>4 DEF Last
  <2> QED BY <2>4, <2>5, <2>6, <2>7
<1> QED BY <1>7, <1>8 DEF Send

LEMMA StartSignOK ==
  ASSUME HInv, StartSign
  PROVE  HInv'
<1>1. PICK s \in Scheme, p \in Path \cup BadPath, m \in Payload :
        call' = [state |-> "send", scheme |-> s, path |-> p, payload |-> m, chunk |-> 0]
  BY DEF StartSign
<1>2. ~waiting /\ result' = NoResult /\ UNCHANGED vars
  BY DEF StartSign, Ready
<1>3. Quiet' /\ waiting' = waiting
  BY <1>2 DEF HInv, Quiet, vars, app
<1>4. call' \in Calls /\ call'.chunk = 0 /\ call'.state = "send" /\ call'.payload = m
  BY <1>1 DEF Calls
<1>5. NumChunks' \in Nat
  BY <1>4, HostAssumption, ChunkBounds DEF NumChunks
<1>6. InCall'
  BY <1>2, <1>3, <1>4, <1>5 DEF InCall, BeforeChunk
<1> QED BY <1>2, <1>3, <1>6 DEF HInv, ResultOK

\* The next chunk belongs to the same call.
LEMMA ReceiveNextKeeps ==
  ASSUME call \in Calls, ReceiveNext
  PROVE  /\ call' \in Calls /\ call'.state = "send"
         /\ call'.chunk = call.chunk + 1 /\ call'.payload = call.payload
         /\ call'.path = call.path /\ call'.scheme = call.scheme
<1> DEFINE next == [state |-> "send", scheme |-> call.scheme, path |-> call.path,
                    payload |-> call.payload, chunk |-> call.chunk + 1]
<1>1. call' = [call EXCEPT !.state = "send", !.chunk = @ + 1]
  BY DEF ReceiveNext
<1>2. call' = next
  BY <1>1, Zenon DEF Calls
<1>3. next \in Calls
  BY DEF Calls
<1> QED BY <1>2, <1>3

\* The answer to a chunk: the next one goes out, or the call ends.
LEMMA ReceiveNextOK ==
  ASSUME HInv, ReceiveNext
  PROVE  HInv'
<1>1. InCall /\ call.state = "sent" /\ ~waiting /\ AfterChunk /\ AfterAnswer
  BY DEF HInv, ReceiveNext, InCall, Idle, AfterChunk
<1>2. call \in Calls /\ call' = [call EXCEPT !.state = "send", !.chunk = @ + 1]
      /\ result' = result /\ UNCHANGED vars
  BY <1>1 DEF ReceiveNext, InCall
<1>3. /\ call' \in Calls /\ call'.state = "send"
      /\ call'.chunk = call.chunk + 1 /\ call'.payload = call.payload
      /\ call'.path = call.path
  BY <1>2, ReceiveNextKeeps
<1>4. NumChunks' = NumChunks /\ call.chunk \in Nat /\ NumChunks \in Nat \ {0}
      /\ call.payload \in Seq(Unit) \ {<<>>}
  BY <1>1, <1>3, CallFacts DEF NumChunks
<1>5. call.chunk = 0 \/ (call.chunk # NumChunks /\ reply.sw = "OK")
  BY DEF ReceiveNext, Done, NumChunks
<1>6. call'.chunk <= NumChunks'
  BY <1>1, <1>3, <1>4, <1>5 DEF InCall
<1>7. buffer = Sent(call.payload, call.chunk)
  BY <1>1, <1>4, <1>5, SentGrows DEF AfterAnswer
<1>8. UNCHANGED <<waiting, ui, buffer, hdPath, tx_type, sig>>
  BY <1>2 DEF vars, app, history, sessionVars
<1>9. call'.chunk - 1 = call.chunk
  BY <1>3, <1>4
<1>10. BeforeChunk'
  BY <1>1, <1>3, <1>7, <1>8, <1>9 DEF BeforeChunk, AfterChunk
<1>11. Quiet' /\ ResultOK'
  BY <1>2, <1>8 DEF HInv, Quiet, ResultOK
<1> QED BY <1>3, <1>6, <1>10, <1>11 DEF HInv, InCall

\* A call that returns does so with the signature of its request, or an error.
LEMMA ReturnFacts ==
  ASSUME HInv, ReceiveError \/ ReceiveSignature
  PROVE  /\ call' = Idle /\ result' # NoResult /\ UNCHANGED vars
         /\ InCall
         /\ result'.sig = sig /\ (result'.code = "OK") = (sig # NoSig)
         /\ sig # NoSig => SignedIsAsked
<1>1. InCall /\ call.state = "sent" /\ ~waiting /\ AfterAnswer
  BY DEF HInv, ReceiveError, ReceiveSignature, InCall, Idle, AfterChunk
<1>2. PICK code \in {reply.sw} : Return(code)
  BY DEF ReceiveError, ReceiveSignature
<1>3. call' = Idle /\ result' # NoResult /\ UNCHANGED vars
      /\ result'.sig = sig /\ result'.code = reply.sw
  BY <1>2 DEF Return, NoResult
<1>4. (reply.sw = "OK") = (sig # NoSig) /\ (sig # NoSig => SignedIsAsked)
  <2>1. CASE ReceiveError
    <3>1. reply.sw # "OK"
      BY <2>1 DEF ReceiveError
    <3>2. sig = NoSig
      BY <1>1, <3>1 DEF AfterAnswer
    <3> QED BY <3>1, <3>2
  <2>2. CASE ReceiveSignature
    <3>1. reply.sw = "OK" /\ call.chunk = NumChunks
      BY <2>2 DEF ReceiveSignature, Done, NumChunks
    <3> QED BY <1>1, <3>1 DEF AfterAnswer
  <2> QED BY <2>1, <2>2
<1> QED BY <1>1, <1>3, <1>4

LEMMA ReturnOK ==
  ASSUME HInv, ReceiveError \/ ReceiveSignature
  PROVE  HInv'
<1>1. call' = Idle /\ UNCHANGED vars /\ (result'.code = "OK") = (result'.sig # NoSig)
  BY ReturnFacts
<1>2. Quiet'
  BY <1>1 DEF HInv, Quiet, vars, app
<1>3. ResultOK'
  BY <1>1 DEF ResultOK, NoSig
<1> QED BY <1>1, <1>2, <1>3 DEF HInv

-----------------------------------------------------------------------------
(* Other calls and the user.                                               *)

\* A command of another call is taken when nothing is on the screen.
LEMMA OtherCallOK ==
  ASSUME HInv, OtherCall
  PROVE  HInv'
<1>1. call = Idle /\ call' = call /\ result' = result
  BY DEF OtherCall, host
<1>2. ASSUME NEW sw, Ready, Answer(sw) PROVE Quiet'
  BY <1>2 DEF HInv, Quiet, Ready, Answer
<1>3. ASSUME waiting' = TRUE PROVE Quiet'
  BY <1>3 DEF Quiet
<1>4. Quiet'
  <2>1. ASSUME NEW p, GetAddr(p) PROVE Quiet'
    BY <1>2, <1>3, <2>1 DEF GetAddr, Ask
  <2>2. ASSUME NEW p, GetEthAddr(p) PROVE Quiet'
    BY <1>2, <1>3, <2>2 DEF GetEthAddr
  <2>3. ASSUME NEW step, NEW sw, Command(step, sw) PROVE Quiet'
    BY <1>2, <2>3 DEF Command
  <2>4. ASSUME NEW c, EthMorePart(c) PROVE Quiet'
    BY <2>3, <2>4 DEF EthMorePart
  <2>5. ASSUME NEW c, NEW p, EthPart(p, c) PROVE Quiet'
    BY <2>3, <2>5 DEF EthPart
  <2>6. ASSUME Ready, EthComplete PROVE Quiet'
    BY <1>2, <1>3, <2>6 DEF EthComplete, Ask
  <2>7. ASSUME NEW c, EthLastMore(c) PROVE Quiet'
    BY <2>6, <2>7 DEF EthLastMore
  <2>8. ASSUME NEW c, NEW p, EthLastFirst(p, c) PROVE Quiet'
    BY <2>6, <2>8 DEF EthLastFirst
  <2> QED BY <2>1, <2>2, <2>4, <2>5, <2>7, <2>8 DEF OtherCall
<1> QED BY <1>1, <1>4 DEF HInv, ResultOK

\* During a call the user is asked about the last chunk only.
LEMMA InReview ==
  ASSUME HInv, call # Idle, ui.screen # "idle"
  PROVE  InCall /\ call.state = "sent" /\ waiting /\ DuringReview /\ AfterChunk
BY DEF HInv, Quiet, InCall, BeforeChunk, AfterChunk, Calls

LEMMA UserOK ==
  ASSUME HInv, UserStep
  PROVE  HInv'
<1>1. call' = call /\ result' = result /\ ResultOK'
  BY DEF UserStep, host, HInv, ResultOK
<1>2. CASE ToggleExpert
  <2>1. UNCHANGED <<ui, waiting, reply, buffer, hdPath, tx_type, sig>>
    BY <1>2 DEF ToggleExpert, sessionVars, history
  <2> QED
    BY <1>1, <2>1 DEF HInv, Quiet, InCall, BeforeChunk, AfterChunk, AfterAnswer,
                      DuringReview, SignedIsAsked, NumChunks
<1>3. CASE Decide
  <2>1. ui.screen # "idle" /\ waiting' = FALSE /\ ui'.screen = "idle" /\ Quiet'
    BY <1>3 DEF Decide, Approve, ApproveAddress, Dismiss, UserAnswer, Blank, Quiet
  <2>2. UNCHANGED <<buffer, hdPath, tx_type>>
    BY <1>3 DEF Decide, Approve, ApproveAddress, Dismiss, sessionVars
  <2>3. CASE call = Idle
    BY <1>1, <2>1, <2>3 DEF HInv
  <2>4. CASE call # Idle
    <3>1. InCall /\ call.state = "sent" /\ DuringReview /\ AfterChunk
      BY <2>1, <2>4, InReview
    <3>2. call.chunk = NumChunks /\ call.chunk # 0 /\ NumChunks' = NumChunks
      BY <1>1, <3>1, CallFacts DEF DuringReview, NumChunks
    <3>3. Sent(call.payload, call.chunk) = call.payload
      BY <3>1, <3>2, CallFacts, SentGrows DEF NumChunks
    <3>4. (reply'.sw = "OK") = (sig' # NoSig) /\ (sig' # NoSig => SignedIsAsked')
          /\ (reply'.sw = "OK" => buffer = call.payload)
      <4>1. CASE Approve
        <5>1. ui.screen = "review" /\ buffer = call.payload /\ ui.scheme = call.scheme
          BY <3>1, <4>1 DEF Approve, DuringReview
        <5>2. CASE /\ UserAnswer("OK", "intact")
                   /\ sig' = [scheme |-> ui.scheme, kind |-> ui.kind,
                              renderer |-> ui.renderer, message |-> buffer,
                              path |-> hdPath, covers |-> Covers(ui.scheme), sent |-> sent]
          <6>1. reply'.sw = "OK" /\ sig'.scheme = call.scheme
                /\ sig'.message = call.payload /\ sig'.path = call.path
            BY <3>1, <5>1, <5>2 DEF UserAnswer, Answers, AfterChunk
          <6>2. sig' # NoSig
            BY <3>1, <6>1, CallFacts DEF NoSig
          <6> QED BY <1>1, <5>1, <6>1, <6>2 DEF SignedIsAsked
        <5>3. CASE UserAnswer("SIGN_VERIFY_ERROR", "intact") /\ sig' = NoSig
          BY <5>3 DEF UserAnswer, Answers
        <5> QED BY <4>1, <5>2, <5>3 DEF Approve
      <4>2. CASE Dismiss
        <5>1. reply'.sw \in {"DATA_INVALID", "COMMAND_NOT_ALLOWED"}
          BY <4>2 DEF Dismiss, UserAnswer, Answers
        <5>2. sig' = NoSig
          BY <3>1, <4>2 DEF Dismiss, history, DuringReview
        <5> QED BY <5>1, <5>2
      <4>3. ~ApproveAddress
        BY <3>1 DEF ApproveAddress, DuringReview
      <4> QED BY <1>3, <4>1, <4>2, <4>3 DEF Decide
    <3>5. AfterAnswer'
      BY <1>1, <2>2, <3>2, <3>3, <3>4 DEF AfterAnswer
    <3>6. AfterChunk'
      BY <1>1, <2>1, <2>2, <3>1, <3>5 DEF AfterChunk
    <3> QED BY <1>1, <2>1, <3>1, <3>2, <3>6 DEF HInv, InCall
  <2> QED BY <2>3, <2>4
<1> QED BY <1>2, <1>3 DEF UserStep

LEMMA StutterOK ==
  ASSUME HInv, UNCHANGED hostVars
  PROVE  HInv'
BY DEF HInv, Quiet, ResultOK, InCall, BeforeChunk, AfterChunk, AfterAnswer,
       DuringReview, SignedIsAsked, NumChunks, hostVars, vars, host, app, history,
       sessionVars

LEMMA HostInvariant == HostSpec => []HInv
<1>1. HInv /\ [HostNext]_hostVars => HInv'
  BY StartSignOK, SendOK, ReceiveNextOK, ReturnOK, OtherCallOK, UserOK, StutterOK
     DEF HostNext, Receive
<1> QED BY <1>1, InitHInv, PTL DEF HostSpec

-----------------------------------------------------------------------------
(* What the caller and the user can rely on.                               *)

\* The library's own state keeps its form: the chunk it is about to send exists,
\* and a result is a success exactly when it carries a signature (appBase.js,
\* sign and processErrorResponse).
THEOREM HostTypeCorrect == HostSpec => []HostTypeOK
<1>1. HInv => HostTypeOK
  <2>1. CASE HInv /\ call = Idle
    BY <2>1 DEF HInv, HostTypeOK, ResultOK, Idle
  <2>2. CASE HInv /\ call # Idle
    <3>1. InCall /\ ResultOK
      BY <2>2 DEF HInv
    <3>2. call.chunk \in 0..NumChunks /\ call.payload \in Payload
          /\ call.state \in {"idle", "send", "sent"}
      BY <3>1, CallFacts DEF InCall, Calls
    <3> QED BY <3>1, <3>2 DEF HostTypeOK, ResultOK, NumChunks
  <2> QED BY <2>1, <2>2
<1> QED BY <1>1, HostInvariant, PTL

\* While a call is in progress the user is asked about its payload and about
\* nothing else, whatever its chunks are and whatever earlier calls have left on
\* the device (prepareChunks against process_chunk).
THEOREM RequestIsShown == HostSpec => []ShowsRequest
<1>1. HInv => ShowsRequest
  <2> SUFFICES ASSUME HInv, call.state = "sent", ui.screen = "review"
               PROVE  /\ ui.shown = call.payload
                      /\ ui.scheme = call.scheme
                      /\ ui.renderer = "oasis"
    BY DEF ShowsRequest
  <2>1. call # Idle
    BY DEF Idle
  <2> QED BY <2>1, InReview DEF DuringReview
<1> QED BY <1>1, HostInvariant, PTL

\* The request a call stands for is one the service takes.
LEMMA RequestFacts ==
  ASSUME InCall
  PROVE  Asked(call.scheme, call.path, call.payload) # Nothing
BY CallFacts DEF Asked, Nothing

\* A step of the library and the device is a step of the service, or none.
LEMMA ServiceStep ==
  ASSUME HInv, [HostNext]_hostVars
  PROVE  [Service!Next]_(Service!serviceVars)
<1> DEFINE pendingNow == IF call = Idle THEN Nothing
                         ELSE Asked(call.scheme, call.path, call.payload)
           outcomeNow == IF result = NoResult \/ result.sig = NoSig THEN Nothing
                         ELSE Asked(result.sig.scheme, result.sig.path, result.sig.message)
<1>1. CASE StartSign
  <2>1. PICK s \in Scheme, p \in Path \cup BadPath, m \in Payload :
          call' = [state |-> "send", scheme |-> s, path |-> p, payload |-> m, chunk |-> 0]
    BY <1>1 DEF StartSign
  <2>2. call = Idle /\ call' # Idle /\ result' = NoResult
        /\ call'.scheme = s /\ call'.path = p /\ call'.payload = m
    BY <1>1, <2>1 DEF StartSign, Idle
  <2>3. pendingNow = Nothing /\ outcomeNow' = Nothing /\ pendingNow' = Asked(s, p, m)
    BY <2>2
  <2> QED BY <2>3 DEF Service!Next, Service!Ask
<1>2. CASE ReceiveError \/ ReceiveSignature
  <2>1. /\ call' = Idle /\ result' # NoResult /\ InCall
        /\ result'.sig = sig /\ (sig # NoSig => SignedIsAsked)
    BY <1>2, ReturnFacts
  <2>2. pendingNow = Asked(call.scheme, call.path, call.payload) /\ pendingNow # Nothing
        /\ pendingNow' = Nothing
    BY <2>1, RequestFacts, CallFacts
  <2>3. outcomeNow' = IF sig = NoSig THEN Nothing ELSE pendingNow
    BY <2>1, <2>2 DEF SignedIsAsked, NoSig
  <2>4. CASE sig = NoSig
    BY <2>2, <2>3, <2>4 DEF Service!Next, Service!Fail
  <2>5. CASE sig # NoSig
    BY <2>2, <2>3, <2>5 DEF Service!Next, Service!Sign
  <2> QED BY <2>4, <2>5
<1>3. CASE Send \/ ReceiveNext
  <2>1. call # Idle /\ result' = result
    BY <1>3 DEF Send, ReceiveNext, Idle
  <2>2. InCall
    BY <2>1 DEF HInv
  <2>3. /\ call'.state # "idle"
        /\ call'.scheme = call.scheme /\ call'.path = call.path
        /\ call'.payload = call.payload
    <3>1. call \in Calls
      BY <2>2 DEF InCall
    <3>2. CASE Send
      BY <3>1, <3>2 DEF Calls, Send
    <3>3. CASE ReceiveNext
      BY <3>1, <3>3, ReceiveNextKeeps
    <3> QED BY <1>3, <3>2, <3>3
  <2>4. call' # Idle
    BY <2>3 DEF Idle
  <2> QED BY <2>1, <2>3, <2>4 DEF Service!serviceVars
<1>4. CASE OtherCall \/ UserStep \/ UNCHANGED hostVars
  <2>1. call' = call /\ result' = result
    BY <1>4 DEF OtherCall, UserStep, host, hostVars
  <2> QED BY <2>1 DEF Service!serviceVars
<1> QED BY <1>1, <1>2, <1>3, <1>4 DEF HostNext, Receive

\* Every run of the library against the device, with its chunks, refusals and
\* reviews, is one in which each request is answered with a signature of exactly
\* its scheme, path and payload, or with an error.
THEOREM HostServes == HostSpec => Service!Init /\ [][Service!Next]_(Service!serviceVars)
<1>1. HostInit => Service!Init
  BY DEF HostInit, Service!Init
<1>2. HInv /\ [HostNext]_hostVars => [Service!Next]_(Service!serviceVars)
  BY ServiceStep
<1> QED BY <1>1, <1>2, HostInvariant, PTL DEF HostSpec
=============================================================================
