-------------------------- MODULE ValidatorProofs --------------------------
(***************************************************************************)
(* Proofs about ValidatorApp, for every set of units, paths and payloads,  *)
(* every parser and every number of restarts.                              *)
(***************************************************************************)
EXTENDS ValidatorApp, SessionProofs

-----------------------------------------------------------------------------
(* The order of votes and the code's transition check.                     *)

\* The check of validate_state_transition accepts exactly the votes that come
\* later in a validator's order of height, round and step (vote_fsm.c:30-58).
THEOREM TransitionCheckIsOrder ==
  ASSUME NEW s \in Vote, NEW v \in Vote
  PROVE  validate_state_transition(s, v) <=> Precedes(s, v)
BY DEF validate_state_transition, Precedes, Rank, Vote, VoteType,
       TYPE_PROPOSAL, TYPE_PREVOTE, TYPE_PRECOMMIT

\* No vote precedes itself.
LEMMA PrecedesIrreflexive ==
  ASSUME NEW v \in Vote
  PROVE  ~Precedes(v, v)
BY DEF Precedes, Rank, Vote, VoteType,
       TYPE_PROPOSAL, TYPE_PREVOTE, TYPE_PRECOMMIT

\* The order of votes is transitive.
LEMMA PrecedesTransitive ==
  ASSUME NEW u \in Vote, NEW v \in Vote, NEW w \in Vote,
         Precedes(u, v), Precedes(v, w)
  PROVE  Precedes(u, w)
BY DEF Precedes, Rank, Vote, VoteType,
       TYPE_PROPOSAL, TYPE_PREVOTE, TYPE_PRECOMMIT

\* The zeroed vote is not a vote: its type is none of the three.
LEMMA NoVoteIsNoVote == NoVote \notin Vote
BY DEF NoVote, Vote, VoteType, TYPE_PROPOSAL, TYPE_PREVOTE, TYPE_PRECOMMIT

\* What parser_validate accepts is a vote.
LEMMA AcceptableIsVote ==
  ASSUME NEW v \in RawVote, Acceptable(v)
  PROVE  v \in Vote
BY DEF RawVote, Acceptable, Vote

-----------------------------------------------------------------------------
(* Type correctness.                                                       *)

\* What the parser hands on has the type of the guard's variables.
LEMMA TxParseType ==
  ASSUME NEW m \in Buffers, TypeOK, TxParse(m)
  PROVE  /\ parser_tx_obj' \in [type : {"none", "consensus", "node"}, vote : RawVote]
         /\ vote' \in Vote \cup {NoVote}
         /\ ~ParseFails(m) => /\ parser_tx_obj'.type \in {"consensus", "node"}
                               /\ parser_tx_obj'.type = "consensus" =>
                                    /\ vote' \in Vote
                                    /\ vote' = parser_tx_obj'.vote
                                    /\ vote' = Parse(m).vote
                                    /\ ~Parse(m).err
                                    /\ Parse(m).type = "consensus"
<1> DEFINE p == Parse(m)
<1>1. p \in ParseResult /\ (~p.err => p.type # "none")
  BY ValidatorAssumption
<1>2. Acceptable(p.vote) => p.vote \in Vote
  BY <1>1, AcceptableIsVote DEF ParseResult
<1>3. /\ p.err \in BOOLEAN /\ p.vote \in RawVote
      /\ p.type \in {"none", "consensus", "node"}
  BY <1>1 DEF ParseResult
<1>4. parser_tx_obj' = Parsed(p)
  BY DEF TxParse
<1>5. vote' = IF p.err \/ p.type = "node" THEN vote
              ELSE IF Acceptable(p.vote) THEN p.vote ELSE NoVote
  BY DEF TxParse
<1>6. ParseFails(m) <=> p.err \/ (p.type = "consensus" /\ ~Acceptable(p.vote))
  BY DEF ParseFails
<1> HIDE DEF p
<1>7. Parsed(p) \in [type : {"none", "consensus", "node"}, vote : RawVote]
  BY <1>3 DEF Parsed, TypeOK
<1>8. ~p.err => /\ Parsed(p).type = p.type
                /\ p.type = "consensus" => Parsed(p).vote = p.vote
  BY <1>1 DEF Parsed
<1>9. QED
  BY <1>1, <1>2, <1>3, <1>4, <1>5, <1>6, <1>7, <1>8 DEF TypeOK, p

\* The last chunk of a session: the buffer it leaves and what is parsed.
LEMMA LastChunkType ==
  ASSUME NEW c \in Chunk, TypeOK, LastChunk(c)
  PROVE  /\ SessionTypeOK'
         /\ buffer' \in Buffers
         /\ TxParse(buffer')
<1>1. c \in Seq(Unit)
  BY ValidatorAssumption
<1>2. buffer \in Buffers /\ Len(buffer) + Len(c) <= BufferSize
  BY DEF LastChunk, ChunkAppend, Fits, TypeOK, SessionTypeOK
<1>3. buffer' \in Buffers
  BY <1>1, <1>2, AppendFits DEF LastChunk, ChunkAppend
<1>4. QED
  BY <1>3 DEF LastChunk, ChunkAppend, TypeOK, SessionTypeOK

\* app_sign_ed25519 keeps the types of the guard and of the history.
LEMMA AppSignType ==
  ASSUME NEW m \in Buffers, NEW v \in Vote, TypeOK, app_sign_vote(m, v)
  PROVE  /\ vote_state' \in [isInitialized : BOOLEAN, vote : Vote \cup {NoVote}]
         /\ ui' = Idle /\ waiting' = FALSE /\ reply' \in Code
         /\ signed' \subseteq Signature
<1>1. [vote |-> v, message |-> m, digest |-> crypto_getBytesToSign(m)] \in Signature
  BY DEF Signature, crypto_getBytesToSign
<1>2. ui' = Idle /\ waiting' = FALSE /\ reply' \in Code
  BY DEF app_sign_vote, EmitVote, Answer, Code
<1>3. signed' \subseteq Signature
  <2>1. signed \subseteq Signature
    BY DEF TypeOK
  <2> DEFINE s == [vote |-> v, message |-> m, digest |-> crypto_getBytesToSign(m)]
  <2>2. signed' = signed \/ signed' = signed \cup {s}
    BY DEF app_sign_vote, EmitVote
  <2> HIDE DEF s
  <2>3. s \in Signature
    BY <1>1 DEF s
  <2>4. QED
    BY <2>1, <2>2, <2>3
<1>4. vote_state' \in [isInitialized : BOOLEAN, vote : Vote \cup {NoVote}]
  <2>1. vote_state \in [isInitialized : BOOLEAN, vote : Vote \cup {NoVote}]
    BY DEF TypeOK
  <2>2. \/ vote_state' = [isInitialized |-> TRUE, vote |-> v]
        \/ vote_state' = vote_state
        \/ vote_state' = [vote_state EXCEPT !.vote = v]
    BY DEF app_sign_vote
  <2>3. [vote_state EXCEPT !.vote = v] =
          [isInitialized |-> vote_state.isInitialized, vote |-> v]
    BY <2>1
  <2>4. vote_state.isInitialized \in BOOLEAN
    BY <2>1
  <2>5. \A b \in BOOLEAN :
          [isInitialized |-> b, vote |-> v]
            \in [isInitialized : BOOLEAN, vote : Vote \cup {NoVote}]
    OBVIOUS
  <2>6. TRUE \in BOOLEAN
    OBVIOUS
  <2>7. QED
    BY <2>1, <2>2, <2>3, <2>4, <2>5, <2>6, Zenon
<1>5. QED
  BY <1>2, <1>3, <1>4

LEMMA IdleIsScreen == Idle \in Screen /\ Idle.screen = "idle" /\ Idle.shown = NoVote
BY DEF Idle, Screen

LEMMA NoVoteIsRaw == NoVote \in RawVote
BY DEF NoVote, RawVote

\* The invariant behind type correctness: what `vote` holds while a vote is
\* shown is the vote shown, so that its confirmation stores a vote.
TypeInv == TypeOK /\ ReviewShowsBuffer

LEMMA TypeInvInit == Init => TypeInv
<1> SUFFICES ASSUME Init PROVE TypeInv
  OBVIOUS
<1>1. SessionTypeOK
  BY EmptyIsBuffer DEF Init, SessionInit, SessionTypeOK, AnyPath
<1>2. ui = Idle /\ ui \in Screen /\ ui.screen # "vote"
  BY IdleIsScreen DEF Init
<1>3. /\ parser_tx_obj \in [type : {"none", "consensus", "node"}, vote : RawVote]
      /\ vote_state \in [isInitialized : BOOLEAN, vote : Vote \cup {NoVote}]
  BY NoVoteIsRaw DEF Init
<1>4. TypeOK
  <2>1. restarts \in 0..MaxRestart
    BY ValidatorAssumption DEF Init
  <2>2. QED
    BY <1>1, <1>2, <1>3, <2>1 DEF Init, TypeOK, Code
<1>5. QED
  BY <1>2, <1>4 DEF TypeInv, ReviewShowsBuffer

\* With nothing on the screen there is nothing to keep in step with the buffer.
LEMMA IdleShowsNothing ==
  ASSUME ui' = Idle
  PROVE  ReviewShowsBuffer'
BY IdleIsScreen DEF ReviewShowsBuffer

LEMMA TypeInvStep == TypeInv /\ [Next]_vars => TypeInv'
<1> SUFFICES ASSUME TypeInv, [Next]_vars
             PROVE  TypeInv'
  OBVIOUS
<1> USE DEF TypeInv
<1>a. Ready => ui = Idle
  BY DEF ReviewShowsBuffer, Ready
<1>1. ASSUME NEW p \in AnyPath, SignInit(p)
      PROVE  TypeInv'
  <2>1. ui' = Idle
    BY <1>1 DEF SignInit, Refused, Answer
  <2>2. TypeOK'
    BY <1>1, <2>1, EmptyIsBuffer, IdleIsScreen
    DEF SignInit, Refused, ChunkInit, extractHDPath, PathCode, Answer, TypeOK,
        SessionTypeOK, guard, Code
  <2>3. QED
    BY <2>1, <2>2, IdleShowsNothing
<1>2. ASSUME NEW p \in AnyPath, GetAddr(p)
      PROVE  TypeInv'
  <2>1. CASE Ask("address", NoVote)
    <3>1. ui' \in Screen /\ ui'.screen = "address" /\ waiting' = TRUE /\ reply' = reply
      BY <2>1 DEF Ask, Screen
    <3>2. TypeOK'
      BY <1>2, <3>1 DEF GetAddr, extractHDPath, TypeOK, SessionTypeOK, guard, history
    <3>3. QED
      BY <3>1, <3>2 DEF ReviewShowsBuffer
  <2>2. ASSUME NEW sw \in Code, Answer(sw)
        PROVE  TypeInv'
    <3>1. ui' = Idle
      BY <2>2 DEF Answer
    <3>2. TypeOK'
      BY <1>2, <2>2, <3>1, IdleIsScreen
      DEF GetAddr, extractHDPath, Answer, TypeOK, SessionTypeOK, guard, history
    <3>3. QED
      BY <3>1, <3>2, IdleShowsNothing
  <2>3. PathCode(p) \in Code /\ "OK" \in Code /\ "EXECUTION_ERROR" \in Code
    BY DEF PathCode, Code
  <2>4. QED
    BY <1>2, <2>1, <2>2, <2>3 DEF GetAddr
<1>3. ASSUME NEW c \in Chunk, SignAdd(c)
      PROVE  TypeInv'
  <2>1. buffer' \in Buffers
    BY <1>3, ValidatorAssumption, AppendFits
    DEF SignAdd, Refused, ChunkAppend, Fits, TypeOK, SessionTypeOK
  <2>2. ui' = Idle
    BY <1>3 DEF SignAdd, Refused, Answer
  <2>3. TypeOK'
    BY <1>3, <2>1, <2>2, IdleIsScreen
    DEF SignAdd, Refused, ChunkAppend, Answer, TypeOK, SessionTypeOK, guard, Code
  <2>4. QED
    BY <2>2, <2>3, IdleShowsNothing
<1>4. ASSUME NEW c \in Chunk, SignOverflow(c)
      PROVE  TypeInv'
  <2>1. ui' = Idle
    BY <1>4 DEF SignOverflow, Refused, Answer
  <2>2. TypeOK'
    BY <1>4, <2>1, IdleIsScreen
    DEF SignOverflow, Refused, ChunkOverflow, Answer, TypeOK, SessionTypeOK, guard, Code
  <2>3. QED
    BY <2>1, <2>2, IdleShowsNothing
<1>5. CASE SignUninitialized \/ SignBadP1 \/ SignBadP2
  <2>1. ui' = Idle
    BY <1>5 DEF SignUninitialized, SignBadP1, SignBadP2, Refused, Answer
  <2>2. TypeOK'
    BY <1>5, <2>1, IdleIsScreen
    DEF SignUninitialized, SignBadP1, SignBadP2, Refused, ChunkUninitialized,
        ChunkBadP1, ChunkBadP2, Answer, TypeOK, SessionTypeOK, sessionVars, guard, Code
  <2>3. QED
    BY <2>1, <2>2, IdleShowsNothing
<1>6. ASSUME NEW c \in Chunk, LastChunk(c)
      PROVE  /\ SessionTypeOK' /\ buffer' \in Buffers
             /\ past' \subseteq Signature /\ restarts' \in 0..MaxRestart
             /\ parser_tx_obj' \in [type : {"none", "consensus", "node"}, vote : RawVote]
             /\ vote' \in Vote \cup {NoVote}
             /\ ~ParseFails(buffer') /\ parser_tx_obj'.type = "consensus" =>
                  /\ vote' \in Vote
                  /\ vote' = parser_tx_obj'.vote
                  /\ vote' = Parse(buffer').vote
                  /\ ~Parse(buffer').err
                  /\ Parse(buffer').type = "consensus"
  <2>1. SessionTypeOK' /\ buffer' \in Buffers /\ TxParse(buffer')
    BY <1>6, LastChunkType
  <2>2. past' \subseteq Signature /\ restarts' \in 0..MaxRestart
    BY <1>6 DEF LastChunk, TypeOK
  <2>3. QED
    BY <2>1, <2>2, TxParseType
<1>7. ASSUME NEW c \in Chunk, LastInvalid(c)
      PROVE  TypeInv'
  <2>1. LastChunk(c) /\ ui' = Idle
    BY <1>7 DEF LastInvalid, Answer
  <2>2. TypeOK'
    BY <1>6, <1>7, <2>1, IdleIsScreen DEF LastInvalid, Answer, TypeOK, Code
  <2>3. QED
    BY <2>1, <2>2, IdleShowsNothing
<1>8. ASSUME NEW c \in Chunk, LastFirstVote(c)
      PROVE  TypeInv'
  <2>1. /\ LastChunk(c) /\ ~ParseFails(buffer') /\ parser_tx_obj'.type = "consensus"
        /\ ~vote_state.isInitialized
        /\ vote_state' = vote_state /\ signed' = signed
    BY <1>8 DEF LastFirstVote
  <2>2. /\ ui' \in Screen /\ waiting' = TRUE /\ reply' = reply
        /\ ui'.shown = vote'
    BY <1>6, <1>8, <2>1 DEF LastFirstVote, Ask, Screen
  <2>3. TypeOK'
    BY <1>6, <2>1, <2>2 DEF TypeOK
  <2>4. ReviewShowsBuffer'
    BY <1>6, <2>1, <2>2 DEF ReviewShowsBuffer
  <2>5. QED
    BY <2>3, <2>4
<1>9. ASSUME NEW c \in Chunk, LastVote(c)
      PROVE  TypeInv'
  <2>1. /\ LastChunk(c) /\ ~ParseFails(buffer') /\ parser_tx_obj'.type = "consensus"
        /\ app_sign_vote(buffer', vote')
    BY <1>9 DEF LastVote
  <2>2. buffer' \in Buffers /\ vote' \in Vote
    BY <1>6, <2>1
  <2>3. /\ vote_state' \in [isInitialized : BOOLEAN, vote : Vote \cup {NoVote}]
        /\ ui' = Idle /\ waiting' = FALSE /\ reply' \in Code
        /\ signed' \subseteq Signature
    BY <2>1, <2>2, AppSignType
  <2>4. TypeOK'
    BY <1>6, <2>1, <2>3, IdleIsScreen DEF TypeOK
  <2>5. QED
    BY <2>3, <2>4, IdleShowsNothing
<1>10. ASSUME NEW c \in Chunk, LastNode(c)
       PROVE  TypeInv'
  <2>1. LastChunk(c) /\ ui' = Idle
    BY <1>10 DEF LastNode, Answer
  <2>2. TypeOK'
    BY <1>6, <1>10, <2>1, IdleIsScreen DEF LastNode, Answer, TypeOK, Code
  <2>3. QED
    BY <2>1, <2>2, IdleShowsNothing
<1>11. ASSUME NEW c \in Chunk, LastOtherCurve(c)
       PROVE  TypeInv'
  <2>1. LastChunk(c) /\ ui = Idle
    BY <1>11, <1>a DEF LastOtherCurve, LastChunk
  <2>2. ui' = Idle
    BY <1>11, <2>1 DEF LastOtherCurve
  <2>3. TypeOK'
    BY <1>6, <1>11, <2>1, <2>2 DEF LastOtherCurve, TypeOK
  <2>4. QED
    BY <2>2, <2>3, IdleShowsNothing
<1>12. CASE ApproveVote
  <2>1. ui.screen = "vote" /\ app_sign_vote(buffer, vote) /\ buffer \in Buffers
    BY <1>12 DEF ApproveVote, TypeOK, SessionTypeOK
  <2>2. vote \in Vote
    BY <2>1 DEF ReviewShowsBuffer, TypeOK, Screen, Idle
  <2>3. /\ vote_state' \in [isInitialized : BOOLEAN, vote : Vote \cup {NoVote}]
        /\ ui' = Idle /\ waiting' = FALSE /\ reply' \in Code
        /\ signed' \subseteq Signature
    BY <2>1, <2>2, AppSignType
  <2>4. TypeOK'
    BY <1>12, <2>3, IdleIsScreen DEF ApproveVote, TypeOK, SessionTypeOK, sessionVars
  <2>5. QED
    BY <2>3, <2>4, IdleShowsNothing
<1>13. CASE ApproveAddress \/ Reject
  <2>1. ui' = Idle
    BY <1>13 DEF ApproveAddress, Reject, Answer
  <2>2. TypeOK'
    BY <1>13, <2>1, IdleIsScreen
    DEF ApproveAddress, Reject, Answer, TypeOK, SessionTypeOK, sessionVars, guard,
        history, Code
  <2>3. QED
    BY <2>1, <2>2, IdleShowsNothing
<1>14. CASE Restart
  <2>1. ui' = Idle /\ waiting' = FALSE /\ reply' \in Code
    BY <1>14 DEF Restart, Code
  <2>2. SessionTypeOK'
    BY <1>14, EmptyIsBuffer DEF Restart, SessionReset, SessionTypeOK, AnyPath
  <2>3. /\ parser_tx_obj' \in [type : {"none", "consensus", "node"}, vote : RawVote]
        /\ vote_state' \in [isInitialized : BOOLEAN, vote : Vote \cup {NoVote}]
        /\ vote' \in Vote \cup {NoVote}
    BY <1>14, NoVoteIsRaw DEF Restart
  <2>4. restarts' \in 0..MaxRestart
    BY <1>14, ValidatorAssumption DEF Restart, TypeOK
  <2>5. signed' \subseteq Signature /\ past' \subseteq Signature
    BY <1>14 DEF Restart, TypeOK
  <2>6. TypeOK'
    BY <2>1, <2>2, <2>3, <2>4, <2>5, IdleIsScreen DEF TypeOK
  <2>7. QED
    BY <2>1, <2>6, IdleShowsNothing
<1>15. ASSUME SessionTypeOK', ui' = Idle, waiting' = FALSE, reply' \in Code,
               UNCHANGED <<guard, history>>
       PROVE  TypeInv'
  <2>1. TypeOK'
    BY <1>15, IdleIsScreen DEF TypeOK, guard, history
  <2>2. QED
    BY <1>15, <2>1, IdleShowsNothing
<1>16. ASSUME NEW c \in Chunk, EthMorePart(c)
       PROVE  TypeInv'
  <2>1. SessionTypeOK'
    BY <1>16, ValidatorAssumption, EthMoreType DEF EthMorePart, Refused, TypeOK
  <2>2. /\ ui' = Idle /\ waiting' = FALSE /\ reply' = EthMoreCode(c)
        /\ UNCHANGED <<guard, history>>
    BY <1>16 DEF EthMorePart, Refused, Answer, history
  <2>3. QED
    BY <1>15, <2>1, <2>2 DEF EthMoreCode, Code
<1>17. ASSUME NEW c \in Chunk, NEW p \in AnyEthPath, EthPart(p, c)
       PROVE  TypeInv'
  <2>1. SessionTypeOK'
    BY <1>17, ValidatorAssumption, EthFirstType DEF EthPart, Refused, TypeOK
  <2>2. /\ ui' = Idle /\ waiting' = FALSE /\ reply' = EthFirstCode(p, c)
        /\ UNCHANGED <<guard, history>>
    BY <1>17 DEF EthPart, Refused, Answer, history
  <2>3. EthFirstCode(p, c) \in Code
    BY DEF EthFirstCode, EthPathCode, Code
  <2>4. QED
    BY <1>15, <2>1, <2>2, <2>3
<1>18. CASE EthRefused
  <2>1. /\ ui' = Idle /\ waiting' = FALSE /\ reply' \in Code
        /\ UNCHANGED <<sessionVars, guard, history>>
    BY <1>18 DEF EthRefused, EthBadP, Refused, Answer, history, Code
  <2>2. SessionTypeOK'
    BY <2>1 DEF TypeOK, SessionTypeOK, sessionVars
  <2>3. QED
    BY <1>15, <2>1, <2>2
<1>19. ASSUME SessionTypeOK', EthComplete
       PROVE  TypeInv'
  <2>1. buffer' \in Buffers /\ TxParse(buffer') /\ ui = Idle
    BY <1>19, <1>a DEF EthComplete, SessionTypeOK
  <2>2. /\ parser_tx_obj' \in [type : {"none", "consensus", "node"}, vote : RawVote]
        /\ vote' \in Vote \cup {NoVote}
    BY <2>1, TxParseType
  <2>3. ui' = Idle /\ waiting' \in BOOLEAN /\ reply' \in Code
    BY <1>19, <2>1 DEF EthComplete, Answer, Code, TypeOK
  <2>4. TypeOK'
    BY <1>19, <2>2, <2>3, IdleIsScreen DEF EthComplete, TypeOK, history
  <2>5. QED
    BY <2>3, <2>4, IdleShowsNothing
<1>20. ASSUME NEW c \in Chunk, EthLastMore(c)
       PROVE  TypeInv'
  <2>1. SessionTypeOK'
    BY <1>20, ValidatorAssumption, EthMoreType DEF EthLastMore, TypeOK
  <2>2. QED
    BY <1>19, <1>20, <2>1 DEF EthLastMore
<1>21. ASSUME NEW c \in Chunk, NEW p \in AnyEthPath, EthLastFirst(p, c)
       PROVE  TypeInv'
  <2>1. SessionTypeOK'
    BY <1>21, ValidatorAssumption, EthFirstType DEF EthLastFirst, TypeOK
  <2>2. QED
    BY <1>19, <1>21, <2>1 DEF EthLastFirst
<1>22. ASSUME NEW p \in AnyEthPath, GetEthAddr(p)
       PROVE  TypeInv'
  <2>1. SessionTypeOK' /\ UNCHANGED <<guard, history>>
    BY <1>22 DEF GetEthAddr, extract_eth_path, TypeOK, SessionTypeOK
  <2>2. CASE Ask("address", NoVote)
    <3>1. ui' \in Screen /\ ui'.screen = "address" /\ waiting' = TRUE /\ reply' = reply
      BY <2>2 DEF Ask, Screen
    <3>2. TypeOK'
      BY <2>1, <3>1 DEF TypeOK, guard, history
    <3>3. QED
      BY <3>1, <3>2 DEF ReviewShowsBuffer
  <2>3. ASSUME NEW sw \in Code, Answer(sw)
        PROVE  TypeInv'
    BY <1>15, <2>1, <2>3 DEF Answer
  <2>4. /\ EthPathCode(p) \in Code
        /\ {"OK", "EXECUTION_ERROR", "INVALIDP1P2"} \subseteq Code
    BY DEF EthPathCode, Code
  <2>5. QED
    BY <1>22, <2>2, <2>3, <2>4 DEF GetEthAddr
<1>23. CASE UNCHANGED vars
  <2>1. TypeOK'
    BY <1>23 DEF vars, sessionVars, guard, link, history, TypeOK, SessionTypeOK
  <2>2. ReviewShowsBuffer'
    BY <1>23 DEF vars, sessionVars, guard, link, history, ReviewShowsBuffer
  <2>3. QED
    BY <2>1, <2>2
<1>24. QED
  BY <1>1, <1>2, <1>3, <1>4, <1>5, <1>7, <1>8, <1>9, <1>10, <1>11, <1>12, <1>13,
     <1>14, <1>16, <1>17, <1>18, <1>20, <1>21, <1>22, <1>23 DEF Next

\* Every variable of ValidatorApp keeps its type.
THEOREM TypeCorrect == Spec => []TypeOK
<1>1. TypeInv => TypeOK
  BY DEF TypeInv
<1>2. QED
  BY <1>1, TypeInvInit, TypeInvStep, PTL DEF Spec

\* The vote on the operator's screen is the one the confirmation acts on and
\* the one in the buffer (view_review_init in handleSignEd25519).
THEOREM ReviewIsFresh == Spec => []ReviewShowsBuffer
<1>1. TypeInv => ReviewShowsBuffer
  BY DEF TypeInv
<1>2. QED
  BY <1>1, TypeInvInit, TypeInvStep, PTL DEF Spec
-----------------------------------------------------------------------------
(* Safety of the guard.                                                    *)

\* A vote v, read from the buffer m, reaches app_sign_ed25519: by the last
\* chunk, or for the first vote by the operator's confirmation.
SignsVote(m, v) ==
  /\ app_sign_vote(m, v)
  /\ past' = past
  /\ ~Parse(m).err /\ Parse(m).type = "consensus" /\ Parse(m).vote = v
  /\ ~vote_state.isInitialized =>
       /\ ui.screen = "vote"
       /\ ui.shown = v
       /\ Cautious => NotOlder(v)

\* A step leaves the guard alone, brings it a vote, or is a restart.
LEMMA StepKinds ==
  ASSUME TypeInv, [Next]_vars
  PROVE  \/ UNCHANGED <<vote_state, signed, past>>
         \/ \E m \in Buffers, v \in Vote : SignsVote(m, v)
         \/ Restart
<1> DEFINE Same == UNCHANGED <<vote_state, signed, past>>
<1>1. ASSUME \/ \E p \in AnyPath : SignInit(p) \/ GetAddr(p)
             \/ \E p \in AnyEthPath : GetEthAddr(p)
             \/ \E c \in Chunk, p \in AnyEthPath : EthPart(p, c) \/ EthLastFirst(p, c)
             \/ \E c \in Chunk : EthMorePart(c) \/ EthLastMore(c)
      PROVE  Same
  BY <1>1 DEF SignInit, Refused, GetAddr, GetEthAddr, EthPart, EthLastFirst, EthMorePart,
              EthLastMore, EthComplete, guard, history
<1>2. ASSUME NEW c \in Chunk,
             SignAdd(c) \/ SignOverflow(c) \/ LastInvalid(c) \/ LastFirstVote(c)
               \/ LastNode(c) \/ LastOtherCurve(c)
      PROVE  Same
  BY <1>2 DEF SignAdd, SignOverflow, Refused, LastInvalid, LastFirstVote, LastNode,
              LastOtherCurve, LastChunk, guard
<1>3. CASE SignUninitialized \/ SignBadP1 \/ SignBadP2 \/ EthRefused
  BY <1>3 DEF SignUninitialized, SignBadP1, SignBadP2, EthRefused, Refused, guard
<1>4. ASSUME NEW c \in Chunk, LastVote(c)
      PROVE  \E m \in Buffers, v \in Vote : SignsVote(m, v)
  <2>1. /\ LastChunk(c) /\ ~ParseFails(buffer') /\ parser_tx_obj'.type = "consensus"
        /\ vote_state.isInitialized
        /\ app_sign_vote(buffer', vote')
        /\ past' = past
    BY <1>4 DEF LastVote, LastChunk
  <2>2. buffer' \in Buffers /\ TxParse(buffer')
    BY <2>1, LastChunkType DEF TypeInv
  <2>3. /\ vote' \in Vote /\ Parse(buffer').vote = vote'
        /\ ~Parse(buffer').err /\ Parse(buffer').type = "consensus"
    BY <2>1, <2>2, TxParseType DEF TypeInv
  <2>4. SignsVote(buffer', vote')
    BY <2>1, <2>3 DEF SignsVote
  <2>5. QED
    BY <2>2, <2>3, <2>4
<1>5. ASSUME ApproveVote
      PROVE  \E m \in Buffers, v \in Vote : SignsVote(m, v)
  <2>1. /\ ui.screen = "vote" /\ app_sign_vote(buffer, vote) /\ past' = past
        /\ Cautious => NotOlder(ui.shown)
    BY <1>5 DEF ApproveVote
  <2>2. /\ vote = ui.shown /\ ~Parse(buffer).err
        /\ Parse(buffer).type = "consensus" /\ Parse(buffer).vote = ui.shown
    BY <2>1 DEF TypeInv, ReviewShowsBuffer
  <2>3. vote \in Vote /\ buffer \in Buffers
    BY <2>1, <2>2 DEF TypeInv, TypeOK, SessionTypeOK, Screen, Idle
  <2>4. SignsVote(buffer, vote)
    BY <2>1, <2>2 DEF SignsVote
  <2>5. QED
    BY <2>3, <2>4
<1>6. CASE ApproveAddress \/ Reject
  BY <1>6 DEF ApproveAddress, Reject, guard, history
<1>7. CASE UNCHANGED vars
  BY <1>7 DEF vars, guard, history
<1>8. QED
  BY <1>1, <1>2, <1>3, <1>4, <1>5, <1>6, <1>7 DEF Next

\* A vote at or below the watermark.
AtOrBelow(s, w) == s.vote = w \/ Precedes(s.vote, w)

\* The inductive invariant: besides the properties themselves, the watermark is
\* a vote once there is one, and for a cautious operator it is not below any
\* vote of an earlier power cycle either.
GuardInv ==
  /\ vote_state.isInitialized => vote_state.vote \in Vote
  /\ SignedBelowWatermark
  /\ Cautious /\ vote_state.isInitialized =>
       \A s \in past : AtOrBelow(s, vote_state.vote)
  /\ NoDoubleSign
  /\ NoDoubleSignEver
  /\ SignedBytesCarryVote

Inv == TypeInv /\ GuardInv

\* A vote beyond the watermark is beyond every vote at or below it.
LEMMA AboveWatermark ==
  ASSUME NEW s \in Signature, NEW w \in Vote, NEW v \in Vote,
         AtOrBelow(s, w), Precedes(w, v)
  PROVE  Precedes(s.vote, v) /\ s.vote # v
<1>1. s.vote \in Vote
  BY DEF Signature
<1>2. Precedes(s.vote, v)
  BY <1>1, PrecedesTransitive DEF AtOrBelow
<1>3. QED
  BY <1>1, <1>2, PrecedesIrreflexive

\* app_sign_ed25519 keeps the invariant.
LEMMA SignsVoteSafe ==
  ASSUME Inv, NEW m \in Buffers, NEW v \in Vote, SignsVote(m, v)
  PROVE  GuardInv'
<1> USE DEF Inv
<1>0. signed \subseteq Signature /\ past \subseteq Signature /\ past' = past
  BY DEF TypeInv, TypeOK, SignsVote
<1>1. CASE ~vote_state.isInitialized
  <2>1. /\ vote_state' = [isInitialized |-> TRUE, vote |-> v]
        /\ signed' = signed
        /\ Cautious => NotOlder(v)
    BY <1>1 DEF SignsVote, app_sign_vote
  <2>2. signed = {}
    BY <1>1 DEF GuardInv, SignedBelowWatermark
  <2>3. vote_state'.isInitialized /\ vote_state'.vote = v
    BY <2>1
  <2>4. SignedBelowWatermark' /\ NoDoubleSign' /\ SignedBytesCarryVote'
    BY <2>1, <2>2 DEF SignedBelowWatermark, NoDoubleSign, SignedBytesCarryVote
  <2>5. Cautious => \A s \in past' : AtOrBelow(s, v)
    BY <1>0, <2>1 DEF NotOlder, AtOrBelow
  <2>6. NoDoubleSignEver'
    BY <1>0, <2>1 DEF GuardInv, NoDoubleSignEver
  <2>7. QED
    BY <2>3, <2>4, <2>5, <2>6 DEF GuardInv
<1>2. CASE vote_state.isInitialized /\ vote_state' = vote_state /\ signed' = signed
  BY <1>0, <1>2 DEF GuardInv, SignedBelowWatermark, NoDoubleSign, NoDoubleSignEver,
                    SignedBytesCarryVote
<1>3. CASE /\ vote_state.isInitialized
           /\ validate_state_transition(vote_state.vote, v)
           /\ vote_state' = [vote_state EXCEPT !.vote = v]
           /\ EmitVote(m, v)
  <2> DEFINE w == vote_state.vote
             new == [vote |-> v, message |-> m, digest |-> crypto_getBytesToSign(m)]
  <2>1. w \in Vote /\ Precedes(w, v)
    BY <1>3, TransitionCheckIsOrder DEF GuardInv
  <2>2. vote_state'.isInitialized /\ vote_state'.vote = v
    BY <1>3 DEF TypeInv, TypeOK
  <2>3. \A s \in signed : AtOrBelow(s, w)
    BY DEF GuardInv, SignedBelowWatermark, AtOrBelow
  <2>4. \A s \in signed : Precedes(s.vote, v) /\ s.vote # v
    BY <1>0, <2>1, <2>3, AboveWatermark
  <2>5. Cautious => \A s \in past : Precedes(s.vote, v) /\ s.vote # v
    BY <1>0, <1>3, <2>1, AboveWatermark DEF GuardInv
  <2>6. signed' = signed \/ signed' = signed \cup {new}
    BY <1>3 DEF EmitVote
  <2>7. new.vote = v /\ new.message = m
    OBVIOUS
  <2>8. ~Parse(m).err /\ Parse(m).type = "consensus" /\ Parse(m).vote = v
    BY DEF SignsVote
  <2> HIDE DEF w, new
  <2>9. SignedBelowWatermark'
    BY <2>2, <2>4, <2>6, <2>7 DEF SignedBelowWatermark
  <2>10. NoDoubleSign'
    BY <2>4, <2>6, <2>7 DEF GuardInv, NoDoubleSign
  <2>11. SignedBytesCarryVote'
    BY <2>6, <2>7, <2>8 DEF GuardInv, SignedBytesCarryVote
  <2>12. Cautious => \A s \in past' : AtOrBelow(s, v)
    BY <1>0, <2>5 DEF AtOrBelow
  <2>13. NoDoubleSignEver'
    BY <1>0, <2>4, <2>5, <2>6, <2>7 DEF GuardInv, NoDoubleSignEver
  <2>14. QED
    BY <2>2, <2>9, <2>10, <2>11, <2>12, <2>13 DEF GuardInv
<1>4. QED
  BY <1>1, <1>2, <1>3 DEF SignsVote, app_sign_vote

LEMMA GuardInvInit == Init => GuardInv
BY DEF Init, GuardInv, SignedBelowWatermark, NoDoubleSign, NoDoubleSignEver,
       SignedBytesCarryVote

LEMMA GuardInvStep == Inv /\ [Next]_vars => GuardInv'
<1> SUFFICES ASSUME Inv, [Next]_vars
             PROVE  GuardInv'
  OBVIOUS
<1>1. CASE UNCHANGED <<vote_state, signed, past>>
  BY <1>1 DEF Inv, GuardInv, SignedBelowWatermark, NoDoubleSign, NoDoubleSignEver,
              SignedBytesCarryVote
<1>2. CASE \E m \in Buffers, v \in Vote : SignsVote(m, v)
  BY <1>2, SignsVoteSafe
<1>3. CASE Restart
  <2>1. /\ vote_state'.isInitialized = FALSE
        /\ signed' = {} /\ past' = past \cup signed
    BY <1>3 DEF Restart
  <2>2. SignedBelowWatermark' /\ NoDoubleSign' /\ SignedBytesCarryVote'
    BY <2>1 DEF SignedBelowWatermark, NoDoubleSign, SignedBytesCarryVote
  <2>3. NoDoubleSignEver'
    BY <2>1 DEF Inv, GuardInv, NoDoubleSignEver
  <2>4. QED
    BY <2>1, <2>2, <2>3 DEF GuardInv
<1>4. QED
  BY <1>1, <1>2, <1>3, StepKinds DEF Inv

LEMMA InvHolds == Spec => []Inv
<1>1. Init => Inv
  BY TypeInvInit, GuardInvInit DEF Inv
<1>2. Inv /\ [Next]_vars => Inv'
  BY TypeInvStep, GuardInvStep DEF Inv
<1>3. QED
  BY <1>1, <1>2, PTL DEF Spec

\* Whatever the host sends, a vote signed since power on is at or below the
\* vote the state machine remembers (vote_fsm.c).
THEOREM WatermarkHolds == Spec => []SignedBelowWatermark
<1>1. Inv => SignedBelowWatermark
  BY DEF Inv, GuardInv
<1>2. QED
  BY <1>1, InvHolds, PTL

\* In one power cycle no vote is signed for two messages (app_sign_ed25519).
THEOREM NoDoubleSignature == Spec => []NoDoubleSign
<1>1. Inv => NoDoubleSign
  BY DEF Inv, GuardInv
<1>2. QED
  BY <1>1, InvHolds, PTL

\* Nor across power cycles, for an operator who confirms no vote older than a
\* signed one, although vote_state itself starts from zero each time.
THEOREM NoDoubleSignatureEver == Spec => []NoDoubleSignEver
<1>1. Inv => NoDoubleSignEver
  BY DEF Inv, GuardInv
<1>2. QED
  BY <1>1, InvHolds, PTL

\* The buffer a signature was issued for parses to the vote the guard judged.
THEOREM SignaturesCarryVote == Spec => []SignedBytesCarryVote
<1>1. Inv => SignedBytesCarryVote
  BY DEF Inv, GuardInv
<1>2. QED
  BY <1>1, InvHolds, PTL

\* Only the operator arms the guard, with the vote on the screen (app_sign_ed25519
\* reached from the review screen).
THEOREM OperatorArms == Spec => ArmedByOperator
<1>1. Inv /\ [Next]_vars =>
        [~vote_state.isInitialized /\ vote_state'.isInitialized
           => ui.screen = "vote" /\ vote_state'.vote = ui.shown]_vars
  <2> SUFFICES ASSUME Inv, [Next]_vars,
                      ~vote_state.isInitialized, vote_state'.isInitialized
               PROVE  ui.screen = "vote" /\ vote_state'.vote = ui.shown
    OBVIOUS
  <2>1. \E m \in Buffers, v \in Vote : SignsVote(m, v)
    <3>1. ~UNCHANGED <<vote_state, signed, past>>
      OBVIOUS
    <3>2. Restart => vote_state'.isInitialized = FALSE
      BY DEF Restart
    <3>3. QED
      BY <3>1, <3>2, StepKinds DEF Inv
  <2>2. PICK m \in Buffers, v \in Vote : SignsVote(m, v)
    BY <2>1
  <2>3. vote_state'.vote = v
    BY <2>2 DEF SignsVote, app_sign_vote
  <2>4. QED
    BY <2>2, <2>3 DEF SignsVote
<1>2. QED
  BY <1>1, InvHolds, PTL DEF Spec, ArmedByOperator

-----------------------------------------------------------------------------
(* The device implements the abstract guard.                               *)

\* Votes of the instance are votes of this module.
LEMMA SameVotes ==
  /\ Guard!NoVote = NoVote
  /\ Guard!Vote = Vote
  /\ \A s, v \in Vote : Guard!Precedes(s, v) <=> Precedes(s, v)
BY DEF Guard!NoVote, NoVote, Guard!Vote, Vote, Guard!VoteType, VoteType,
       Guard!TYPE_PREVOTE, TYPE_PREVOTE, Guard!TYPE_PRECOMMIT, TYPE_PRECOMMIT,
       Guard!TYPE_PROPOSAL, TYPE_PROPOSAL, Guard!Precedes, Precedes, Guard!Rank, Rank

LEMMA GuardStep ==
  ASSUME Inv, [Next]_vars
  PROVE  [Guard!GuardNext]_(Guard!guardVars)
<1> DEFINE mark == IF vote_state.isInitialized THEN vote_state.vote ELSE NoVote
<1>1. CASE UNCHANGED <<vote_state, signed, past>>
  BY <1>1 DEF Guard!guardVars, VotesOf
<1>2. CASE Restart
  <2>1. mark' = NoVote
    BY <1>2 DEF Restart
  <2>2. VotesOf(signed)' = {}
    BY <1>2 DEF Restart, VotesOf
  <2>3. QED
    BY <2>1, <2>2, SameVotes DEF Guard!GuardNext, Guard!PowerCycle
<1>3. CASE \E m \in Buffers, v \in Vote : SignsVote(m, v)
  <2>1. PICK m \in Buffers, v \in Vote : SignsVote(m, v)
    BY <1>3
  <2>2. CASE ~vote_state.isInitialized
    <3>1. /\ vote_state' = [isInitialized |-> TRUE, vote |-> v]
          /\ signed' = signed
      BY <2>1, <2>2 DEF SignsVote, app_sign_vote
    <3>2. mark = NoVote /\ mark' = v /\ VotesOf(signed)' = VotesOf(signed)
      BY <2>2, <3>1 DEF VotesOf
    <3>3. QED
      BY <3>2, SameVotes DEF Guard!GuardNext, Guard!Arm
  <2>3. CASE vote_state' = vote_state /\ signed' = signed
    BY <2>3 DEF Guard!guardVars, VotesOf
  <2>4. CASE /\ vote_state.isInitialized
             /\ validate_state_transition(vote_state.vote, v)
             /\ vote_state' = [vote_state EXCEPT !.vote = v]
             /\ EmitVote(m, v)
    <3>1. /\ mark = vote_state.vote /\ mark \in Vote /\ mark # NoVote
          /\ Precedes(mark, v)
      BY <2>4, NoVoteIsNoVote, TransitionCheckIsOrder DEF Inv, GuardInv
    <3>2. mark' = v
      BY <2>4 DEF Inv, TypeInv, TypeOK
    <3> DEFINE new == [vote |-> v, message |-> m, digest |-> crypto_getBytesToSign(m)]
    <3>3. signed' = signed \/ signed' = signed \cup {new}
      BY <2>4 DEF EmitVote
    <3>4. new.vote = v
      OBVIOUS
    <3> HIDE DEF new
    <3>5. VotesOf(signed)' \in {VotesOf(signed), VotesOf(signed) \cup {v}}
      BY <3>3, <3>4 DEF VotesOf
    <3>6. QED
      BY <3>1, <3>2, <3>5, SameVotes DEF Guard!GuardNext, Guard!Advance
  <2>5. QED
    BY <2>1, <2>2, <2>3, <2>4 DEF SignsVote, app_sign_vote
<1>4. QED
  BY <1>1, <1>2, <1>3, StepKinds DEF Inv

\* Every run of the device, seen through the watermark and the votes cast, is a
\* run of the abstract guard: app_sign_ed25519, vote_state and the restart
\* against VoteGuard.
THEOREM DeviceImplementsGuard == Spec => ImplementsVoteGuard
<1>1. Init => Guard!GuardInit
  BY SameVotes DEF Init, Guard!GuardInit, VotesOf
<1>2. Inv /\ [Next]_vars => [Guard!GuardNext]_(Guard!guardVars)
  BY GuardStep
<1>3. QED
  BY <1>1, <1>2, InvHolds, PTL DEF Spec, ImplementsVoteGuard, Guard!GuardSpec
=============================================================================
