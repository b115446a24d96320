---------------------------- MODULE HostConsumer ----------------------------
(***************************************************************************)
(* The JavaScript library (js/src/appBase.js) signing with the consumer    *)
(* build: sign() and its siblings cut a payload into chunks and send them  *)
(* one after the other.  Between two signatures the host may run the       *)
(* Ethereum library and ask for addresses; both leave their traces in the  *)
(* device's session.                                                       *)
(***************************************************************************)
EXTENDS ConsumerApp

CONSTANTS
  Payload,     \* context and message, as sign() concatenates them
  CHUNK_SIZE   \* units per chunk

ASSUME HostAssumption ==
  /\ CHUNK_SIZE \in Nat \ {0}
  /\ Payload \subseteq Seq(Unit) \ {<<>>}

Idle == [state |-> "idle"]

NoResult == [code |-> "none"]

VARIABLES
  call,     \* the sign() in progress: chunk 0 is the path, `chunk` the next
  result    \* what the last sign() returned

host     == <<call, result>>
hostVars == <<vars, host>>

\* prepareChunks, without the path.
Chunks(m) ==
  [i \in 1..((Len(m) + CHUNK_SIZE - 1) \div CHUNK_SIZE) |->
     SubSeq(m, CHUNK_SIZE * (i - 1) + 1,
            IF CHUNK_SIZE * i < Len(m) THEN CHUNK_SIZE * i ELSE Len(m))]

HostInit ==
  /\ Init
  /\ call = Idle
  /\ result = NoResult

-----------------------------------------------------------------------------
\* sign(), signRtEd25519(), signRtSecp256k1(), signRtSr25519().  serializePath
\* makes any five numbers, and any three, a path.
StartSign ==
  /\ call = Idle /\ Ready
  /\ \E s \in Scheme, p \in Path \cup BadPath, m \in Payload :
       call' = [state |-> "send", scheme |-> s, path |-> p, payload |-> m,
                chunk |-> 0]
  /\ result' = NoResult
  /\ UNCHANGED vars

\* signSendChunk: the first chunk, one in between, the last one.
SendPath == SignInit(call.path)

SendAdd ==
  LET c == Chunks(call.payload)[call.chunk] IN
  /\ call.chunk < Len(Chunks(call.payload))
  /\ SignAdd(c) \/ SignOverflow(c) \/ SignUninitialized

SendLast ==
  LET c == Chunks(call.payload)[call.chunk] IN
  /\ call.chunk = Len(Chunks(call.payload))
  /\ Last(call.scheme, c) \/ SignOverflow(c) \/ SignUninitialized

Send ==
  /\ call.state = "send"
  /\ \/ call.chunk = 0 /\ SendPath
     \/ call.chunk > 0 /\ (SendAdd \/ SendLast)
  /\ call' = [call EXCEPT !.state = "sent"]
  /\ UNCHANGED result

Return(code) ==
  /\ call' = Idle
  /\ result' = [code |-> code, sig |-> sig, scheme |-> call.scheme,
                path |-> call.path, payload |-> call.payload]
  /\ UNCHANGED vars

\* Mutant of Done: the loop goes one chunk too far.
DoneLate == call.chunk > Len(Chunks(call.payload))

\* The loop of sign() has sent all chunks.
Done == call.chunk = Len(Chunks(call.payload))

\* Mutant of ReceiveError: only the listed status words come back.
ReceiveErrorListed ==
  /\ call.state = "sent" /\ ~waiting
  /\ call.chunk > 0 /\ reply.sw = "DATA_INVALID"
  /\ Return(reply.sw)

\* An error ends the loop, whether the transport returns its status word or
\* throws it (processErrorResponse).
ReceiveError ==
  /\ call.state = "sent" /\ ~waiting
  /\ call.chunk > 0 /\ reply.sw # "OK"
  /\ Return(reply.sw)

\* The answer to the path is not looked at; the others must be 0x9000.
ReceiveNext ==
  /\ call.state = "sent" /\ ~waiting
  /\ call.chunk = 0 \/ (reply.sw = "OK" /\ ~Done)
  /\ call' = [call EXCEPT !.state = "send", !.chunk = @ + 1]
  /\ UNCHANGED <<result, vars>>

ReceiveSignature ==
  /\ call.state = "sent" /\ ~waiting
  /\ call.chunk > 0 /\ reply.sw = "OK" /\ Done
  /\ Return("OK")

Receive == ReceiveError \/ ReceiveNext \/ ReceiveSignature

\* hw-app-eth and the address methods, one exchange at a time.
OtherCall ==
  /\ call = Idle
  /\ \/ \E p \in Path \cup BadPath : GetAddr(p)
     \/ \E p \in AnyEthPath : GetEthAddr(p)
     \/ \E c \in Chunk :
          \/ EthMorePart(c) \/ EthLastMore(c)
          \/ \E p \in AnyEthPath : EthPart(p, c) \/ EthLastFirst(p, c)
  /\ UNCHANGED host

\* The user answers what is shown.
Decide == Approve \/ ApproveAddress \/ Dismiss

UserStep == (Decide \/ ToggleExpert) /\ UNCHANGED host

HostNext == StartSign \/ Send \/ Receive \/ OtherCall \/ UserStep

\* The library awaits each answer and goes on at once; the user is taken to
\* answer whatever is shown.
HostSpec ==
  /\ HostInit
  /\ [][HostNext]_hostVars
  /\ WF_hostVars(Send) /\ WF_hostVars(Receive)
  /\ WF_hostVars(Decide /\ UNCHANGED host)

-----------------------------------------------------------------------------
HostTypeOK ==
  /\ call.state \in {"idle", "send", "sent"}
  /\ call # Idle => /\ call.payload \in Payload
                    /\ call.chunk \in 0..Len(Chunks(call.payload))
  /\ result = NoResult \/ (result.code = "OK") = (result.sig # NoSig)

\* During a sign() the user is shown the payload of that call and nothing else,
\* whatever earlier calls have left in the buffer (process_chunk, tx_reset).
ShowsRequest ==
  call.state = "sent" /\ ui.screen = "review" =>
    /\ ui.shown = call.payload
    /\ ui.scheme = call.scheme
    /\ ui.renderer = "oasis"

\* The library is a signing service: each request ends in a signature of its
\* scheme, path and payload, or in an error, and does end.
Asked(s, p, m) == [scheme |-> s, path |-> p, payload |-> m]

Nothing == [scheme |-> "none", path |-> NoPath, payload |-> <<>>]

Service == INSTANCE SigningService WITH
  Request <- {Asked(s, p, m) : s \in Scheme, p \in Path \cup BadPath, m \in Payload},
  pending <- IF call = Idle THEN Nothing
             ELSE Asked(call.scheme, call.path, call.payload),
  outcome <- IF result = NoResult \/ result.sig = NoSig THEN Nothing
             ELSE Asked(result.sig.scheme, result.sig.path, result.sig.message)

ImplementsService == Service!Spec
=============================================================================
