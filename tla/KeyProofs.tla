------------------------------ MODULE KeyProofs ------------------------------
(***************************************************************************)
(* A signature of KeyPaths is made with the path the host sent last, for   *)
(* any components and paths.                                               *)
(***************************************************************************)
EXTENDS KeyPaths, TLAPS

\* The slots hold the path the host sent last, or none at all.
SlotsAreAsked ==
  \/ hdPath = Zeroed
  \/ /\ hdPathLen = Len(asked.path)
     /\ hdPathLen \in 1..MAX_BIP32_PATH
     /\ \A i \in 1..hdPathLen : hdPath[i] = asked.path[i]
     /\ asked.protocol = "oasis" => hdPath = Copied(Zeroed, asked.path)

Pending == tx_initialized \/ ui.screen = "review"

IInv == TypeOK /\ (Pending => SlotsAreAsked) /\ SignsAskedPath

\* The steps by what they do to the slots: not at all, from a path of one
\* protocol, or not at all with a signature.
OasisCommand(p) == SignFirst(p) \/ \E s \in OasisScheme : GetAddr(s, p)
EthCommand(p) == EthSignFirst(p) \/ GetEthAddr(p)
Other == \/ \E s \in Scheme : SignMore(s)
         \/ ApproveAddress \/ Reject \/ ToggleExpert

LEMMA NextSplits ==
  ASSUME Next
  PROVE  \/ \E p \in OasisPath : OasisCommand(p)
         \/ \E p \in EthPath : EthCommand(p)
         \/ Approve \/ Other
BY DEF Next, OasisCommand, EthCommand, Other

\* Copying a path into slots gives slots.
LEMMA CopiedType ==
  ASSUME NEW slots \in Slots, NEW p \in Seq(Component)
  PROVE  Copied(slots, p) \in Slots
BY DEF Copied, Slots

LEMMA LengthsInSlots == 1..MAX_BIP32_PATH \subseteq 0..MAX_BIP32_PATH
BY DEF MAX_BIP32_PATH

LEMMA ZeroedType == Zeroed \in Slots
BY PathAssumption DEF Zeroed, Slots

\* extractHDPath leaves the path, or zeroes.
LEMMA OasisExtract ==
  ASSUME TypeOK, NEW p \in OasisPath, extractHDPath(p)
  PROVE  /\ hdPath' \in Slots /\ hdPathLen' \in 0..MAX_BIP32_PATH
         /\ asked'.protocol = "oasis" /\ asked'.path \in Seq(Component)
         /\ SlotsAreAsked'
<1>1. p \in Seq(Component)
  BY PathAssumption
<1>2. asked'.protocol = "oasis" /\ asked'.path = p
  BY DEF extractHDPath
<1>3. CASE GoodLength(p)
  <2>1. hdPath' = Copied(Zeroed, p) /\ hdPathLen' = Len(p)
    BY <1>3 DEF extractHDPath
  <2>2. Len(p) \in 1..MAX_BIP32_PATH
    BY <1>3 DEF GoodLength, HDPATH_LEN_ADR0008, HDPATH_LEN_DEFAULT, MAX_BIP32_PATH
  <2>3. \A i \in 1..Len(p) : Copied(Zeroed, p)[i] = p[i]
    BY <2>2 DEF Copied, MAX_BIP32_PATH
  <2>4. SlotsAreAsked'
    <3>1. hdPathLen' = Len(asked'.path) /\ hdPathLen' \in 1..MAX_BIP32_PATH
      BY <1>2, <2>1, <2>2
    <3>2. \A i \in 1..hdPathLen' : hdPath'[i] = asked'.path[i]
      BY <1>1, <1>2, <2>1, <2>2, <2>3
    <3>3. hdPath' = Copied(Zeroed, asked'.path)
      BY <1>2, <2>1
    <3> QED
      BY <3>1, <3>2, <3>3 DEF SlotsAreAsked
  <2>5. hdPath' \in Slots
    BY <1>1, <2>1, CopiedType, ZeroedType
  <2>6. hdPathLen' \in 0..MAX_BIP32_PATH
    BY <2>1, <2>2, LengthsInSlots
  <2>7. asked'.path \in Seq(Component)
    BY <1>1, <1>2
  <2> QED
    BY <1>2, <2>5, <2>4, <2>6, <2>7
<1>4. CASE ~GoodLength(p)
  BY <1>1, <1>2, <1>4, ZeroedType DEF extractHDPath, SlotsAreAsked, TypeOK
<1> QED
  BY <1>3, <1>4

\* extract_eth_path leaves the path if it accepts it.
LEMMA EthExtract ==
  ASSUME TypeOK, NEW p \in EthPath, extract_eth_path(p)
  PROVE  /\ hdPath' \in Slots /\ hdPathLen' \in 0..MAX_BIP32_PATH
         /\ asked'.protocol = "eth" /\ asked'.path \in Seq(Component)
         /\ EthAccepted(p) => SlotsAreAsked'
<1>1. p \in Seq(Component)
  BY PathAssumption
<1>2. asked'.protocol = "eth" /\ asked'.path = p
  BY DEF extract_eth_path
<1>3. hdPath' \in Slots
  BY <1>1, CopiedType DEF extract_eth_path, TypeOK
<1>4. CASE EthAccepted(p)
  <2>1. Len(p) \in 1..MAX_BIP32_PATH
    BY <1>4 DEF EthAccepted, EthGoodLength
  <2>2. hdPath' = Copied(hdPath, p) /\ hdPathLen' = Len(p)
    BY <1>4 DEF extract_eth_path, EthAccepted
  <2>3. \A i \in 1..Len(p) : Copied(hdPath, p)[i] = p[i]
    BY <2>1 DEF Copied, MAX_BIP32_PATH
  <2>4. SlotsAreAsked'
    <3>1. hdPathLen' = Len(asked'.path) /\ hdPathLen' \in 1..MAX_BIP32_PATH
      BY <1>2, <2>1, <2>2
    <3>2. \A i \in 1..hdPathLen' : hdPath'[i] = asked'.path[i]
      BY <1>1, <1>2, <2>1, <2>2, <2>3
    <3>3. asked'.protocol # "oasis"
      BY <1>2
    <3> QED
      BY <3>1, <3>2, <3>3 DEF SlotsAreAsked
  <2>6. hdPathLen' \in 0..MAX_BIP32_PATH
    BY <2>1, <2>2, LengthsInSlots
  <2>7. asked'.path \in Seq(Component)
    BY <1>1, <1>2
  <2> QED
    BY <1>2, <1>3, <2>4, <2>6, <2>7
<1>5. CASE ~EthAccepted(p)
  BY <1>1, <1>2, <1>3, <1>5 DEF extract_eth_path, TypeOK
<1> QED
  BY <1>4, <1>5

\* A key that can be derived is the one of the path the host sent last.
LEMMA DerivableKey ==
  ASSUME TypeOK, SlotsAreAsked, NEW scheme \in Scheme,
         Derivable(SigningKey(scheme, hdPath, hdPathLen))
  PROVE  LET path == SigningKey(scheme, hdPath, hdPathLen).path IN
         /\ scheme # "secp256k1" => path = asked.path
         /\ scheme = "secp256k1" /\ asked.protocol = "oasis" =>
              path = Front(Copied(Zeroed, asked.path), HDPATH_LEN_DEFAULT)
<1> DEFINE path == SigningKey(scheme, hdPath, hdPathLen).path
<1>1. /\ scheme = "secp256k1" => path = Front(hdPath, HDPATH_LEN_DEFAULT)
      /\ scheme # "secp256k1" => path = Front(hdPath, hdPathLen)
  BY DEF SigningKey, crypto_signSecp256k1, sign_eth, crypto_sign_sr25519,
         crypto_signEd25519, Key
<1>2. 1 \in DOMAIN path /\ path[1] = Purpose
  <2>1. 2 \in DOMAIN path /\ path[1] = Purpose
    BY DEF Derivable
  <2> QED
    BY <1>1, <2>1 DEF Front, HDPATH_LEN_DEFAULT, TypeOK, MAX_BIP32_PATH
<1>3. path[1] = hdPath[1]
  BY <1>1, <1>2 DEF Front
<1>4. hdPath # Zeroed
  BY <1>2, <1>3, PathAssumption DEF Zeroed, MAX_BIP32_PATH
<1>5. asked.path \in Seq(Component) /\ hdPathLen = Len(asked.path)
  BY <1>4 DEF TypeOK, SlotsAreAsked
<1>6. \A i \in 1..hdPathLen : hdPath[i] = asked.path[i]
  BY <1>4 DEF SlotsAreAsked
<1>7. Front(hdPath, hdPathLen) = asked.path
  BY <1>5, <1>6 DEF Front
<1>8. asked.protocol = "oasis" => hdPath = Copied(Zeroed, asked.path)
  BY <1>4 DEF SlotsAreAsked
<1> QED
  BY <1>1, <1>7, <1>8

\* What an answer or a question says of the screen and of signatures.
LEMMA NoSignature ==
  ASSUME NEW sw, Answer(sw)
  PROVE  ui' = Blank /\ ~Signature'
BY DEF Answer, Answers, Signature

-----------------------------------------------------------------------------
LEMMA InitHolds == Init => IInv
<1> SUFFICES ASSUME Init PROVE IInv
  OBVIOUS
<1>1. TypeOK
  <2>1. asked.protocol = "oasis" /\ asked.path = <<>>
    BY DEF Init
  <2>2. ui.screen = "idle" /\ ui.scheme = "none"
    BY DEF Init, Blank
  <2>3. hdPath \in Slots /\ hdPathLen \in 0..MAX_BIP32_PATH
    BY ZeroedType DEF Init, MAX_BIP32_PATH
  <2>4. asked.path \in Seq(Component)
    BY <2>1
  <2>5. tx_initialized \in BOOLEAN /\ tx_type \in {"oasis", "eth"} /\ expert \in BOOLEAN
    BY DEF Init
  <2> QED
    BY <2>1, <2>2, <2>3, <2>4, <2>5 DEF TypeOK
<1>2. ~Pending /\ ~Signature
  BY DEF Init, Pending, Blank, Signature, Answers
<1> QED
  BY <1>1, <1>2 DEF IInv, SignsAskedPath

LEMMA OasisCommandHolds ==
  ASSUME IInv, NEW p \in OasisPath, OasisCommand(p)
  PROVE  IInv'
<1>1. extractHDPath(p)
  BY DEF OasisCommand, SignFirst, GetAddr
<1>2. /\ tx_initialized' \in BOOLEAN /\ tx_type' \in {"oasis", "eth"}
      /\ expert' \in BOOLEAN
  BY DEF OasisCommand, SignFirst, GetAddr, IInv, TypeOK, session
<1>3. /\ ui'.screen \in {"idle", "review", "address"}
      /\ ui'.scheme \in Scheme \cup {"none"}
      /\ ~Signature'
  BY NoSignature
     DEF OasisCommand, SignFirst, GetAddr, FillAddress, AnswerAddress, Answers,
         Signature, Blank, Scheme
<1> QED
  BY <1>1, <1>2, <1>3, OasisExtract DEF IInv, TypeOK, SignsAskedPath

LEMMA EthCommandHolds ==
  ASSUME IInv, NEW p \in EthPath, EthCommand(p)
  PROVE  IInv'
<1>1. extract_eth_path(p)
  BY DEF EthCommand, EthSignFirst, GetEthAddr
<1>2. /\ tx_initialized' \in BOOLEAN /\ tx_type' \in {"oasis", "eth"}
      /\ expert' \in BOOLEAN
  BY DEF EthCommand, EthSignFirst, GetEthAddr, IInv, TypeOK
<1>3. /\ ui'.screen \in {"idle", "review", "address"}
      /\ ui'.scheme \in Scheme \cup {"none"}
      /\ ~Signature'
  BY NoSignature
     DEF EthCommand, EthSignFirst, GetEthAddr, FillAddress, AnswerAddress, Answers,
         Signature, Blank, Scheme
<1>4. Pending' => EthAccepted(p)
  BY NoSignature
     DEF EthCommand, EthSignFirst, GetEthAddr, FillAddress, AnswerAddress, Pending,
         Blank
<1> QED
  BY <1>1, <1>2, <1>3, <1>4, EthExtract DEF IInv, TypeOK, SignsAskedPath

LEMMA ApproveHolds ==
  ASSUME IInv, Approve
  PROVE  IInv'
<1>1. SlotsAreAsked /\ TypeOK
  BY DEF IInv, Pending, Approve
<1>2. UNCHANGED <<hdPath, hdPathLen, tx_initialized, tx_type, expert, asked>>
  BY DEF Approve, session
<1>3. ui' = Blank
  BY NoSignature DEF Approve
<1>4. TypeOK' /\ SlotsAreAsked'
  BY <1>1, <1>2, <1>3 DEF TypeOK, SlotsAreAsked, Blank
<1>5. SignsAskedPath'
  <2> DEFINE k == SigningKey(ui.scheme, hdPath, hdPathLen)
  <2>1. CASE Answer("error")
    BY <2>1, NoSignature DEF SignsAskedPath
  <2>2. CASE /\ Derivable(k)
             /\ reply' = [sw |-> "OK", body |-> "signature", scheme |-> ui.scheme,
                          key |-> k]
    <3>1. CASE ui.scheme \in Scheme
      BY <1>1, <1>2, <2>2, <3>1, DerivableKey DEF SignsAskedPath
    <3>2. CASE ui.scheme = "none"
      <4>1. k = SigningKey("ed25519", hdPath, hdPathLen)
        BY <3>2 DEF SigningKey
      <4> QED
        BY <1>1, <1>2, <2>2, <3>2, <4>1, DerivableKey
           DEF SignsAskedPath, Scheme, OasisScheme
    <3> QED
      BY <1>1, <3>1, <3>2 DEF TypeOK
  <2> QED
    BY <2>1, <2>2 DEF Approve
<1> QED
  BY <1>4, <1>5 DEF IInv

LEMMA OtherHolds ==
  ASSUME IInv, Other
  PROVE  IInv'
<1>1. UNCHANGED <<hdPath, hdPathLen, asked>>
  BY DEF Other, SignMore, ApproveAddress, Reject, ToggleExpert
<1>2. TypeOK'
  <2>1. /\ ui'.screen \in {"idle", "review", "address"}
        /\ ui'.scheme \in Scheme \cup {"none"}
    BY NoSignature
       DEF Other, SignMore, ApproveAddress, AnswerAddress, Reject, ToggleExpert, IInv,
           TypeOK, Blank
  <2>2. tx_initialized' \in BOOLEAN /\ tx_type' \in {"oasis", "eth"}
    BY DEF Other, SignMore, ApproveAddress, Reject, ToggleExpert, IInv, TypeOK, session
  <2>3. expert' \in BOOLEAN
    BY DEF Other, SignMore, ApproveAddress, Reject, ToggleExpert, IInv, TypeOK
  <2> QED
    BY <1>1, <2>1, <2>2, <2>3 DEF IInv, TypeOK
<1>3. Pending' => Pending
  BY NoSignature
     DEF Other, SignMore, ApproveAddress, AnswerAddress, Reject, ToggleExpert,
         Pending, Blank, session
<1>4. SlotsAreAsked => SlotsAreAsked'
  BY <1>1 DEF SlotsAreAsked
<1>5. SignsAskedPath'
  <2>1. CASE ToggleExpert
    BY <1>1, <2>1 DEF ToggleExpert, IInv, SignsAskedPath, Signature
  <2>2. CASE ~ToggleExpert
    BY <2>2, NoSignature
       DEF Other, SignMore, ApproveAddress, AnswerAddress, Reject, Answers, Signature,
           SignsAskedPath
  <2> QED
    BY <2>1, <2>2
<1> QED
  BY <1>2, <1>3, <1>4, <1>5 DEF IInv

LEMMA StepHolds == IInv /\ [Next]_vars => IInv'
<1> SUFFICES ASSUME IInv, [Next]_vars PROVE IInv'
  OBVIOUS
<1>1. CASE Next
  BY <1>1, NextSplits, OasisCommandHolds, EthCommandHolds, ApproveHolds, OtherHolds
<1>2. CASE UNCHANGED vars
  BY <1>2 DEF vars, session, IInv, TypeOK, Pending, SlotsAreAsked, SignsAskedPath,
              Signature
<1> QED
  BY <1>1, <1>2

\* Signatures are made with the path the host sent last (SignsAskedPath), and the
\* globals keep their types: hdPathLen never passes the slots (extractHDPath,
\* extract_eth_path, app_sign_*).
THEOREM SignedPathIsAsked == Spec => [](TypeOK /\ SignsAskedPath)
<1>1. IInv => TypeOK /\ SignsAskedPath
  BY DEF IInv
<1> QED
  BY InitHolds, StepHolds, <1>1, PTL DEF Spec

\* The types, on their own.
THEOREM PathTypeCorrect == Spec => []TypeOK
BY SignedPathIsAsked, PTL

-----------------------------------------------------------------------------
(* Addresses. *)

\* The key of the address of a path, with nothing behind the path in the slots.
AddressKey(scheme, path) == crypto_fillAddress(scheme, Copied(Zeroed, path), Len(path))

\* An address is that of its path; of an Ethereum path, if it fills the five slots.
GoodAddress(scheme, path, key) ==
  /\ scheme \in Scheme
  /\ path \in Seq(Component)
  /\ scheme = "eth" =>
       (Len(path) = HDPATH_LEN_DEFAULT => key = AddressKey(scheme, path))
  /\ scheme # "eth" => key = AddressKey(scheme, path)

\* The path next to an address is the one that was asked, and names the key.
GoodScreen(scheme, path, key, shown) ==
  /\ shown = IF scheme = "eth" THEN path
             ELSE Front(Copied(Zeroed, path), HDPATH_LEN_DEFAULT)
  /\ \A i \in DOMAIN shown \cap DOMAIN key.path : shown[i] = key.path[i]

\* What the host remembers, what is on the screen and what is signed next.
KnownIsGood ==
  known = NoAddress \/ GoodAddress(known.scheme, known.path, known.key)

ScreenIsGood ==
  /\ ui.screen = "review" => ui.scheme \in Scheme
  /\ ui.screen = "address" =>
       /\ GoodAddress(ui.scheme, asked.path, ui.key)
       /\ expert => GoodScreen(ui.scheme, asked.path, ui.key, ui.path)

AInv == IInv /\ KnownIsGood /\ ScreenIsGood /\ SignerHasAddress

\* The slots are read up to the path's length, or a path of five fills them.
LEMMA FrontOfCopied ==
  ASSUME NEW slots \in Slots, NEW p \in Seq(Component), Len(p) <= MAX_BIP32_PATH
  PROVE  Front(Copied(slots, p), Len(p)) = p
<1>1. \A i \in 1..Len(p) : Copied(slots, p)[i] = p[i]
  BY DEF Copied, MAX_BIP32_PATH
<1> QED BY <1>1 DEF Front

\* Which path an address key has.
LEMMA AddressKeyIs ==
  ASSUME NEW scheme \in Scheme, NEW slots, NEW len
  PROVE  crypto_fillAddress(scheme, slots, len) =
           IF scheme = "ed25519" THEN Key("ed25519", Mode(len), Front(slots, len))
           ELSE IF scheme = "sr25519" THEN Key("sr25519", Mode(len), Front(slots, len))
           ELSE Key("secp256k1", "normal", Front(slots, HDPATH_LEN_DEFAULT))
<1>1. CASE scheme = "ed25519"
  BY <1>1 DEF crypto_fillAddress, crypto_extractPublicKeyEd25519
<1>2. CASE scheme = "sr25519"
  BY <1>2 DEF crypto_fillAddress, crypto_extractPublicKeySr25519
<1>3. CASE scheme \in {"secp256k1", "eth"}
  BY <1>3 DEF crypto_fillAddress, crypto_extractPublicKeySecp256k1
<1> QED BY <1>1, <1>2, <1>3 DEF Scheme, OasisScheme

LEMMA SigningKeyIs ==
  ASSUME NEW scheme \in Scheme, NEW slots, NEW len
  PROVE  SigningKey(scheme, slots, len) =
           IF scheme = "secp256k1" THEN Key("secp256k1", "normal", Front(slots, HDPATH_LEN_DEFAULT))
           ELSE IF scheme = "eth" THEN Key("secp256k1", "normal", Front(slots, len))
           ELSE IF scheme = "sr25519" THEN Key("sr25519", Mode(len), Front(slots, len))
           ELSE Key("ed25519", Mode(len), Front(slots, len))
<1>1. CASE scheme = "secp256k1"
  BY <1>1 DEF SigningKey, crypto_signSecp256k1
<1>2. CASE scheme = "eth"
  BY <1>2 DEF SigningKey, sign_eth
<1>3. CASE scheme = "sr25519"
  BY <1>3 DEF SigningKey, crypto_sign_sr25519
<1>4. CASE scheme \notin {"secp256k1", "eth", "sr25519"}
  BY <1>4 DEF SigningKey, crypto_signEd25519
<1> QED BY <1>1, <1>2, <1>3, <1>4

\* An address derived from the slots an accepted path has just been copied to.
LEMMA DerivedAddress ==
  ASSUME NEW scheme \in Scheme, NEW slots \in Slots, NEW p \in Seq(Component),
         Len(p) \in 1..MAX_BIP32_PATH,
         scheme = "eth" \/ slots = Zeroed
  PROVE  LET key == crypto_fillAddress(scheme, Copied(slots, p), Len(p)) IN
         /\ GoodAddress(scheme, p, key)
         /\ GoodScreen(scheme, p, key, PathShown(scheme, Copied(slots, p), Len(p)))
<1>1. Len(p) <= MAX_BIP32_PATH /\ Len(p) \in Nat
  <2>1. \A n \in 1..MAX_BIP32_PATH : n <= MAX_BIP32_PATH /\ n \in Nat
    BY DEF MAX_BIP32_PATH
  <2> QED BY <2>1
<1> DEFINE key == crypto_fillAddress(scheme, Copied(slots, p), Len(p))
<1>2. Len(p) = HDPATH_LEN_DEFAULT =>
        Front(Copied(slots, p), HDPATH_LEN_DEFAULT) = Front(Copied(Zeroed, p), HDPATH_LEN_DEFAULT)
  BY <1>1, FrontOfCopied, ZeroedType
<1>3. scheme = "eth" /\ Len(p) = HDPATH_LEN_DEFAULT => key = AddressKey(scheme, p)
  BY <1>2, AddressKeyIs DEF AddressKey
<1>4. scheme # "eth" => key = AddressKey(scheme, p)
  BY DEF AddressKey
<1> DEFINE copied == Copied(slots, p)
           shown == PathShown(scheme, copied, Len(p))
<1>5. GoodScreen(scheme, p, key, shown)
  <2>1. shown = IF scheme = "eth" THEN p
                ELSE Front(Copied(Zeroed, p), HDPATH_LEN_DEFAULT)
    BY <1>1, FrontOfCopied DEF PathShown
  <2>2. \A m, n : \A i \in DOMAIN Front(copied, m) \cap DOMAIN Front(copied, n) :
          Front(copied, m)[i] = Front(copied, n)[i]
    BY DEF Front
  <2>3. \E n : key.path = Front(copied, n)
    BY AddressKeyIs DEF Key
  <2>4. \E m : shown = Front(copied, m)
    BY DEF PathShown
  <2> HIDE DEF copied, shown, key
  <2>5. \A i \in DOMAIN shown \cap DOMAIN key.path : shown[i] = key.path[i]
    BY <2>2, <2>3, <2>4
  <2> QED BY <2>1, <2>5 DEF GoodScreen
<1> QED BY <1>3, <1>4, <1>5 DEF GoodAddress

\* The rest of an address command, once the path is accepted.
LEMMA FillAddressHolds ==
  ASSUME KnownIsGood, NEW scheme \in Scheme, FillAddress(scheme), expert' = expert,
         GoodAddress(scheme, asked'.path, crypto_fillAddress(scheme, hdPath', hdPathLen')),
         GoodScreen(scheme, asked'.path, crypto_fillAddress(scheme, hdPath', hdPathLen'),
                    PathShown(scheme, hdPath', hdPathLen'))
  PROVE  KnownIsGood' /\ ScreenIsGood' /\ ~Signature'
<1> DEFINE k == crypto_fillAddress(scheme, hdPath', hdPathLen')
<1>1. CASE Answer("error") /\ UNCHANGED known
  BY <1>1, NoSignature DEF KnownIsGood, ScreenIsGood, Blank
<1>2. CASE AnswerAddress(scheme, k)
  <2>1. known' = known \/ known' = [scheme |-> scheme, path |-> asked'.path, key |-> k]
    BY <1>2 DEF AnswerAddress
  <2>2. KnownIsGood'
    BY <2>1 DEF KnownIsGood
  <2>3. ui' = Blank /\ ~Signature'
    BY <1>2 DEF AnswerAddress, Signature
  <2> QED BY <2>2, <2>3 DEF ScreenIsGood, Blank
<1>3. CASE /\ ui' = [screen |-> "address", scheme |-> scheme, key |-> k,
                     path |-> IF expert THEN PathShown(scheme, hdPath', hdPathLen')
                                        ELSE <<>>]
           /\ reply' = Answers("none")
           /\ UNCHANGED known
  <2>1. KnownIsGood' /\ ~Signature'
    BY <1>3 DEF KnownIsGood, Signature, Answers
  <2>2. /\ ui'.screen = "address" /\ ui'.scheme = scheme /\ ui'.key = k
        /\ expert => ui'.path = PathShown(scheme, hdPath', hdPathLen')
    BY <1>3
  <2>3. ScreenIsGood'
    BY <2>2 DEF ScreenIsGood
  <2> QED BY <2>1, <2>3
<1> QED BY <1>1, <1>2, <1>3 DEF FillAddress

LEMMA OasisAddresses ==
  ASSUME AInv, NEW p \in OasisPath, OasisCommand(p)
  PROVE  KnownIsGood' /\ ScreenIsGood' /\ ~Signature'
<1>1. p \in Seq(Component) /\ KnownIsGood
  BY PathAssumption DEF AInv
<1>2. CASE SignFirst(p)
  BY <1>1, <1>2, NoSignature DEF SignFirst, KnownIsGood, ScreenIsGood, Blank
<1>3. ASSUME NEW s \in OasisScheme, GetAddr(s, p)
      PROVE  KnownIsGood' /\ ScreenIsGood' /\ ~Signature'
  <2>1. CASE ~Accepted(p)
    BY <1>1, <1>3, <2>1, NoSignature DEF GetAddr, KnownIsGood, ScreenIsGood, Blank
  <2>2. CASE Accepted(p)
    <3>1. Len(p) \in 1..MAX_BIP32_PATH
      BY <2>2 DEF Accepted, GoodLength, HDPATH_LEN_ADR0008, HDPATH_LEN_DEFAULT,
                  MAX_BIP32_PATH
    <3>2. hdPath' = Copied(Zeroed, p) /\ hdPathLen' = Len(p) /\ asked'.path = p
      BY <1>3, <2>2 DEF GetAddr, extractHDPath, Accepted
    <3>3. s \in Scheme /\ FillAddress(s) /\ expert' = expert
      BY <1>3, <2>2 DEF GetAddr, Scheme
    <3> QED BY <1>1, <3>1, <3>2, <3>3, DerivedAddress, FillAddressHolds, ZeroedType
  <2> QED BY <2>1, <2>2
<1> QED BY <1>2, <1>3 DEF OasisCommand

LEMMA EthAddresses ==
  ASSUME AInv, NEW p \in EthPath, EthCommand(p)
  PROVE  KnownIsGood' /\ ScreenIsGood' /\ ~Signature'
<1>1. p \in Seq(Component) /\ KnownIsGood /\ hdPath \in Slots
  BY PathAssumption DEF AInv, IInv, TypeOK
<1>2. CASE EthSignFirst(p)
  <2>1. known' = known /\ ~Signature'
    BY <1>2, NoSignature DEF EthSignFirst, Signature, Answers
  <2>2. ui' = Blank \/ (ui'.screen = "review" /\ ui'.scheme = "eth")
    BY <1>2, NoSignature DEF EthSignFirst
  <2> QED BY <1>1, <2>1, <2>2 DEF KnownIsGood, ScreenIsGood, Blank, Scheme
<1>3. CASE GetEthAddr(p)
  <2>1. CASE Answer("error") /\ UNCHANGED known
    BY <1>1, <2>1, NoSignature DEF KnownIsGood, ScreenIsGood, Blank
  <2>2. CASE EthAccepted(p) /\ FillAddress("eth")
    <3>1. Len(p) \in 1..MAX_BIP32_PATH
      BY <2>2 DEF EthAccepted, EthGoodLength
    <3>2. hdPath' = Copied(hdPath, p) /\ hdPathLen' = Len(p) /\ asked'.path = p
      BY <1>3, <2>2 DEF GetEthAddr, extract_eth_path, EthAccepted
    <3>3. "eth" \in Scheme /\ expert' = expert
      BY <1>3 DEF GetEthAddr, Scheme
    <3> QED BY <1>1, <2>2, <3>1, <3>2, <3>3, DerivedAddress, FillAddressHolds
  <2> QED BY <1>3, <2>1, <2>2 DEF GetEthAddr
<1> QED BY <1>2, <1>3 DEF EthCommand

\* A key that signs is that of the address of the path asked for.
LEMMA SignerKey ==
  ASSUME TypeOK, SlotsAreAsked, NEW scheme \in Scheme,
         Derivable(SigningKey(scheme, hdPath, hdPathLen)),
         scheme = "eth" \/ (scheme = "secp256k1" /\ asked.protocol = "eth") =>
           Len(asked.path) = HDPATH_LEN_DEFAULT
  PROVE  SigningKey(scheme, hdPath, hdPathLen) = AddressKey(scheme, asked.path)
<1> DEFINE path == asked.path
           five == HDPATH_LEN_DEFAULT
<1>1. hdPath # Zeroed
  <2>1. SigningKey(scheme, hdPath, hdPathLen).path \in
          {Front(hdPath, hdPathLen), Front(hdPath, five)}
    BY SigningKeyIs DEF Key
  <2>2. /\ 2 \in DOMAIN SigningKey(scheme, hdPath, hdPathLen).path
        /\ SigningKey(scheme, hdPath, hdPathLen).path[1] = Purpose
    BY DEF Derivable
  <2>3. \A n \in Nat : 2 \in DOMAIN Front(hdPath, n) => Front(hdPath, n)[1] = hdPath[1]
    BY DEF Front
  <2>4. hdPathLen \in Nat /\ five \in Nat
    BY DEF TypeOK, MAX_BIP32_PATH, HDPATH_LEN_DEFAULT
  <2>5. hdPath[1] = Purpose
    BY <2>1, <2>2, <2>3, <2>4
  <2> QED BY <2>5, PathAssumption DEF Zeroed, MAX_BIP32_PATH
<1>2. /\ path \in Seq(Component) /\ hdPathLen = Len(path)
      /\ Len(path) <= MAX_BIP32_PATH
      /\ \A i \in 1..hdPathLen : hdPath[i] = path[i]
      /\ asked.protocol = "oasis" => hdPath = Copied(Zeroed, path)
      /\ asked.protocol \in {"oasis", "eth"}
  BY <1>1 DEF TypeOK, SlotsAreAsked, MAX_BIP32_PATH
<1>3. Front(hdPath, hdPathLen) = path /\ Front(Copied(Zeroed, path), Len(path)) = path
  BY <1>2, FrontOfCopied, ZeroedType DEF Front
<1>4. scheme = "secp256k1" \/ scheme = "eth" =>
        SigningKey(scheme, hdPath, hdPathLen) = Key("secp256k1", "normal", Front(hdPath, five))
  <2>1. scheme = "eth" => hdPathLen = five
    BY <1>2
  <2> QED BY <2>1, SigningKeyIs
<1>5. scheme = "secp256k1" \/ scheme = "eth" =>
        Front(hdPath, five) = Front(Copied(Zeroed, path), five)
  BY <1>2, <1>3
<1> QED BY <1>2, <1>3, <1>4, <1>5, AddressKeyIs, SigningKeyIs DEF AddressKey, Scheme, OasisScheme

LEMMA ApproveAddresses ==
  ASSUME AInv, Approve
  PROVE  KnownIsGood' /\ ScreenIsGood' /\ SignerHasAddress'
<1>1. /\ SlotsAreAsked /\ TypeOK /\ KnownIsGood
      /\ ui.scheme \in Scheme
      /\ known' = known /\ asked' = asked
  BY DEF AInv, IInv, Pending, Approve, ScreenIsGood
<1>2. ui' = Blank
  BY NoSignature DEF Approve
<1>3. KnownIsGood' /\ ScreenIsGood'
  BY <1>1, <1>2 DEF KnownIsGood, ScreenIsGood, Blank
<1>4. SignerHasAddress'
  <2> DEFINE k == SigningKey(ui.scheme, hdPath, hdPathLen)
  <2>1. CASE Answer("error")
    BY <2>1, NoSignature DEF SignerHasAddress
  <2>2. CASE /\ Derivable(k)
             /\ reply' = [sw |-> "OK", body |-> "signature", scheme |-> ui.scheme,
                          key |-> k]
    <3> SUFFICES ASSUME known.scheme = ui.scheme, known.path = asked.path,
                        ReadsFiveSlots => Len(known.path) = HDPATH_LEN_DEFAULT
                 PROVE  known.key = k
      BY <1>1, <2>2 DEF SignerHasAddress, SameAccount, ReadsFiveSlots
    <3>1. known.key = AddressKey(known.scheme, known.path)
      <4>1. known # NoAddress
        <5>1. ui.scheme # "none"
          BY <1>1 DEF Scheme, OasisScheme
        <5> QED BY <5>1 DEF NoAddress
      <4> QED BY <1>1, <4>1 DEF KnownIsGood, GoodAddress, ReadsFiveSlots
    <3>2. k = AddressKey(ui.scheme, asked.path)
      BY <1>1, <2>2, SignerKey DEF ReadsFiveSlots
    <3> QED BY <3>1, <3>2
  <2> QED BY <2>1, <2>2 DEF Approve
<1> QED BY <1>3, <1>4

LEMMA OtherAddresses ==
  ASSUME AInv, Other
  PROVE  KnownIsGood' /\ ScreenIsGood' /\ SignerHasAddress'
<1>1. UNCHANGED <<hdPath, hdPathLen, asked>> /\ KnownIsGood /\ ScreenIsGood
  BY DEF Other, SignMore, ApproveAddress, Reject, ToggleExpert, AInv
<1>2. ASSUME NEW s \in Scheme, SignMore(s)
      PROVE  KnownIsGood' /\ ScreenIsGood' /\ SignerHasAddress'
  <2>1. known' = known /\ ~Signature'
    BY <1>2, NoSignature DEF SignMore, Signature, Answers
  <2>2. ui' = Blank \/ (ui'.screen = "review" /\ ui'.scheme = s)
    BY <1>2, NoSignature DEF SignMore
  <2> QED BY <1>1, <2>1, <2>2 DEF KnownIsGood, ScreenIsGood, Blank, SignerHasAddress
<1>3. CASE ApproveAddress
  <2>1. known' = known \/ known' = [scheme |-> ui.scheme, path |-> asked.path, key |-> ui.key]
    BY <1>1, <1>3 DEF ApproveAddress, AnswerAddress
  <2>2. GoodAddress(ui.scheme, asked.path, ui.key)
    BY <1>1, <1>3 DEF ApproveAddress, ScreenIsGood
  <2>3. KnownIsGood'
    BY <1>1, <2>1, <2>2 DEF KnownIsGood
  <2>4. ui' = Blank /\ ~Signature'
    BY <1>3 DEF ApproveAddress, AnswerAddress, Signature
  <2> QED BY <2>3, <2>4 DEF ScreenIsGood, Blank, SignerHasAddress
<1>4. CASE Reject
  BY <1>1, <1>4, NoSignature DEF Reject, KnownIsGood, ScreenIsGood, Blank, SignerHasAddress
<1>5. CASE ToggleExpert
  <2>1. ui' = ui /\ reply' = reply /\ known' = known /\ asked' = asked /\ ui.screen = "idle"
    BY <1>5 DEF ToggleExpert, Ready
  <2> QED BY <1>1, <2>1 DEF KnownIsGood, ScreenIsGood, SignerHasAddress, AInv, Signature,
                           SameAccount, ReadsFiveSlots
<1> QED BY <1>2, <1>3, <1>4, <1>5 DEF Other

LEMMA AddressesHold == Spec => []AInv
<1>1. Init => AInv
  <2> SUFFICES ASSUME Init PROVE AInv
    OBVIOUS
  <2>1. ~Signature /\ known = NoAddress /\ ui.screen = "idle"
    BY DEF Init, Signature, Answers, Blank
  <2> QED BY <2>1, InitHolds DEF AInv, KnownIsGood, ScreenIsGood, SignerHasAddress
<1>2. AInv /\ IInv' /\ [Next]_vars => AInv'
  <2> SUFFICES ASSUME AInv, IInv', [Next]_vars
               PROVE  KnownIsGood' /\ ScreenIsGood' /\ SignerHasAddress'
    BY DEF AInv
  <2>1. ASSUME NEW p \in OasisPath, OasisCommand(p)
        PROVE  KnownIsGood' /\ ScreenIsGood' /\ SignerHasAddress'
    BY <2>1, OasisAddresses DEF SignerHasAddress
  <2>2. ASSUME NEW p \in EthPath, EthCommand(p)
        PROVE  KnownIsGood' /\ ScreenIsGood' /\ SignerHasAddress'
    BY <2>2, EthAddresses DEF SignerHasAddress
  <2>3. CASE UNCHANGED vars
    BY <2>3 DEF vars, AInv, KnownIsGood, ScreenIsGood, SignerHasAddress, Signature,
                SameAccount, ReadsFiveSlots
  <2> QED BY <2>1, <2>2, <2>3, NextSplits, ApproveAddresses, OtherAddresses
<1>3. IInv /\ [Next]_vars => IInv'
  BY StepHolds
<1>4. AInv => IInv
  BY DEF AInv
<1> QED BY <1>1, <1>2, <1>3, <1>4, PTL DEF Spec

\* Who asks for the address of a path and later has something signed with it gets
\* the signature of that address's key, whatever the components and whatever
\* happens in between; paths that leave stale slots to be read are the exception
\* SignerHasAddress makes (crypto_fillAddress against app_sign_*).
THEOREM AddressIsSigners == Spec => []SignerHasAddress
<1>1. AInv => SignerHasAddress
  BY DEF AInv
<1> QED BY <1>1, AddressesHold, PTL

\* In expert mode the path on the screen is the one that was asked, followed by
\* zeros where an Oasis path has three components, and every component of it that
\* the address next to it is derived from is that of the key, for paths of any
\* accepted length and whatever commands came before (addr_getItem,
\* eth_addr_getItem).
THEOREM PathOnScreenIsDerived == Spec => []PathShownIsDerived
<1>1. AInv => PathShownIsDerived
  BY DEF AInv, ScreenIsGood, GoodScreen, PathShownIsDerived
<1> QED BY <1>1, AddressesHold, PTL
=============================================================================
