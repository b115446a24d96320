------------------------------ MODULE KeyPaths ------------------------------
(***************************************************************************)
(* Which key a command uses.  The ten slots of hdPath and the byte         *)
(* hdPathLen are globals that every command with a path writes, each       *)
(* protocol in its own way; an address or a signature derives its key from *)
(* them later, some functions from hdPathLen slots and some from five.     *)
(*                                                                         *)
(* The session is ChunkSession's and EthSession's without the payload: a   *)
(* packet that completes a transaction is accepted or not.  That a status  *)
(* word is written over an Ethereum address under review is ConsumerApp's. *)
(***************************************************************************)
EXTENDS Integers, Sequences, FiniteSets

CONSTANTS
  Component,   \* the components the host uses, with their hardened bit
  Hardened,    \* those that have the bit set
  Zero,        \* the component of a zeroed slot
  Purpose,     \* HDPATH_0_DEFAULT, HDPATH_ETH_0_DEFAULT
  Coin,        \* HDPATH_1_DEFAULT and its two alternatives
  EthCoin,     \* HDPATH_ETH_1_DEFAULT
  OasisPath,   \* paths the host sends with Oasis commands
  EthPath      \* paths it sends with Ethereum commands

MAX_BIP32_PATH     == 10
HDPATH_LEN_DEFAULT == 5
HDPATH_LEN_ADR0008 == 3

ASSUME PathAssumption ==
  /\ Hardened \subseteq Component
  /\ Zero \in Component \ Hardened
  /\ Purpose \in Hardened /\ Coin \subseteq Hardened /\ EthCoin \in Coin
  /\ OasisPath \subseteq Seq(Component)
  /\ EthPath \subseteq Seq(Component)

VARIABLES
  hdPath,          \* the slots
  hdPathLen,       \* how many of them the last accepted path has
  tx_initialized,  \* the session flag
  tx_type,         \* which parser reads the transaction
  expert,          \* the expert mode setting
  ui,              \* what the user is asked, and the key of the answer that waits
  reply,           \* the last answer; all error words are one
  asked,           \* history: the path of the last command that carried one
  known            \* history: an address the host was answered and remembers

session == <<tx_initialized, tx_type>>
vars    == <<hdPath, hdPathLen, session, expert, ui, reply, asked, known>>

OasisScheme == {"ed25519", "secp256k1", "sr25519"}
Scheme      == OasisScheme \cup {"eth"}

Slots  == [1..MAX_BIP32_PATH -> Component]
Zeroed == [i \in 1..MAX_BIP32_PATH |-> Zero]

NoKey == [curve |-> "none"]
NoAddress == [scheme |-> "none"]
Blank == [screen |-> "idle", scheme |-> "none", key |-> NoKey, path |-> <<>>]
Answers(sw) == [sw |-> sw, body |-> "none", scheme |-> "none", key |-> NoKey]

Init ==
  /\ hdPath = Zeroed
  /\ hdPathLen = 0
  /\ tx_initialized = FALSE
  /\ tx_type = "oasis"
  /\ expert \in BOOLEAN
  /\ ui = Blank
  /\ reply = Answers("none")
  /\ asked = [protocol |-> "oasis", path |-> <<>>]
  /\ known = NoAddress

-----------------------------------------------------------------------------
\* Paths.  A payload of components is copied to the front of the slots.
Copied(slots, p) ==
  [i \in 1..MAX_BIP32_PATH |-> IF i <= Len(p) THEN p[i] ELSE slots[i]]

\* The paths extractHDPath copies, and those it accepts.
GoodLength(p) == Len(p) \in {HDPATH_LEN_ADR0008, HDPATH_LEN_DEFAULT}

Accepted(p) ==
  /\ GoodLength(p)
  /\ p[1] = Purpose /\ p[2] \in Coin
  /\ Len(p) = HDPATH_LEN_ADR0008 => p[3] \in Hardened

\* Mutant: the slots are not cleared first.
extractHDPathKeeps(p) ==
  /\ hdPath' = IF GoodLength(p) THEN Copied(hdPath, p) ELSE hdPath
  /\ hdPathLen' = IF GoodLength(p) THEN Len(p) ELSE hdPathLen
  /\ asked' = [protocol |-> "oasis", path |-> p]

extractHDPath(p) ==
  /\ hdPath' = IF GoodLength(p) THEN Copied(Zeroed, p) ELSE Zeroed
  /\ hdPathLen' = IF GoodLength(p) THEN Len(p) ELSE hdPathLen
  /\ asked' = [protocol |-> "oasis", path |-> p]

\* Mutant: no upper bound.
EthLengthNoMaximum(p) == Len(p) >= 1

\* extract_eth_path compares the first two slots, of which a path of one component
\* writes one.
EthGoodLength(p) == Len(p) \in 1..MAX_BIP32_PATH

EthAccepted(p) ==
  /\ EthGoodLength(p)
  /\ Copied(hdPath, p)[1] = Purpose /\ Copied(hdPath, p)[2] = EthCoin

\* Mutant: the length is not taken over.
extract_eth_path_keeps(p) ==
  /\ hdPath' = IF EthGoodLength(p) THEN Copied(hdPath, p) ELSE hdPath
  /\ asked' = [protocol |-> "eth", path |-> p]
  /\ UNCHANGED hdPathLen

\* The length is written after the check: a refused path leaves the old one.
extract_eth_path(p) ==
  /\ hdPath' = IF EthGoodLength(p) THEN Copied(hdPath, p) ELSE hdPath
  /\ hdPathLen' = IF EthAccepted(p) THEN Len(p) ELSE hdPathLen
  /\ asked' = [protocol |-> "eth", path |-> p]

-----------------------------------------------------------------------------
\* Keys.  Two keys are the same only if curve, derivation mode and path are.
\* Front is what a derivation reads: the first n of the slots.
Front(slots, n) == [i \in 1..n |-> slots[i]]

Mode(len) == IF len = HDPATH_LEN_ADR0008 THEN "slip10" ELSE "normal"

Key(curve, mode, path) == [curve |-> curve, mode |-> mode, path |-> path]

\* The key of an address.  A failed step leaves a zeroed key and an error.
crypto_extractPublicKeyEd25519(slots, len) == Key("ed25519", Mode(len), Front(slots, len))

crypto_extractPublicKeySr25519(slots, len) == Key("sr25519", Mode(len), Front(slots, len))

crypto_extractPublicKeySecp256k1(slots) ==
  Key("secp256k1", "normal", Front(slots, HDPATH_LEN_DEFAULT))

\* The key of a signature, derived anew.
crypto_signEd25519(slots, len) == Key("ed25519", Mode(len), Front(slots, len))

\* Mutant: an ADR 0008 path is derived as any other where it signs.
sign_sr25519_normal(slots, len) == Key("sr25519", "normal", Front(slots, len))

crypto_sign_sr25519(slots, len) == Key("sr25519", Mode(len), Front(slots, len))

crypto_signSecp256k1(slots) ==
  Key("secp256k1", "normal", Front(slots, HDPATH_LEN_DEFAULT))

\* _sign of crypto_sign_eth: as many components as were sent.
sign_eth(slots, len) == Key("secp256k1", "normal", Front(slots, len))

\* crypto_fillAddress: which function fills an address.
crypto_fillAddress(scheme, slots, len) ==
  CASE scheme = "ed25519" -> crypto_extractPublicKeyEd25519(slots, len)
    [] scheme = "sr25519" -> crypto_extractPublicKeySr25519(slots, len)
    [] OTHER              -> crypto_extractPublicKeySecp256k1(slots)

\* The function view_review_init was given, and which function that calls.
SigningKey(scheme, slots, len) ==
  CASE scheme = "secp256k1" -> crypto_signSecp256k1(slots)
    [] scheme = "eth"       -> sign_eth(slots, len)
    [] scheme = "sr25519"   -> crypto_sign_sr25519(slots, len)
    [] OTHER                -> crypto_signEd25519(slots, len)

\* os_derive_bip32_with_seed_no_throw: the application may use the paths of its
\* APPPATH (app/Makefile:57); SLIP-10 has hardened components only.
Derivable(k) ==
  /\ 2 \in DOMAIN k.path
  /\ k.path[1] = Purpose /\ k.path[2] \in Coin
  /\ k.mode = "slip10" => \A i \in DOMAIN k.path : k.path[i] \in Hardened

-----------------------------------------------------------------------------
Ready == ui.screen = "idle"

Answer(sw) == ui' = Blank /\ reply' = Answers(sw)

\* process_chunk, first packet: a refused path leaves the flag as it was.
SignFirst(p) ==
  /\ Ready
  /\ extractHDPath(p)
  /\ tx_type' = "oasis"
  /\ tx_initialized' = (tx_initialized \/ Accepted(p))
  /\ Answer(IF Accepted(p) THEN "OK" ELSE "error")
  /\ UNCHANGED <<expert, known>>

\* process_chunk_eth, first packet: refused, open, or already complete.
EthSignFirst(p) ==
  /\ Ready
  /\ extract_eth_path(p)
  /\ tx_type' = "eth"
  /\ \/ tx_initialized' = FALSE /\ Answer("error")
     \/ EthAccepted(p) /\ tx_initialized' = TRUE /\ Answer("OK")
     \/ EthAccepted(p) /\ tx_initialized' = TRUE /\ Answer("error")
     \/ /\ EthAccepted(p) /\ tx_initialized' = TRUE
        /\ ui' = [screen |-> "review", scheme |-> "eth", key |-> NoKey, path |-> <<>>]
        /\ reply' = Answers("none")
  /\ UNCHANGED <<expert, known>>

\* A packet after the first: it does not fit or has a wrong P1 (the session is
\* closed), it is taken, or it is the last and the transaction is refused or
\* reviewed.  The last Ethereum packet closes the session, an Oasis one does not.
SignMore(scheme) ==
  /\ Ready /\ tx_initialized
  /\ \/ tx_initialized' \in BOOLEAN /\ Answer("error")
     \/ tx_initialized' = TRUE /\ Answer("OK")
     \/ /\ tx_initialized' = (scheme # "eth")
        /\ \/ Answer("error")
           \/ /\ ui' = [screen |-> "review", scheme |-> scheme, key |-> NoKey, path |-> <<>>]
              /\ reply' = Answers("none")
  /\ UNCHANGED <<hdPath, hdPathLen, tx_type, expert, asked, known>>

-----------------------------------------------------------------------------
\* Addresses.  The path shown in expert mode: addr_getItem takes five
\* components, eth_addr_getItem hdPathLen.
PathShown(scheme, slots, len) ==
  Front(slots, IF scheme = "eth" THEN len ELSE HDPATH_LEN_DEFAULT)

\* The answer with an address.  The host remembers one of all it gets, any one.
AnswerAddress(scheme, k) ==
  /\ ui' = Blank
  /\ reply' = [sw |-> "OK", body |-> "address", scheme |-> scheme, key |-> k]
  /\ known' \in {known, [scheme |-> scheme, path |-> asked'.path, key |-> k]}

\* app_fill_address and the rest of handleGetAddr and handleGetEthAddr, after an
\* accepted path: no key, an answer, or a question.
FillAddress(scheme) ==
  LET k == crypto_fillAddress(scheme, hdPath', hdPathLen') IN
  \/ Answer("error") /\ UNCHANGED known
  \/ Derivable(k) /\ AnswerAddress(scheme, k)
  \/ /\ Derivable(k)
     /\ ui' = [screen |-> "address", scheme |-> scheme, key |-> k,
               path |-> IF expert THEN PathShown(scheme, hdPath', hdPathLen')
                                  ELSE <<>>]
     /\ reply' = Answers("none")
     /\ UNCHANGED known

GetAddr(scheme, p) ==
  /\ Ready
  /\ extractHDPath(p)
  /\ IF Accepted(p) THEN FillAddress(scheme)
                    ELSE Answer("error") /\ UNCHANGED known
  /\ UNCHANGED <<session, expert>>

\* The chain code parameter is checked after the path is written.
GetEthAddr(p) ==
  /\ Ready
  /\ extract_eth_path(p)
  /\ tx_initialized' = FALSE
  /\ \/ EthAccepted(p) /\ FillAddress("eth")
     \/ Answer("error") /\ UNCHANGED known
  /\ UNCHANGED <<tx_type, expert>>

-----------------------------------------------------------------------------
\* app_sign_*: the key is derived when the user approves.
Approve ==
  /\ ui.screen = "review"
  /\ LET k == SigningKey(ui.scheme, hdPath, hdPathLen) IN
     \/ Answer("error")
     \/ /\ Derivable(k)
        /\ ui' = Blank
        /\ reply' = [sw |-> "OK", body |-> "signature", scheme |-> ui.scheme, key |-> k]
  /\ UNCHANGED <<hdPath, hdPathLen, session, expert, asked, known>>

\* app_reply_address
ApproveAddress ==
  /\ ui.screen = "address"
  /\ UNCHANGED <<hdPath, hdPathLen, session, expert, asked>>
  /\ AnswerAddress(ui.scheme, ui.key)

\* app_reject
Reject ==
  /\ ~Ready
  /\ Answer("error")
  /\ UNCHANGED <<hdPath, hdPathLen, session, expert, asked, known>>

ToggleExpert ==
  /\ Ready
  /\ expert' = ~expert
  /\ UNCHANGED <<hdPath, hdPathLen, session, ui, reply, asked, known>>

Next ==
  \/ \E p \in OasisPath :
       SignFirst(p) \/ \E s \in OasisScheme : GetAddr(s, p)
  \/ \E p \in EthPath : EthSignFirst(p) \/ GetEthAddr(p)
  \/ \E s \in Scheme : SignMore(s)
  \/ Approve \/ ApproveAddress \/ Reject \/ ToggleExpert

Spec == Init /\ [][Next]_vars

-----------------------------------------------------------------------------
TypeOK ==
  /\ hdPath \in Slots
  /\ hdPathLen \in 0..MAX_BIP32_PATH
  /\ tx_initialized \in BOOLEAN
  /\ tx_type \in {"oasis", "eth"}
  /\ expert \in BOOLEAN
  /\ ui.screen \in {"idle", "review", "address"}
  /\ ui.scheme \in Scheme \cup {"none"}
  /\ asked.protocol \in {"oasis", "eth"} /\ asked.path \in Seq(Component)

Signature == reply.body = "signature"

\* A signature is made with the key of the path the host sent last, in full and
\* with no component of an earlier command, whatever commands of either protocol
\* were accepted or refused since the session was opened.  The secp256k1 scheme
\* of Oasis takes five components: a path of three is filled with zeros.
SignsAskedPath ==
  Signature =>
    /\ reply.scheme # "secp256k1" => reply.key.path = asked.path
    /\ reply.scheme = "secp256k1" /\ asked.protocol = "oasis" =>
         reply.key.path = Front(Copied(Zeroed, asked.path), HDPATH_LEN_DEFAULT)

\* The address the host remembers is the one of the signature's scheme and path.
SameAccount == known.scheme = reply.scheme /\ known.path = asked.path

\* Where the slots behind a shorter path are read too, and the command that wrote
\* the path has not cleared them: the address of an Ethereum path is derived from
\* five slots, and so is a secp256k1 signature of an Ethereum session that packets
\* of the Oasis command have completed.
ReadsFiveSlots ==
  known.scheme = "eth" \/ (known.scheme = "secp256k1" /\ asked.protocol = "eth")

\* Who asks for the address of a path and later has something signed with that
\* path gets the signature of that address's key, on every scheme, but for paths
\* that do not fill the five slots where stale ones are read
\* (crypto_fillAddress and app_sign_* derive the key in different functions).
SignerHasAddress ==
  /\ Signature /\ SameAccount
  /\ ReadsFiveSlots => Len(known.path) = HDPATH_LEN_DEFAULT
  => known.key = reply.key

\* In expert mode the path on the screen is the one that was asked, of no earlier
\* command, and it names the key next to it: each component that is both shown and
\* derived is the same (addr_getItem, eth_addr_getItem read the globals for every
\* page).  Screen and key may differ in length.  An Oasis path of three is shown as
\* five, with zeros at the end; an Ethereum address is derived from five slots,
\* however many are shown.
PathShownIsDerived ==
  ui.screen = "address" /\ expert =>
    /\ ui.path = IF ui.scheme = "eth" THEN asked.path
                 ELSE Front(Copied(Zeroed, asked.path), HDPATH_LEN_DEFAULT)
    /\ \A i \in DOMAIN ui.path \cap DOMAIN ui.key.path : ui.path[i] = ui.key.path[i]
=============================================================================
