----------------------------- MODULE MCKeyPaths -----------------------------
(***************************************************************************)
(* KeyPaths on a handful of paths.  h0 is 0', z the component 0, n another *)
(* that is not hardened; 5 is the length of an ordinary path.              *)
(***************************************************************************)
EXTENDS KeyPaths

CONSTANTS p44, c474, c60, h0, z, n

Components == {p44, c474, c60, h0, z, n}
HardenedOnes == {p44, c474, c60, h0}

\* Both accepted lengths, two accounts, the coin Ethereum uses with both, an ADR
\* 0008 path that is not hardened, and one that is too short.
OasisPaths ==
  { <<p44, c474, h0, z, n>>, <<p44, c474, h0>>, <<p44, c60, h0, h0, n>>,
    <<p44, c60, h0>>, <<p44, c474, n>>, <<p44, c474>> }

\* Paths shorter and longer than five, one of a single component, one refused,
\* one longer than the slots.
EthPaths ==
  { <<p44, c60, h0, h0, n>>, <<p44, c60, h0>>, <<p44, c60, h0, h0, n, n>>,
    <<p44>>, <<p44, c474, h0, z, n>>, <<p44, c60, h0, h0, n, n, n, n, n, n, n>> }
=============================================================================
