----------------------------- MODULE VoteGuard -----------------------------
(***************************************************************************)
(* What the validator application promises the owner of a consensus key:   *)
(* between two power cycles it signs votes in strictly increasing order,   *)
(* above a vote that was set once and never signed.                        *)
(***************************************************************************)
EXTENDS Votes

VARIABLES
  watermark,  \* the last vote accepted since power on, NoVote before the first
  cast        \* the votes signed since power on

guardVars == <<watermark, cast>>

GuardInit ==
  /\ watermark = NoVote
  /\ cast = {}

\* The first vote only sets the watermark: it is not signed.
Arm ==
  /\ watermark = NoVote
  /\ watermark' \in Vote
  /\ cast' = cast

\* A later vote is accepted above the watermark.  It is signed unless the
\* signature itself fails, and is spent in both cases.
Advance ==
  /\ watermark # NoVote
  /\ watermark' \in Vote
  /\ Precedes(watermark, watermark')
  /\ cast' \in {cast, cast \cup {watermark'}}

\* Power off forgets everything.
PowerCycle ==
  /\ watermark' = NoVote
  /\ cast' = {}

GuardNext == Arm \/ Advance \/ PowerCycle

GuardSpec == GuardInit /\ [][GuardNext]_guardVars
=============================================================================
