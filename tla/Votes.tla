------------------------------- MODULE Votes -------------------------------
(***************************************************************************)
(* The data of the validator's vote guard: votes, the order in which a     *)
(* Tendermint validator casts them, and the transition check of            *)
(* vote_fsm.c.  The check compares heights and rounds and never computes   *)
(* with them, so the 64-bit width of the C fields plays no part here.      *)
(***************************************************************************)
EXTENDS Integers

TYPE_PREVOTE   == 1
TYPE_PRECOMMIT == 2
TYPE_PROPOSAL  == 32

VoteType == {TYPE_PREVOTE, TYPE_PRECOMMIT, TYPE_PROPOSAL}

\* A vote that parser_validate has accepted.
Vote == [Type : VoteType, Height : Nat, Round : Nat]

\* What vote_amino_parse can deliver: Type is a byte and Height an int64_t,
\* neither of them checked yet.
RawVote == [Type : Nat, Height : Int, Round : Int]

\* The zeroed vote_t: the globals at power on and after parser_validate's reset.
NoVote == [Type |-> 0, Height |-> 0, Round |-> 0]

\* Mutant of Acceptable: the height is not checked.
AcceptableAnyHeight(v) ==
  /\ v.Type \in VoteType
  /\ v.Round >= 0

\* The range checks of parser_validate.
Acceptable(v) ==
  /\ v.Type \in VoteType
  /\ v.Height >= 0
  /\ v.Round >= 0

-----------------------------------------------------------------------------
\* The rank of a vote within its round: proposal, then prevote, then precommit.
Rank(t) == CASE t = TYPE_PROPOSAL -> 0
             [] t = TYPE_PREVOTE -> 1
             [] OTHER -> 2

\* The order of a validator's votes, by height, round and step: the reference
\* the code's check is held against.
Precedes(s, v) ==
  \/ s.Height < v.Height
  \/ s.Height = v.Height /\ s.Round < v.Round
  \/ s.Height = v.Height /\ s.Round = v.Round /\ Rank(s.Type) < Rank(v.Type)

\* Mutants of validate_state_transition: a round is accepted again; a precommit
\* follows a precommit.
transition_same_round(s, v) ==
  \/ v.Height > s.Height
  \/ v.Height = s.Height /\ v.Round >= s.Round

transition_any_precommit(s, v) ==
  \/ v.Height > s.Height
  \/ v.Height = s.Height /\ v.Round > s.Round
  \/ /\ v.Height = s.Height
     /\ v.Round = s.Round
     /\ \/ v.Type = TYPE_PREVOTE /\ s.Type = TYPE_PROPOSAL
        \/ v.Type = TYPE_PRECOMMIT

\* validate_state_transition() for an initialised vote_state whose vote is s.
validate_state_transition(s, v) ==
  \/ v.Height > s.Height
  \/ v.Height = s.Height /\ v.Round > s.Round
  \/ /\ v.Height = s.Height
     /\ v.Round = s.Round
     /\ \/ v.Type = TYPE_PREVOTE /\ s.Type = TYPE_PROPOSAL
        \/ v.Type = TYPE_PRECOMMIT /\ s.Type # TYPE_PRECOMMIT
=============================================================================
