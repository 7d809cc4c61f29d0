---------------------------- MODULE MCCompetition ----------------------------
(***************************************************************************)
(* Small instances of Competition: two options and two viewers.  Each      *)
(* configuration picks its events from the tables below; v1 votes red and  *)
(* later blue, so that a switch, a vote limit, a like that follows a switch *)
(* and a draw between two participants can all happen.                     *)
(***************************************************************************)
EXTENDS CompetitionInvariant, TLC

CONSTANTS h1, h2, v1, v2, red, blue, e1, e2, e3, e4

\* e1 and e2 are votes of two viewers for different options: a tie.
TieVoter  == [e \in Events |-> IF e = e1 THEN v1 ELSE v2]
TieChoice == [e \in Events |-> IF e = e1 THEN red ELSE blue]
AllVotes  == [e \in Events |-> "vote"]

\* v1 votes red, then blue, and sends a like; v2 votes red.
MixedVoter   == [e \in Events |-> IF e = e4 THEN v2 ELSE v1]
SwitchChoice == [e \in Events |-> IF e = e2 THEN blue ELSE red]
LikeLast     == [e \in Events |-> IF e = e3 THEN "like" ELSE "vote"]

\* Hosts differ in nothing but their name.
HostSymmetry == Permutations(Hosts)
=============================================================================
