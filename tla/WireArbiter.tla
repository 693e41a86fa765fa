---------------------------- MODULE WireArbiter ----------------------------
(***************************************************************************)
(* What the two tokens of the probe's pin driver promise: each group of    *)
(* wires has at most one user, a user takes a group only when nobody holds *)
(* it, and a group changes hands only by being given up first.  It says    *)
(* nothing of commands, drivers or tasks; AccessPort implements it.        *)
(***************************************************************************)

CONSTANTS Wires,     \* the groups of wires that are guarded
          Users,     \* whoever drives wires
          Free       \* no user

VARIABLE owner       \* who drives each group of wires

ArbiterInit == owner \in [Wires -> Users \cup {Free}]

\* User u takes the free groups in W, all at once.
Take(u, W) ==
    /\ \A w \in W : owner[w] = Free
    /\ owner' = [w \in Wires |-> IF w \in W THEN u ELSE owner[w]]

\* User u gives up the groups in W, all of them its own.
GiveUp(u, W) ==
    /\ \A w \in W : owner[w] = u
    /\ owner' = [w \in Wires |-> IF w \in W THEN Free ELSE owner[w]]

ArbiterNext == \E u \in Users, W \in SUBSET Wires : Take(u, W) \/ GiveUp(u, W)

ArbiterSpec == ArbiterInit /\ [][ArbiterNext]_owner
=============================================================================
