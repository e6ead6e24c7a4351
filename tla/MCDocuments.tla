----------------------------- MODULE MCDocuments -----------------------------
(***************************************************************************)
(* Two sl processes, one of which listens, two users, two entries.  Two    *)
(* commands can overlap, on files that an earlier one has left; of three   *)
(* on documents a third can come before or after them.                     *)
(***************************************************************************)
EXTENDS Documents, TLC

CONSTANTS user, listener, u1, u2, i1, i2, blank

MCProcs == {user, listener}
MCUsers == {u1, u2}
MCItems == {i1, i2}

MCWorkspaces == {Absent, blank}

\* Settings without an SDK directory get that of the default ones.
MCWithSdk == [v \in Values |-> IF v = blank THEN Default ELSE v]

Symmetry == Permutations(MCUsers) \cup Permutations(MCItems)
=============================================================================
