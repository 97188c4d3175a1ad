----------------------------- MODULE MCAccounts -----------------------------
(* A new installation, and one with an administrator and somebody invited. *)
EXTENDS Accounts, TLC

CONSTANTS ann, bob

Member(role) == [role |-> role, password |-> None]
Fresh(u)     == [user |-> u, used |-> FALSE]

MCStarts ==
    {[account |-> [u \in Users |-> None], invites |-> <<>>, resets |-> <<>>],
     [account |-> [u \in Users |-> Member(IF u = ann THEN "admin" ELSE "developer")],
      invites |-> <<Fresh(bob)>>, resets |-> <<Fresh(ann)>>]}

MCAsked == {{}, {"ADMIN"}, {" write", "read"}, {"", "other"}}

MCSymmetry == Permutations(Requests)
=============================================================================
