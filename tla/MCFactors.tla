----------------------------- MODULE MCFactors -----------------------------
(***************************************************************************)
(* An account with or without an app and a passkey, with codes, grants and *)
(* ceremonies left from before, and two requests that meet.                *)
(***************************************************************************)
EXTENDS Factors, TLC

CONSTANTS r1, r2, r3

Of(k, n) == {[kind |-> k, id |-> i] : i \in 1..n}

App == {None, [secret |-> 1, confirmed |-> FALSE, last |-> 0],
        [secret |-> 1, confirmed |-> TRUE, last |-> 1]}

HasFactor(a) == a.passkeys # {} \/ (a.totp # None /\ a.totp.confirmed)

\* Codes are there only with a factor.
MCAccounts ==
    {a \in [totp : App, passkeys : {{}, {1}}, codes : {{}, Of("code", 1)},
            grants : {Of("grant", 2)},
            ceremonies : {Of("register", 1) \cup Of("authenticate", 1)},
            tokens : {{}, {"session"}},
            serial : {[k \in Things |-> CASE k \in {"code", "grant"} -> 2 [] k = "reauth" -> 0 [] OTHER -> 1]}] :
       a.codes # {} => HasFactor(a)}

Symmetry == Permutations(Requests)
=============================================================================
