----------------------------- MODULE MCSecrets -----------------------------
(***************************************************************************)
(* Two environments, with a secret stored before keys were validated, and  *)
(* two requests that meet.                                                 *)
(***************************************************************************)
EXTENDS Secrets, TLC

CONSTANTS dev, prod, a, b, bad

MCEnvOrder == <<dev, prod>>
Nothing    == [k \in {} |-> None]
Set(k, v)  == k :> v

Ask(op, kind, envs, data, keys) == [op |-> op, kind |-> kind, envs |-> envs, data |-> data, keys |-> keys]

\* Requests that are about one object, any two of which may meet.
Own    == {Ask("createSecret", "own", <<dev>>, Set(b, 2), {}),
           Ask("deleteSecretKey", "own", <<dev>>, Nothing, {a}),
           Ask("updateSecret", "own", <<>>, Set(a, 2), {}),
           Ask("deleteSecret", "own", <<>>, Nothing, {})}
Shared == {Ask("createShared", "shared", <<dev, prod>>, Set(b, 1), {}),
           Ask("updateShared", "shared", <<>>, Set(a, 2), {b}),
           Ask("deleteShared", "shared", <<>>, Nothing, {}),
           [op |-> "bind", env |-> prod], [op |-> "unbind", env |-> dev]}
Vars   == {Ask("createVars", "vars", <<dev>>, Set(b, 1), {}),
           Ask("deleteVarsKey", "vars", <<dev>>, Nothing, {a})}
Cred   == {Ask("createRegistry", "registry", <<>>, Set(a, 1), {}),
           Ask("deleteRegistry", "registry", <<>>, Nothing, {})}

\* Requests that are refused, and one about another environment.
Others == {Ask("createSecret", "own", <<prod>>, Set(bad, 2), {}),
           Ask("createSecret", "own", <<prod>>, Set(b, 2), {}),
           Ask("createVars", "vars", <<prod>>, Set(bad, 1), {}),
           [op |-> "unbind", env |-> None]}

\* One of the two orders is enough: requests begin in any.
Pairs(G) == LET n == CHOOSE f \in [G -> 1..5] : \A x, y \in G : x # y => f[x] # f[y]
            IN  {p \in [{1, 2} -> G] : n[p[1]] <= n[p[2]]}

\* Each pair starts with what it is about.
Start(G, some, bindings) ==
    [store : {[o \in Objects |-> IF o \in DOMAIN some THEN some[o] ELSE None]},
     bound : bindings, asked : Pairs(G)]

DevOwn     == <<dev, "own">> :> [k \in {a, bad} |-> 1]
BothShared == <<dev, "shared">> :> Set(a, 1) @@ <<prod, "shared">> :> Set(a, 1)
DevVars    == <<dev, "vars">> :> Set(a, 1)

MCStarts == Start(Own, DevOwn, {{}}) \cup Start(Shared, BothShared, {{dev}})
            \cup Start(Vars, DevVars, {{}}) \cup Start(Cred, Registry :> Set(b, 1), {{}})
            \cup Start(Others, DevOwn, {{dev}})

=============================================================================
