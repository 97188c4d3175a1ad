------------------------- MODULE MCProjectTransfer -------------------------
(* Two imports into an empty target, where a user may create what is in their way. *)
EXTENDS ProjectTransfer, TLC

MCEnvOrder  == <<"dev", "prod">>
MCNameOrder == <<"api", "web", "tls">>

App(envs, pull, envPull) == [project |-> "p", envs |-> envs, pull |-> pull, envPull |-> envPull]

\* An application that names no environment; a user may add one that names an environment which
\* the project has not, and credentials for it alone.
MCSource ==
    <<"project">> :> [envs |-> <<"dev">>, pull |-> {}]
    @@ <<"app", "api">> :> App(<<>>, {"hub"}, {})
    @@ <<"secret", "api", "dev">> :> "d1"
    @@ <<"vars", "api", "prod">> :> "d1"
    @@ <<"shared", "tls", "prod">> :> "d1"
    @@ <<"registry", "hub">> :> "r1"
    @@ <<"registry", "edge">> :> "r1"

MCStarts == {[source |-> MCSource, target |-> Nothing]}

MCEdits == {<<<<"app", "web">>, App(<<"prod">>, {}, {"edge"})>>,
            <<<<"vars", "web", "prod">>, "d2">>,
            <<<<"secret", "api", "dev">>, "bad">>}

MCCreates == {<<<<"registry", "hub">>, "r2">>,
              <<<<"app", "api">>, App(<<>>, {}, {})>>,
              <<<<"project", "p">>, [envs |-> <<>>, pull |-> {}]>>}

MCSymmetry == Permutations(Imports) \cup Permutations(Readers)

=============================================================================
