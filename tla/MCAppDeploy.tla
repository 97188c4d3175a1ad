----------------------------- MODULE MCAppDeploy -----------------------------
(***************************************************************************)
(* Workloads for AppDeploy: an app with two environments, dev with no      *)
(* image of its own and prod pinned to a tag, and the sets of requests the *)
(* runs draw from.                                                         *)
(***************************************************************************)
EXTENDS AppDeploy

CONSTANTS dev, prod, qa, r1, v0, v1, v2, c0, c1

MCApp == [image |-> [repo |-> r1, tag |-> v0],
          envs  |-> <<[name |-> dev,  image |-> NoImage],
                      [name |-> prod, image |-> [repo |-> None, tag |-> v1]]>>,
          cfg   |-> c0]

MCProjectEnvs == <<dev, prod>>

Req(kind, e, tag) == [kind |-> kind, env |-> e, new |-> None, repo |-> None, tag |-> tag,
                      version |-> 0, patch |-> None]
Deploy(e, tag)   == Req("deploy", e, tag)
Pin(e, tag)      == Req("pin", e, tag)
Schedule(e, tag) == Req("schedule", e, tag)
Rollback(e, n)   == [Req("rollback", e, None) EXCEPT !.version = n]
Clone(e, new)    == [Req("clone", e, None) EXCEPT !.new = new]
Limits(e)        == Req("limits", e, None)
Update(patch)    == [Req("update", None, None) EXCEPT !.patch = patch]

SetCfg        == [image |-> None, envs |-> None, cfg |-> c1]
ListEnvs(seq, image) == [image |-> None, cfg |-> None,
                         envs  |-> [i \in DOMAIN seq |-> [name |-> seq[i], image |-> image]]]

\* An update that reorders the environments, with an image for one and none for the other.
Reorder == [image |-> None, cfg |-> None, envs |-> <<[name |-> prod, image |-> None],
                                                     [name |-> dev, image |-> Null]>>]

\* One of each kind.
AllInputs == {Deploy(prod, v2), Schedule(dev, v2), Pin(prod, v0), Rollback(prod, 1), Clone(prod, qa),
              Limits(dev), Update(SetCfg), Update(Reorder)}

UpdateInputs == {Deploy(prod, v2), Update(ListEnvs(<<dev, prod>>, None))}
=============================================================================
