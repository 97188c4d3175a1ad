--------------------------- MODULE MCEnvironments ---------------------------
(***************************************************************************)
(* Two projects with an environment dev or two, an application, and two    *)
(* requests that meet.                                                     *)
(***************************************************************************)
EXTENDS Environments, TLC

CONSTANTS p1, p2, dev, qa, prod, app, main, feature, red, blue

MCProjectOrder == <<p1, p2>>
MCNameOrder    == <<dev, qa, prod>>
MCAppOrder     == <<app>>
MCHome         == app :> p1
Empty          == [f \in {} |-> Absent]

NewEntry(n, b) == [name |-> n, branch |-> b, auto |-> FALSE]
NewCR(p, n, b, c) == n :> [project |-> p, branch |-> b, auto |-> FALSE, label |-> p, count |-> c]

Create(p, n)    == [op |-> "create", project |-> p, name |-> n, change |-> [branch |-> feature, auto |-> TRUE]]
Clone(p, s, n)  == [op |-> "clone", project |-> p, source |-> s, name |-> n, change |-> Empty]
Branch(p, n)    == [op |-> "update", project |-> p, name |-> n, change |-> [branch |-> feature]]
Auto(p, n)      == [op |-> "update", project |-> p, name |-> n, change |-> [auto |-> TRUE]]
Delete(p, n)    == [op |-> "delete", project |-> p, name |-> n]
Team(p, t)      == [op |-> "updateProject", project |-> p, body |-> [team |-> t]]
Lists(p, envs)  == [op |-> "updateProject", project |-> p, body |-> [envs |-> envs]]
NewProject(p)   == [op |-> "createProject", project |-> p, team |-> red]
EndProject(p)   == [op |-> "deleteProject", project |-> p]

Asked == <<Create(p1, qa), Clone(p1, dev, qa), Clone(p1, dev, prod), Branch(p1, dev), Auto(p1, dev),
           Delete(p1, dev), Team(p1, blue), EndProject(p1),
           Lists(p1, <<NewEntry(dev, feature), NewEntry(qa, main), NewEntry(dev, main)>>)>>
Elsewhere == {Create(p2, dev), Delete(p2, dev), NewProject(p2), Branch(p2, dev)}

\* One of the two orders is enough: requests begin in any.
Pairs(s) == {<<s[p[1]], s[p[2]]>> : p \in {q \in (1..Len(s)) \X (1..Len(s)) : q[1] <= q[2]}}

Of(envs, team) == [envs |-> envs, team |-> team, own |-> TRUE, label |-> team, count |-> Len(envs)]

\* One project with an environment, the other with none or not there; the operator has seen
\* them, but for a VestaEnvironment that was applied by hand.
Start(other, label, envs, asked) ==
    [projects |-> [p \in Projects |-> IF p = p1 THEN Of(<<NewEntry(dev, main)>>, red) ELSE other],
     crs      |-> [n \in Names |-> IF n = dev THEN [NewCR(p1, dev, main, 1)[dev] EXCEPT !.label = label] ELSE Absent],
     apps     |-> app :> envs,
     queue    |-> [k \in Controllers |-> IF k = "environment" /\ label = Absent THEN <<dev>> ELSE <<>>],
     asked    |-> asked]

\* qa was cloned, removed, cloned again and removed: the application names it twice.
MCStarts ==
    {Start(Absent, p1, <<dev>>, q) : q \in Pairs(Asked)}
    \cup {Start(Absent, Absent, <<>>, q) : q \in Pairs(<<Branch(p1, dev), Delete(p1, dev)>>)}
    \cup {Start(Absent, p1, <<dev, qa, qa>>, q) : q \in Pairs(<<Create(p1, qa), Branch(p1, dev)>>)}
    \cup {Start(other, p1, <<dev>>, 1 :> x @@ 2 :> y) :
             other \in {Absent, Of(<<>>, Absent)}, x \in {Delete(p1, dev), Branch(p1, dev)}, y \in Elsewhere}

=============================================================================
