--------------------------- MODULE MCAppReconciler ---------------------------
(***************************************************************************)
(* Specs of an app that is edited from one to another: between one           *)
(* environment of its own and the one it inherits from its project.         *)
(***************************************************************************)
EXTENDS AppReconciler

CONSTANTS dev, prod, admin, h1, h2, le, cert, own, job, past, vol, red, blue

Plain(e) == [name |-> e, replicas |-> None, scale |-> None, ports |-> <<>>, ingress |-> None]

NoIngress == [hosts |-> {}, tls |-> FALSE, mode |-> None, secret |-> None, issuer |-> None,
              note |-> None, redirects |-> {}, target |-> None]

Base == [envs |-> {Plain(dev)}, labels |-> red, port |-> 8080, ports |-> <<>>,
         ingress |-> None, claims |-> {}, crons |-> {}, sleep |-> FALSE]

Port80 == [name |-> "http", port |-> 80, target |-> 8080, protocol |-> "TCP"]

Cronjob(n) == [name |-> n, on |-> None, envOn |-> [e \in Envs |-> None]]

\* One environment, scaled, with domains, a certificate of the app's and an issuer of
\* the environment's.
Scaled == [Base EXCEPT !.envs = {[Plain(dev) EXCEPT !.scale = [min |-> 1, max |-> 2],
                                                    !.ingress = [NoIngress EXCEPT !.tls = None,
                                                                                  !.issuer = le]]},
                       !.ingress = [NoIngress EXCEPT !.hosts = {h1}, !.tls = TRUE,
                                                     !.redirects = {h2}, !.secret = cert]]

\* The environments of the project, and other labels.
Relabelled == [Base EXCEPT !.envs = {}, !.labels = blue, !.crons = {Cronjob(past)}]

\* One environment and two named ports, and an extra cron job that is off.
Narrow == [Base EXCEPT !.crons = {Cronjob(job), [Cronjob(past) EXCEPT !.on = FALSE]},
                       !.ports = <<Port80, [Port80 EXCEPT !.port = 9090]>>]

MCNarrow == {Narrow, Scaled, Relabelled}
MCTemplate == [e \in Envs |-> None]
==============================================================================
