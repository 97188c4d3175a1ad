------------------------------ MODULE MCBuilds ------------------------------
(***************************************************************************)
(* Two builds of two commits that have one name for their Jobs: one for an *)
(* environment that follows the app's repository, one for an environment   *)
(* that has its own.                                                       *)
(***************************************************************************)
EXTENDS Builds

CONSTANTS b1, b2, staging, prod, c1, c2, build_app, plain, with_port

MCJobName == [c \in Commits |-> build_app]
MCSha     == [c \in Commits |-> c]
MCOwn     == [e \in Envs |-> IF e = prod THEN plain ELSE None]
OneEach   == {[env |-> staging, commit |-> c1], [env |-> prod, commit |-> c2]}
=============================================================================

