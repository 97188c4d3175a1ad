---------------------------- MODULE VestaAppSpec ----------------------------
(***************************************************************************)
(* The image part of a VestaApp's spec, as pure operators: what the        *)
(* handlers, the scheduler, the build watcher and the clone of an          *)
(* environment write into it, and the image the operator resolves from it. *)
(*                                                                         *)
(* A spec is [image, envs, cfg]: the app-level image (None when spec.image *)
(* is absent), the sequence spec.environments of [name, image], and cfg,   *)
(* one value that stands for the rest of the configuration.  An image is   *)
(* [repo, tag]; None is an empty string or an absent key.  An environment  *)
(* without an image override has NoImage: the code never tells an absent   *)
(* override from an empty one.                                             *)
(***************************************************************************)
EXTENDS Integers, Sequences, FiniteSetsExt

CONSTANTS Envs,      \* environment names
          Repos,     \* image repositories
          Tags,      \* image tags, "latest" among them
          Cfgs,      \* values of the rest of the configuration
          Latest,    \* the tag used when none is set
          Placeholder, \* the image of an app that has none
          None,      \* an empty string, a nil or an absent key
          Null       \* an explicit JSON null in a patch

Image   == [repo : Repos \cup {None}, tag : Tags \cup {None}]

ASSUME NamesAssumption ==
    /\ Latest \in Tags
    /\ None \notin Repos \cup Tags \cup Envs \cup Cfgs \cup Image
    /\ Null \notin Image \cup {None}

NoImage == [repo |-> None, tag |-> None]
EnvEntry == [name : Envs, image : Image]
AppSpec  == [image : Image \cup {None}, envs : Seq(EnvEntry), cfg : Cfgs]

\* What resolveImage returns: a repository and a tag.
Resolved == ((Repos \cup {None}) \X Tags) \cup {Placeholder}

TagOrLatest(image) == IF image.tag = None THEN Latest ELSE image.tag

\* The image an environment runs: its own override first, then the app's.
ResolveImage(spec, image) ==
    CASE image.repo # None -> <<image.repo, TagOrLatest(image)>>
      [] image.repo = None /\ spec.image = None -> Placeholder
      [] OTHER -> <<spec.image.repo,
                    TagOrLatest(IF image.tag # None THEN image ELSE spec.image)>>

Entries(spec, e) == {i \in DOMAIN spec.envs : spec.envs[i].name = e}
HasEnv(spec, e)  == Entries(spec, e) # {}

\* The first entry of environment e (the loops break at the first match).
EnvIndex(spec, e) == Min(Entries(spec, e))

EnvImage(spec, e) == spec.envs[EnvIndex(spec, e)].image

\* What environment e of the app resolves to, None when the app has no such entry.
Runs(spec, e) ==
    IF HasEnv(spec, e) THEN ResolveImage(spec, EnvImage(spec, e)) ELSE None

SetEnvImage(spec, i, image) == [spec EXCEPT !.envs[i].image = image]

SetEnvTag(spec, e, tag) ==
    SetEnvImage(spec, EnvIndex(spec, e), [EnvImage(spec, e) EXCEPT !.tag = tag])

\* The app-level image as a map: a nil one is created empty before it is written.
GlobalImage(spec) == IF spec.image = None THEN NoImage ELSE spec.image

-----------------------------------------------------------------------------
\* Mutant: the deploy also writes the app-level tag, every other environment's default.
DeployEditGlobal(spec, e, repo, tag) ==
    [(IF HasEnv(spec, e) THEN SetEnvTag(spec, e, tag) ELSE spec)
        EXCEPT !.image = [repo |-> repo, tag |-> tag]]

\* DeployApp: the tag of one environment; with no entry for it, the app-level
\* image, from the repository the handler read first.
DeployEdit(spec, e, repo, tag) ==
    IF HasEnv(spec, e)
    THEN SetEnvTag(spec, e, tag)
    ELSE [spec EXCEPT !.image = [repo |-> repo, tag |-> tag]]

\* RollbackApp: like a deploy of the recorded tag, but the app-level image keeps
\* its repository.
RollbackEdit(spec, e, tag) ==
    IF HasEnv(spec, e)
    THEN SetEnvTag(spec, e, tag)
    ELSE [spec EXCEPT !.image = [GlobalImage(spec) EXCEPT !.tag = tag]]

\* The scheduler: repository and tag of the environment (or of the app when there
\* is no such entry), then the app-level tag as well whenever a repository is known.
ScheduleEdit(spec, e, repository, wanted) ==
    LET tag  == IF wanted = None THEN Latest ELSE wanted
        repo == IF repository # None THEN repository ELSE GlobalImage(spec).repo
        With(image) == [repo |-> IF repo # None THEN repo ELSE image.repo,
                        tag  |-> tag]
        patched == IF HasEnv(spec, e)
                   THEN SetEnvImage(spec, EnvIndex(spec, e), With(EnvImage(spec, e)))
                   ELSE [spec EXCEPT !.image = With(GlobalImage(spec))]
    IN  IF repo = None
        THEN patched
        ELSE [patched EXCEPT !.image = [GlobalImage(patched) EXCEPT !.tag = tag]]

-----------------------------------------------------------------------------
(* UpdateApp.  A patch is [image, envs, cfg], None for a key it leaves out;  *)
(* the image of an entry of patch.envs is None (left out), Null or an image. *)

Overrides(spec, e) == {i \in Entries(spec, e) : spec.envs[i].image # NoImage}

\* Mutant: an entry that leaves the image out loses its override.
RestoreNoImage(spec, entry) ==
    IF entry.image = Null THEN [entry EXCEPT !.image = None] ELSE entry

\* restoreEnvImages on one entry.  The code edits the patch itself, so the entry
\* of the next attempt is the one this returns.
RestoreEnvImage(spec, entry) ==
    LET kept == Overrides(spec, entry.name)
    IN  CASE entry.image = Null -> [entry EXCEPT !.image = None]
          [] entry.image = None /\ kept # {} ->
                 [entry EXCEPT !.image = spec.envs[Max(kept)].image]
          [] OTHER -> entry

\* The patch after one pass over it: environment images restored, and the deployed
\* tag put into an image that sets only the repository.
RestorePatch(spec, patch) ==
    [patch EXCEPT
        !.envs  = IF @ = None THEN None
                  ELSE [i \in DOMAIN @ |-> RestoreEnvImage(spec, @[i])],
        !.image = IF @ \in {None, Null} \/ GlobalImage(spec).tag = None THEN @
                  ELSE IF @.tag = None THEN [@ EXCEPT !.tag = GlobalImage(spec).tag]
                  ELSE @]

\* The spec the handler writes: the restored patch merged over the spec it read.
UpdateEdit(spec, patch) ==
    LET p == RestorePatch(spec, patch)
    IN  [image |-> IF p.image = None THEN spec.image
                   ELSE IF p.image = Null THEN None ELSE p.image,
         envs  |-> IF p.envs = None THEN spec.envs
                   ELSE [i \in DOMAIN p.envs |->
                           [name  |-> p.envs[i].name,
                            image |-> IF p.envs[i].image = None THEN NoImage
                                      ELSE p.envs[i].image]],
         cfg   |-> IF p.cfg = None THEN spec.cfg ELSE p.cfg]

-----------------------------------------------------------------------------
\* The build watcher: the whole image of the entry it found in the spec it read,
\* written at that entry's INDEX in the spec of the moment.  It falls back to the
\* app-level tag only for an app that declares no environments.
PinOutOfRange(base, cur, e) ==
    base.envs # <<>> /\ EnvIndex(base, e) \notin DOMAIN cur.envs

PinEdit(base, cur, e, tag) ==
    IF base.envs = <<>>
    THEN [cur EXCEPT !.image = [GlobalImage(cur) EXCEPT !.tag = tag]]
    ELSE SetEnvImage(cur, EnvIndex(base, e), [EnvImage(base, e) EXCEPT !.tag = tag])

\* CloneEnvironment: the list it read plus a copy of the source entry, as a merge
\* patch that replaces spec.environments whole.
CloneEdit(base, cur, source, new) ==
    [cur EXCEPT !.envs = Append(base.envs, [name  |-> new,
                                            image |-> EnvImage(base, source)])]

\* UpdateRateLimits: annotations of one environment's ingress, which no image depends on,
\* but the whole list goes with them as it was read, in a merge patch as well.
LimitsEdit(base, cur) == [cur EXCEPT !.envs = base.envs]
=============================================================================
