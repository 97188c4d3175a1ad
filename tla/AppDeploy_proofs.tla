--------------------------- MODULE AppDeploy_proofs ---------------------------
(***************************************************************************)
(* What AppDeploy promises for every set of environments, requests and     *)
(* inputs: dense deployment versions, atomic writes, and deploys that      *)
(* touch no other environment.                                             *)
(***************************************************************************)
EXTENDS AppDeploy, TLAPS, SequenceTheorems, FiniteSetTheorems

-----------------------------------------------------------------------------
(* Extrema *)

\* A set of natural numbers has a least element, and Min is it.
LEMMA MinOfNats ==
    ASSUME NEW S \in SUBSET Nat, S # {}
    PROVE  /\ Min(S) \in S
           /\ \A y \in S : Min(S) <= y
  <1> DEFINE T == {0 .. x : x \in S}
  <1>1. T \subseteq FiniteSubsetsOf(Nat)
    <2>1. ASSUME NEW x \in S PROVE 0 .. x \in SUBSET Nat /\ IsFiniteSet(0 .. x)
      <3>1. x \in Int /\ 0 \in Int
        OBVIOUS
      <3>2. IsFiniteSet(0 .. x)
        BY <3>1, FS_Interval
      <3>3. QED
        BY <3>2
    <2>2. QED
      BY <2>1 DEF FiniteSubsetsOf
  <1>2. T # {}
    OBVIOUS
  <1>3. PICK t \in T : \A u \in T : ~(<<u, t>> \in StrictSubsetOrdering(Nat))
    <2> HIDE DEF T
    <2>1. QED
      BY <1>1, <1>2, FS_StrictSubsetOrderingWellFounded, WFMin
  <1>4. PICK x \in S : t = 0 .. x
    BY <1>3
  <1>5. ASSUME NEW y \in S, y < x PROVE FALSE
    <2>1. 0 .. y \in T /\ 0 .. y \in SUBSET Nat /\ 0 .. x \in SUBSET Nat
      OBVIOUS
    <2>2. 0 .. y \subseteq 0 .. x /\ x \in 0 .. x /\ x \notin 0 .. y
      BY <1>5
    <2>3. QED
      BY <2>1, <2>2, <1>3, <1>4 DEF StrictSubsetOrdering
  <1>6. \A y \in S : x <= y
    BY <1>5
  <1>7. QED
    BY <1>6 DEF Min

\* A set of positions of a sequence has a greatest element, and Max is it.
LEMMA MaxOfPositions ==
    ASSUME NEW n \in Nat, NEW S \in SUBSET (1 .. n), S # {}
    PROVE  /\ Max(S) \in S
           /\ \A y \in S : y <= Max(S)
  <1> DEFINE T == {n - x : x \in S}
  <1>1. T \in SUBSET Nat /\ T # {}
    <2>1. \A x \in S : x \in Nat /\ n - x \in Nat
      OBVIOUS
    <2>2. QED
      BY <2>1
  <1>2. Min(T) \in T /\ \A y \in T : Min(T) <= y
    BY <1>1, MinOfNats
  <1>3. PICK m \in S : Min(T) = n - m
    BY <1>2
  <1>4. ASSUME NEW y \in S PROVE y <= m
    <2>1. n - y \in T /\ y \in Nat /\ m \in Nat
      OBVIOUS
    <2>2. n - m <= n - y
      BY <1>2, <1>3, <2>1
    <2>3. QED
      BY <2>1, <2>2
  <1>5. QED
    BY <1>4 DEF Max


-----------------------------------------------------------------------------
(* Specs stay specs *)

\* The index the loops over spec.environments stop at is one of the environment's.
LEMMA EnvIndexFound ==
    ASSUME NEW spec \in AppSpec, NEW e, HasEnv(spec, e)
    PROVE  /\ EnvIndex(spec, e) \in 1 .. Len(spec.envs)
           /\ EnvIndex(spec, e) \in DOMAIN spec.envs
           /\ spec.envs[EnvIndex(spec, e)].name = e
           /\ EnvImage(spec, e) \in Image
  <1>1. spec.envs \in Seq(EnvEntry) /\ DOMAIN spec.envs = 1 .. Len(spec.envs)
    BY LenProperties DEF AppSpec
  <1>2. Entries(spec, e) \in SUBSET Nat /\ Entries(spec, e) # {}
    BY <1>1 DEF Entries, HasEnv
  <1>3. EnvIndex(spec, e) \in Entries(spec, e)
    BY <1>2, MinOfNats DEF EnvIndex
  <1>4. EnvIndex(spec, e) \in DOMAIN spec.envs /\ spec.envs[EnvIndex(spec, e)].name = e
    BY <1>3 DEF Entries
  <1>5. spec.envs[EnvIndex(spec, e)] \in EnvEntry
    BY <1>1, <1>4
  <1>6. QED
    BY <1>1, <1>4, <1>5 DEF EnvImage, EnvEntry

\* Writing one environment's image leaves a spec.
LEMMA SetEnvImageType ==
    ASSUME NEW spec \in AppSpec, NEW i \in DOMAIN spec.envs, NEW image \in Image
    PROVE  /\ SetEnvImage(spec, i, image) \in AppSpec
           /\ DOMAIN SetEnvImage(spec, i, image).envs = DOMAIN spec.envs
           /\ SetEnvImage(spec, i, image).image = spec.image
           /\ SetEnvImage(spec, i, image).cfg = spec.cfg
           /\ \A j \in DOMAIN spec.envs :
                /\ SetEnvImage(spec, i, image).envs[j].name = spec.envs[j].name
                /\ j # i => SetEnvImage(spec, i, image).envs[j] = spec.envs[j]
                /\ j = i => SetEnvImage(spec, i, image).envs[j].image = image
  <1>1. spec.envs \in Seq(EnvEntry) /\ DOMAIN spec.envs = 1 .. Len(spec.envs)
    BY LenProperties DEF AppSpec
  <1> DEFINE entry == [spec.envs[i] EXCEPT !.image = image]
             list  == [spec.envs EXCEPT ![i] = entry]
  <1>2. spec.envs[i] \in EnvEntry
    BY <1>1
  <1>3. entry \in EnvEntry /\ entry.name = spec.envs[i].name /\ entry.image = image
    BY <1>2 DEF EnvEntry
  <1>4. list \in Seq(EnvEntry) /\ DOMAIN list = DOMAIN spec.envs
    BY <1>1, <1>3
  <1>5. SetEnvImage(spec, i, image) = [spec EXCEPT !.envs = list]
    BY DEF SetEnvImage
  <1>6. /\ SetEnvImage(spec, i, image) \in AppSpec
        /\ SetEnvImage(spec, i, image).envs = list
        /\ SetEnvImage(spec, i, image).image = spec.image
        /\ SetEnvImage(spec, i, image).cfg = spec.cfg
    <2> HIDE DEF list
    <2>1. QED
      BY <1>4, <1>5 DEF AppSpec
  <1>7. QED
    BY <1>1, <1>3, <1>4, <1>6

\* So does writing its tag.
LEMMA SetEnvTagType ==
    ASSUME NEW spec \in AppSpec, NEW e, HasEnv(spec, e), NEW tag \in Tags
    PROVE  SetEnvTag(spec, e, tag) \in AppSpec
  <1>1. EnvIndex(spec, e) \in DOMAIN spec.envs /\ EnvImage(spec, e) \in Image
    BY EnvIndexFound
  <1>2. [EnvImage(spec, e) EXCEPT !.tag = tag] \in Image
    BY <1>1 DEF Image
  <1>3. QED
    BY <1>1, <1>2, SetEnvImageType DEF SetEnvTag

\* The app-level image, written as a map, is an image.
LEMMA GlobalImageType ==
    ASSUME NEW spec \in AppSpec
    PROVE  GlobalImage(spec) \in Image
  <1>1. spec.image \in Image \cup {None}
    BY DEF AppSpec
  <1>2. NoImage \in Image
    BY DEF NoImage, Image
  <1>3. QED
    BY <1>1, <1>2 DEF GlobalImage

\* Writing the app-level image leaves a spec.
LEMMA SetAppImageType ==
    ASSUME NEW spec \in AppSpec, NEW image \in Image
    PROVE  [spec EXCEPT !.image = image] \in AppSpec
  BY DEF AppSpec

\* What a deploy, a rollback or a scheduled deployment writes is a spec.
LEMMA DeployEditType ==
    ASSUME NEW spec \in AppSpec, NEW e, NEW repo \in Repos \cup {None}, NEW tag \in Tags
    PROVE  DeployEdit(spec, e, repo, tag) \in AppSpec
  <1>1. CASE HasEnv(spec, e)
    BY <1>1, SetEnvTagType DEF DeployEdit
  <1>2. CASE ~HasEnv(spec, e)
    <2>1. [repo |-> repo, tag |-> tag] \in Image
      BY DEF Image
    <2>2. QED
      BY <1>2, <2>1, SetAppImageType DEF DeployEdit
  <1>3. QED
    BY <1>1, <1>2

\* A rollback to a recorded tag leaves a well-formed spec (RollbackApp).
LEMMA RollbackEditType ==
    ASSUME NEW spec \in AppSpec, NEW e, NEW tag \in Tags
    PROVE  RollbackEdit(spec, e, tag) \in AppSpec
  <1>1. CASE HasEnv(spec, e)
    BY <1>1, SetEnvTagType DEF RollbackEdit
  <1>2. CASE ~HasEnv(spec, e)
    <2>1. [GlobalImage(spec) EXCEPT !.tag = tag] \in Image
      BY GlobalImageType DEF Image
    <2>2. QED
      BY <1>2, <2>1, SetAppImageType DEF RollbackEdit
  <1>3. QED
    BY <1>1, <1>2

\* A scheduled deployment leaves a well-formed spec, whether or not it names a tag,
\* a repository or an environment of the app (execute).
LEMMA ScheduleEditType ==
    ASSUME NEW spec \in AppSpec, NEW e,
           NEW repository \in Repos \cup {None}, NEW wanted \in Tags \cup {None}
    PROVE  ScheduleEdit(spec, e, repository, wanted) \in AppSpec
  <1> DEFINE tag  == IF wanted = None THEN Latest ELSE wanted
             repo == IF repository # None THEN repository ELSE GlobalImage(spec).repo
             With(image) == [repo |-> IF repo # None THEN repo ELSE image.repo,
                             tag  |-> tag]
             patched == IF HasEnv(spec, e)
                        THEN SetEnvImage(spec, EnvIndex(spec, e), With(EnvImage(spec, e)))
                        ELSE [spec EXCEPT !.image = With(GlobalImage(spec))]
  <1>1. tag \in Tags
    BY NamesAssumption
  <1>2. repo \in Repos \cup {None}
    BY GlobalImageType DEF Image
  <1>3. ASSUME NEW image \in Image PROVE With(image) \in Image
    BY <1>1, <1>2 DEF Image
  <1>4. patched \in AppSpec
    <2>1. CASE HasEnv(spec, e)
      <3>1. EnvIndex(spec, e) \in DOMAIN spec.envs /\ EnvImage(spec, e) \in Image
        BY <2>1, EnvIndexFound
      <3>2. With(EnvImage(spec, e)) \in Image
        BY <1>3, <3>1
      <3>3. QED
        BY <2>1, <3>1, <3>2, SetEnvImageType
    <2>2. CASE ~HasEnv(spec, e)
      <3>1. With(GlobalImage(spec)) \in Image
        BY <1>3, GlobalImageType
      <3>2. QED
        BY <2>2, <3>1, SetAppImageType
    <2>3. QED
      BY <2>1, <2>2
  <1>5. [patched EXCEPT !.image = [GlobalImage(patched) EXCEPT !.tag = tag]] \in AppSpec
    <2> HIDE DEF patched, tag
    <2>1. GlobalImage(patched) \in Image
      BY <1>4, GlobalImageType
    <2>2. [GlobalImage(patched) EXCEPT !.tag = tag] \in Image
      BY <1>1, <2>1 DEF Image
    <2>3. QED
      BY <1>4, <2>2, SetAppImageType
  <1>6. QED
    BY <1>4, <1>5 DEF ScheduleEdit

\* The override restoreEnvImages carries over is one of the stored spec.
LEMMA KeptOverride ==
    ASSUME NEW spec \in AppSpec, NEW e, Overrides(spec, e) # {}
    PROVE  spec.envs[Max(Overrides(spec, e))].image \in Image
  <1>1. spec.envs \in Seq(EnvEntry) /\ Len(spec.envs) \in Nat
        /\ DOMAIN spec.envs = 1 .. Len(spec.envs)
    BY LenProperties DEF AppSpec
  <1>2. Overrides(spec, e) \in SUBSET (1 .. Len(spec.envs))
    BY <1>1 DEF Overrides, Entries
  <1>3. Max(Overrides(spec, e)) \in 1 .. Len(spec.envs)
    BY <1>1, <1>2, MaxOfPositions
  <1>4. spec.envs[Max(Overrides(spec, e))] \in EnvEntry
    BY <1>1, <1>3
  <1>5. QED
    BY <1>4 DEF EnvEntry

\* A restored entry is a patch entry, without an explicit null.
LEMMA RestoreEnvImageType ==
    ASSUME NEW spec \in AppSpec, NEW entry \in PatchEntry
    PROVE  /\ RestoreEnvImage(spec, entry) \in [name : Envs, image : Image \cup {None}]
           /\ RestoreEnvImage(spec, entry) \in PatchEntry
           /\ RestoreEnvImage(spec, entry).name = entry.name
  <1> DEFINE kept == Overrides(spec, entry.name)
  <1>1. CASE entry.image = Null
    BY <1>1, NamesAssumption DEF RestoreEnvImage, PatchEntry
  <1>2. CASE entry.image # Null /\ entry.image = None /\ kept # {}
    <2>1. spec.envs[Max(kept)].image \in Image
      BY <1>2, KeptOverride
    <2>2. RestoreEnvImage(spec, entry) = [entry EXCEPT !.image = spec.envs[Max(kept)].image]
      BY <1>2 DEF RestoreEnvImage
    <2>3. QED
      BY <2>1, <2>2 DEF PatchEntry
  <1>3. CASE entry.image # Null /\ ~(entry.image = None /\ kept # {})
    <2>1. RestoreEnvImage(spec, entry) = entry
      BY <1>3 DEF RestoreEnvImage
    <2>2. QED
      BY <1>3, <2>1 DEF PatchEntry
  <1>4. QED
    BY <1>1, <1>2, <1>3

\* A patch that was restored once is a patch again.
LEMMA RestorePatchType ==
    ASSUME NEW spec \in AppSpec, NEW patch \in Patch
    PROVE  RestorePatch(spec, patch) \in Patch
  <1> DEFINE envs == IF patch.envs = None THEN None
                     ELSE [i \in DOMAIN patch.envs |-> RestoreEnvImage(spec, patch.envs[i])]
             image == IF patch.image \in {None, Null} \/ GlobalImage(spec).tag = None
                      THEN patch.image
                      ELSE IF patch.image.tag = None
                           THEN [patch.image EXCEPT !.tag = GlobalImage(spec).tag]
                           ELSE patch.image
  <1>1. envs \in Seq(PatchEntry) \cup {None}
    <2>1. CASE patch.envs = None
      BY <2>1
    <2>2. CASE patch.envs # None
      <3>1. patch.envs \in Seq(PatchEntry) /\ Len(patch.envs) \in Nat
            /\ DOMAIN patch.envs = 1 .. Len(patch.envs)
        BY <2>2, LenProperties DEF Patch
      <3>2. \A i \in 1 .. Len(patch.envs) : RestoreEnvImage(spec, patch.envs[i]) \in PatchEntry
        BY <3>1, RestoreEnvImageType
      <3>3. QED
        BY <2>2, <3>1, <3>2
    <2>3. QED
      BY <2>1, <2>2
  <1>2. image \in Image \cup {None, Null}
    <2>1. patch.image \in Image \cup {None, Null} /\ GlobalImage(spec) \in Image
      BY GlobalImageType DEF Patch
    <2>2. QED
      BY <2>1 DEF Image
  <1>3. RestorePatch(spec, patch) = [patch EXCEPT !.envs = envs, !.image = image]
    BY DEF RestorePatch, Patch
  <1>4. QED
    <2> HIDE DEF envs, image
    <2>1. QED
      BY <1>1, <1>2, <1>3 DEF Patch

\* An update writes a spec.
LEMMA UpdateEditType ==
    ASSUME NEW spec \in AppSpec, NEW patch \in Patch
    PROVE  UpdateEdit(spec, patch) \in AppSpec
  <1> DEFINE p == RestorePatch(spec, patch)
             image == IF p.image = None THEN spec.image
                      ELSE IF p.image = Null THEN None ELSE p.image
             Entry(i) == [name  |-> p.envs[i].name,
                          image |-> IF p.envs[i].image = None THEN NoImage ELSE p.envs[i].image]
             envs == IF p.envs = None THEN spec.envs ELSE [i \in DOMAIN p.envs |-> Entry(i)]
             cfg  == IF p.cfg = None THEN spec.cfg ELSE p.cfg
  <1>1. p \in Patch
    BY RestorePatchType
  <1>2. ASSUME p.envs # None, NEW i \in DOMAIN p.envs PROVE p.envs[i].image # Null
    <2>1. patch.envs # None
      BY <1>2 DEF RestorePatch, Patch
    <2>2. patch.envs \in Seq(PatchEntry) /\ DOMAIN patch.envs = 1 .. Len(patch.envs)
      BY <2>1, LenProperties DEF Patch
    <2>3. p.envs = [j \in DOMAIN patch.envs |-> RestoreEnvImage(spec, patch.envs[j])]
      BY <2>1 DEF RestorePatch, Patch
    <2>4. patch.envs[i] \in PatchEntry /\ p.envs[i] = RestoreEnvImage(spec, patch.envs[i])
      BY <1>2, <2>2, <2>3
    <2>5. QED
      BY <2>4, RestoreEnvImageType, NamesAssumption
  <1>3. envs \in Seq(EnvEntry)
    <2>1. CASE p.envs = None
      BY <2>1 DEF AppSpec
    <2>2. CASE p.envs # None
      <3>1. p.envs \in Seq(PatchEntry) /\ Len(p.envs) \in Nat
            /\ DOMAIN p.envs = 1 .. Len(p.envs)
        BY <1>1, <2>2, LenProperties DEF Patch
      <3>2. ASSUME NEW i \in 1 .. Len(p.envs) PROVE Entry(i) \in EnvEntry
        <4>1. p.envs[i] \in PatchEntry /\ p.envs[i].image # Null
          BY <1>2, <2>2, <3>1
        <4>2. NoImage \in Image
          BY DEF NoImage, Image
        <4>3. QED
          BY <4>1, <4>2 DEF PatchEntry, EnvEntry
      <3>3. QED
        BY <2>2, <3>1, <3>2
    <2>3. QED
      BY <2>1, <2>2
  <1>4. image \in Image \cup {None} /\ cfg \in Cfgs
    BY <1>1 DEF Patch, AppSpec
  <1>5. UpdateEdit(spec, patch) = [image |-> image, envs |-> envs, cfg |-> cfg]
    BY DEF UpdateEdit
  <1>6. QED
    <2> HIDE DEF image, envs, cfg
    <2>1. QED
      BY <1>3, <1>4, <1>5 DEF AppSpec

\* What an accepted request has found in the spec it read.
Prepared(in, base) ==
    /\ in.kind = "rollback" => in.tag \in Tags
    /\ in.kind = "clone"    => HasEnv(base, in.env)
    /\ in.kind = "pin"      => HasEnv(base, in.env) \/ base.envs = <<>>

\* A build's pin writes a spec, when its JSON patch finds the index it names.
LEMMA PinEditType ==
    ASSUME NEW base \in AppSpec, NEW cur \in AppSpec, NEW e, NEW tag \in Tags,
           HasEnv(base, e) \/ base.envs = <<>>, ~PinOutOfRange(base, cur, e)
    PROVE  PinEdit(base, cur, e, tag) \in AppSpec
  <1>1. CASE base.envs = <<>>
    <2>1. [GlobalImage(cur) EXCEPT !.tag = tag] \in Image
      BY GlobalImageType DEF Image
    <2>2. QED
      BY <1>1, <2>1, SetAppImageType DEF PinEdit
  <1>2. CASE base.envs # <<>>
    <2>1. EnvIndex(base, e) \in DOMAIN cur.envs
      BY <1>2 DEF PinOutOfRange
    <2>2. EnvImage(base, e) \in Image
      BY <1>2, EnvIndexFound
    <2>3. [EnvImage(base, e) EXCEPT !.tag = tag] \in Image
      BY <2>2 DEF Image
    <2>4. QED
      BY <1>2, <2>1, <2>3, SetEnvImageType DEF PinEdit
  <1>3. QED
    BY <1>1, <1>2

\* So does a clone.
LEMMA CloneEditType ==
    ASSUME NEW base \in AppSpec, NEW cur \in AppSpec, NEW source, NEW new \in Envs,
           HasEnv(base, source)
    PROVE  CloneEdit(base, cur, source, new) \in AppSpec
  <1> DEFINE entry == [name |-> new, image |-> EnvImage(base, source)]
  <1>1. entry \in EnvEntry
    BY EnvIndexFound DEF EnvEntry
  <1>2. Append(base.envs, entry) \in Seq(EnvEntry)
    BY <1>1 DEF AppSpec
  <1>3. QED
    BY <1>2 DEF CloneEdit, AppSpec

\* Every request that has passed its checks writes a spec.
LEMMA EditType ==
    ASSUME NEW in \in Input, NEW base \in AppSpec, NEW cur \in AppSpec,
           Prepared(in, base), ~(in.kind = "pin" /\ PinOutOfRange(base, cur, in.env))
    PROVE  Edit(in, base, cur) \in AppSpec
  <1>1. CASE in.kind = "deploy"
    BY <1>1, DeployEditType DEF Edit, Input
  <1>2. CASE in.kind = "rollback"
    BY <1>2, RollbackEditType DEF Edit, Input, Prepared
  <1>3. CASE in.kind = "update"
    BY <1>3, UpdateEditType DEF Edit, Input
  <1>4. CASE in.kind = "schedule"
    BY <1>4, ScheduleEditType DEF Edit, Input
  <1>5. CASE in.kind = "pin"
    BY <1>5, PinEditType DEF Edit, Input, Prepared
  <1>6. CASE in.kind = "clone"
    BY <1>6, CloneEditType DEF Edit, Input, Prepared
  <1>7. CASE in.kind = "limits"
    BY <1>7 DEF Edit, LimitsEdit, AppSpec
  <1>8. QED
    BY <1>1, <1>2, <1>3, <1>4, <1>5, <1>6, <1>7 DEF Input, Kinds

\* What a request keeps from its read are parameters of its kind.
LEMMA NotedType ==
    ASSUME app \in AppSpec, history \in Seq(Record),
           NEW in \in Input, NEW tries \in Nat, Accepts(in, tries)
    PROVE  Noted(in, tries) \in Input /\ Prepared(Noted(in, tries), app)
  <1>1. CASE in.kind = "deploy"
    <2>1. CASE tries = 0
      <3>1. app.image \in Image
        BY <1>1, <2>1 DEF Accepts, AppSpec
      <3>2. app.image.repo \in Repos \cup {None}
        BY <3>1 DEF Image
      <3>3. Noted(in, tries) = [in EXCEPT !.repo = app.image.repo]
        BY <1>1, <2>1 DEF Noted
      <3>4. QED
        BY <1>1, <3>2, <3>3 DEF Input, Prepared
    <2>2. CASE tries # 0
      BY <1>1, <2>2 DEF Noted, Prepared
    <2>3. QED
      BY <2>1, <2>2
  <1>2. CASE in.kind = "rollback"
    <2> DEFINE S == Records(in.version)
    <2>1. DOMAIN history = 1 .. Len(history) /\ Len(history) \in Nat
      BY LenProperties
    <2>2. S \in SUBSET Nat /\ S # {}
      BY <1>2, <2>1 DEF Records, Accepts
    <2>3. Min(S) \in DOMAIN history
      BY <2>2, MinOfNats DEF Records
    <2>4. history[Min(S)] \in Record
      BY <2>1, <2>3
    <2>5. history[Min(S)].image[2] \in Tags
      BY <2>4 DEF Record
    <2>6. Noted(in, tries) = [in EXCEPT !.tag = history[Min(S)].image[2]]
      BY <1>2 DEF Noted
    <2>7. QED
      BY <1>2, <2>5, <2>6 DEF Input, Prepared
  <1>3. CASE in.kind \notin {"deploy", "rollback"}
    BY <1>3 DEF Noted, Accepts, Prepared
  <1>4. QED
    BY <1>1, <1>2, <1>3

-----------------------------------------------------------------------------
(* Type correctness *)

\* What an environment resolves to is an image reference; a placeholder only for an
\* app without an image.
LEMMA ResolveImageType ==
    ASSUME NEW spec \in AppSpec, NEW image \in Image
    PROVE  /\ ResolveImage(spec, image) \in Resolved
           /\ spec.image # None => ResolveImage(spec, image) \in (Repos \cup {None}) \X Tags
  <1>1. ASSUME NEW i \in Image PROVE TagOrLatest(i) \in Tags
    BY NamesAssumption DEF TagOrLatest, Image
  <1>2. spec.image \in Image \cup {None}
    BY DEF AppSpec
  <1>3. CASE image.repo # None
    BY <1>1, <1>3 DEF ResolveImage, Resolved, Image
  <1>4. CASE image.repo = None /\ spec.image = None
    BY <1>4 DEF ResolveImage, Resolved
  <1>5. CASE image.repo = None /\ spec.image # None
    <2>1. ResolveImage(spec, image) =
            <<spec.image.repo, TagOrLatest(IF image.tag # None THEN image ELSE spec.image)>>
      BY <1>5 DEF ResolveImage
    <2>2. spec.image.repo \in Repos \cup {None}
      BY <1>2, <1>5 DEF Image
    <2>3. QED
      BY <1>1, <1>2, <1>5, <2>1, <2>2 DEF Resolved
  <1>6. QED
    BY <1>3, <1>4, <1>5

\* The environments a reconcile works on are entries of the app or of its project.
LEMMA TargetsType ==
    ASSUME NEW spec \in AppSpec
    PROVE  Targets(spec) \in Seq(EnvEntry)
  <1>1. ProjectEnvs \in Seq(Envs) /\ Len(ProjectEnvs) \in Nat
        /\ DOMAIN ProjectEnvs = 1 .. Len(ProjectEnvs)
    BY AppDeployAssumption, LenProperties
  <1>2. NoImage \in Image
    BY DEF NoImage, Image
  <1>3. \A i \in 1 .. Len(ProjectEnvs) :
            [name |-> ProjectEnvs[i], image |-> NoImage] \in EnvEntry
    BY <1>1, <1>2 DEF EnvEntry
  <1>4. QED
    BY <1>1, <1>3 DEF Targets, AppSpec

\* An accepted request has found what its edit needs: the part of the invariant that
\* makes type correctness inductive.
RequestsPrepared ==
    \A r \in Requests : req[r].pc = "put" => Prepared(req[r].in, req[r].base)

TypeInv == TypeOK /\ RequestsPrepared

\* The strengthened type invariant holds when the app has been created.
LEMMA TypeInit == Init => TypeInv
  <1> SUFFICES ASSUME Init PROVE TypeInv
    OBVIOUS
  <1> USE DEF Init
  <1>1. app \in AppSpec /\ history \in Seq(Record) /\ faults \in 0 .. MaxFaults
    BY AppDeployAssumption
  <1>2. fresh \in [Procs -> BOOLEAN] /\ running \in [Envs -> Resolved \cup {None}]
    OBVIOUS
  <1>3. req \in [Requests -> ReqType]
    BY DEF ReqType
  <1>4. op \in OpType /\ cache \in [app : AppSpec, history : Seq(Record)]
    BY AppDeployAssumption DEF OpType, OpState, OpIdle
  <1>5. RequestsPrepared
    BY DEF RequestsPrepared, Idle
  <1>6. QED
    BY <1>1, <1>2, <1>3, <1>4, <1>5 DEF TypeInv, TypeOK

\* A request that moves on to a well-formed state leaves the requests well formed.
LEMMA OneRequestMoves ==
    ASSUME TypeInv, NEW r \in Requests, NEW q \in ReqType,
           q.pc = "put" => Prepared(q.in, q.base),
           req' = [req EXCEPT ![r] = q]
    PROVE  req' \in [Requests -> ReqType] /\ RequestsPrepared'
  <1>1. req \in [Requests -> ReqType] /\ RequestsPrepared
    BY DEF TypeInv, TypeOK
  <1>2. \A s \in Requests : req'[s] = IF s = r THEN q ELSE req[s]
    BY <1>1
  <1>3. req' \in [Requests -> ReqType]
    BY <1>1
  <1>4. QED
    BY <1>1, <1>2, <1>3 DEF RequestsPrepared

\* The states of a request that has started, by its program counter.
LEMMA RequestState ==
    ASSUME TypeInv, NEW r \in Requests
    PROVE  /\ req[r].pc = "idle" => req[r] = Idle
           /\ req[r].pc = "get"  => req[r] \in ReqState({"get"}, Input, {None})
           /\ req[r].pc = "put"  => /\ req[r] \in ReqState({"put"}, Input, AppSpec)
                                    /\ Prepared(req[r].in, req[r].base)
  <1>1. req[r] \in ReqType
    BY DEF TypeInv, TypeOK
  <1>2. QED
    BY <1>1 DEF ReqType, ReqState, Idle, TypeInv, RequestsPrepared

\* Ending a started request leaves a well-formed one.
LEMMA EndedType ==
    ASSUME TypeInv, NEW r \in Requests, req[r].pc \in {"get", "put"},
           NEW outcome \in {"done", "failed", "rejected"}
    PROVE  Ended(req[r], outcome) \in ReqType /\ Ended(req[r], outcome).pc = outcome
  <1>1. req[r].asked \in Input
    BY RequestState DEF ReqState
  <1>2. 0 \in 0 .. ApiRetries
    BY AppDeployAssumption
  <1>3. QED
    BY <1>1, <1>2 DEF Ended, Idle, ReqType, ReqState

\* No step of a request breaks the strengthened type invariant.
LEMMA RequestTypes ==
    ASSUME TypeInv, NEW r \in Requests,
           Start(r) \/ Get(r) \/ Put(r) \/ Conflict(r) \/ Abort(r)
    PROVE  TypeInv'
  <1>1. app \in AppSpec /\ history \in Seq(Record) /\ fresh \in [Procs -> BOOLEAN]
    BY DEF TypeInv, TypeOK
  <1>2. ApiRetries \in Nat /\ 0 \in 0 .. ApiRetries
    BY AppDeployAssumption
  <1>3. req' \in [Requests -> ReqType] /\ RequestsPrepared'
    <2>1. CASE Start(r)
      <3>1. PICK in \in Inputs :
              req' = [req EXCEPT ![r] = [@ EXCEPT !.pc = "get", !.asked = in, !.in = in]]
        BY <2>1 DEF Start
      <3> DEFINE q == [Idle EXCEPT !.pc = "get", !.asked = in, !.in = in]
      <3>2. q \in ReqType /\ q.pc = "get"
        BY <1>2, InputsAssumption DEF Idle, ReqType, ReqState
      <3>3. req' = [req EXCEPT ![r] = q]
        BY <2>1, <3>1, RequestState DEF Start, TypeInv, TypeOK
      <3>4. QED
        <4> HIDE DEF q
        <4>1. QED
          BY <3>2, <3>3, OneRequestMoves
    <2>2. CASE Get(r)
      <3> DEFINE in == req[r].in
                 q  == [req[r] EXCEPT !.pc = "put", !.base = app,
                                      !.in = Noted(in, req[r].tries)]
      <3>1. req[r] \in ReqState({"get"}, Input, {None})
        BY <2>2, RequestState DEF Get
      <3>2. in \in Input /\ req[r].tries \in Nat
        BY <1>2, <3>1 DEF ReqState
      <3>3. CASE Accepts(in, req[r].tries)
        <4>1. Noted(in, req[r].tries) \in Input /\ Prepared(Noted(in, req[r].tries), app)
          BY <1>1, <3>2, <3>3, NotedType
        <4>2. q \in ReqType /\ q.in = Noted(in, req[r].tries) /\ q.base = app
          BY <1>1, <3>1, <4>1 DEF ReqType, ReqState
        <4>3. req' = [req EXCEPT ![r] = q]
          BY <2>2, <3>3 DEF Get, TypeInv, TypeOK
        <4>4. QED
          <5> HIDE DEF q
          <5>1. QED
            BY <4>1, <4>2, <4>3, OneRequestMoves
      <3>4. CASE ~Accepts(in, req[r].tries)
        BY <2>2, <3>4, EndedType, OneRequestMoves DEF Get, TypeInv, TypeOK
      <3>5. QED
        BY <3>3, <3>4
    <2>3. CASE Put(r)
      BY <2>3, EndedType, OneRequestMoves DEF Put, TypeInv, TypeOK
    <2>4. CASE Conflict(r)
      <3> DEFINE in == req[r].in
                 q  == [req[r] EXCEPT !.pc = "get", !.base = None,
                                      !.in = AfterAttempt(in, req[r].base),
                                      !.tries = req[r].tries + 1]
      <3>1. req[r] \in ReqState({"put"}, Input, AppSpec)
        BY <2>4, RequestState DEF Conflict
      <3>2. CASE req[r].tries + 1 < Attempts(in.kind)
        <4>1. in \in Input /\ req[r].base \in AppSpec /\ req[r].tries \in Nat
          BY <1>2, <3>1 DEF ReqState
        <4>2. AfterAttempt(in, req[r].base) \in Input
          <5>1. CASE in.kind = "update"
            <6>1. RestorePatch(req[r].base, in.patch) \in Patch
              BY <4>1, <5>1, RestorePatchType DEF Input
            <6>2. QED
              BY <4>1, <5>1, <6>1, InputsAssumption DEF AfterAttempt, Input
          <5>2. CASE in.kind # "update"
            BY <4>1, <5>2 DEF AfterAttempt
          <5>3. QED
            BY <5>1, <5>2
        <4>3. req[r].tries + 1 \in 0 .. ApiRetries
          BY <1>2, <3>2, <4>1 DEF Attempts
        <4>4. q \in ReqType /\ q.pc = "get"
          BY <3>1, <4>2, <4>3 DEF ReqType, ReqState
        <4>5. req' = [req EXCEPT ![r] = q]
          BY <2>4, <3>2 DEF Conflict, TypeInv, TypeOK
        <4>6. QED
          <5> HIDE DEF q
          <5>1. QED
            BY <4>4, <4>5, OneRequestMoves
      <3>3. CASE ~(req[r].tries + 1 < Attempts(in.kind))
        BY <2>4, <3>3, EndedType, OneRequestMoves DEF Conflict, TypeInv, TypeOK
      <3>4. QED
        BY <3>2, <3>3
    <2>5. CASE Abort(r)
      BY <2>5, EndedType, OneRequestMoves DEF Abort, TypeInv, TypeOK
    <2>6. QED
      BY <2>1, <2>2, <2>3, <2>4, <2>5
  <1>4. app' \in AppSpec
    <2>1. CASE Put(r)
      <3>1. req[r] \in ReqState({"put"}, Input, AppSpec) /\ Prepared(req[r].in, req[r].base)
        BY <2>1, RequestState DEF Put
      <3>2. req[r].in \in Input /\ req[r].base \in AppSpec
        BY <3>1 DEF ReqState
      <3>3. QED
        BY <1>1, <2>1, <3>1, <3>2, EditType DEF Put
    <2>2. CASE ~Put(r)
      BY <1>1, <2>2 DEF Start, Get, Conflict, Abort
    <2>3. QED
      BY <2>1, <2>2
  <1>5. fresh' \in [Procs -> BOOLEAN]
    BY <1>1 DEF Start, Get, Put, Conflict, Abort, MoveVersion, Procs
  <1>6. UNCHANGED <<history, cache, op, running, faults>>
    BY DEF Start, Get, Put, Conflict, Abort
  <1>7. QED
    BY <1>3, <1>4, <1>5, <1>6 DEF TypeInv, TypeOK

\* No step of the operator or of its watch breaks the strengthened type invariant.
LEMMA OperatorTypes ==
    ASSUME TypeInv, Watch \/ Operate \/ OpFail \/ OpCrash
    PROVE  TypeInv'
  <1>1. /\ app \in AppSpec /\ history \in Seq(Record) /\ fresh \in [Procs -> BOOLEAN]
        /\ op \in OpType /\ running \in [Envs -> Resolved \cup {None}]
        /\ faults \in 0 .. MaxFaults
        /\ cache \in [app : AppSpec, history : Seq(Record)]
    BY DEF TypeInv, TypeOK
  <1>2. /\ Targets(cache.app) \in Seq(EnvEntry)
        /\ ApiRetries \in Nat /\ 0 \in 0 .. ApiRetries /\ MaxFaults \in Nat
    BY <1>1, TargetsType, AppDeployAssumption
  <1>3. /\ op.left \in Seq(EnvEntry) /\ op.hist \in Seq(Record) /\ op.tries \in 0 .. ApiRetries
        /\ op.pc \in {"sync", "record"} => op \in OpState({"sync", "record"}, AppSpec)
        /\ op.pc \in {"idle", "status"} => op \in OpState({"idle", "status"}, {None})
    BY <1>1 DEF OpType, OpState
  <1>4. OpIdle \in OpState({"idle", "status"}, {None}) /\ OpIdle \in OpType
    BY <1>2 DEF OpIdle, OpType, OpState
  <1>5. UNCHANGED <<app, req>>
    BY DEF Watch, Operate, OpGet, OpSync, OpStatusGet, OpRecord, OpCommit, OpFail, OpCrash
  <1>6. ASSUME op.pc \in {"sync", "record"}, op.left # <<>>
        PROVE  /\ Head(op.left) \in EnvEntry /\ Tail(op.left) \in Seq(EnvEntry)
               /\ op.base \in AppSpec
    BY <1>3, <1>6, HeadTailProperties DEF OpState
  <1>7. /\ op' \in OpType /\ history' \in Seq(Record) /\ fresh' \in [Procs -> BOOLEAN]
        /\ running' \in [Envs -> Resolved \cup {None}] /\ faults' \in 0 .. MaxFaults
    <2>0. CASE Watch
      <3>1. fresh' \in [Procs -> BOOLEAN]
        BY <1>1, <2>0 DEF Watch, Procs
      <3>2. QED
        BY <1>1, <2>0, <3>1 DEF Watch
    <2>1. CASE OpGet
      <3>1. op' \in OpType
        BY <1>1, <1>2, <1>3, <2>1 DEF OpGet, OpType, OpState
      <3>2. QED
        BY <1>1, <2>1, <3>1 DEF OpGet
    <2>2. CASE OpSync
      <3> DEFINE target == Head(op.left)
      <3>1. target \in EnvEntry /\ Tail(op.left) \in Seq(EnvEntry) /\ op.base \in AppSpec
        BY <1>6, <2>2 DEF OpSync
      <3>2. op' \in OpType
        BY <1>3, <2>2, <3>1 DEF OpSync, OpType, OpState
      <3>3. target.name \in Envs /\ ResolveImage(op.base, target.image) \in Resolved
        BY <3>1, ResolveImageType DEF EnvEntry
      <3>4. running' \in [Envs -> Resolved \cup {None}]
        BY <1>1, <2>2, <3>3 DEF OpSync, ReconcileDeployment
      <3>5. QED
        BY <1>1, <2>2, <3>2, <3>4 DEF OpSync
    <2>3. CASE OpStatusGet
      <3>1. op' \in OpType
        BY <1>1, <1>2, <1>3, <2>3 DEF OpStatusGet, OpType, OpState
      <3>2. fresh' \in [Procs -> BOOLEAN]
        BY <1>1, <2>3 DEF OpStatusGet, Procs
      <3>3. QED
        BY <1>1, <2>3, <3>1, <3>2 DEF OpStatusGet
    <2>4. CASE OpRecord
      <3> DEFINE target == Head(op.left)
                 image  == ResolveImage(op.base, target.image)
                 added  == Append(op.hist, [version |-> NextVersion(op.hist),
                                            env |-> target.name, image |-> image])
      <3>1. /\ target \in EnvEntry /\ Tail(op.left) \in Seq(EnvEntry) /\ op.base \in AppSpec
            /\ target.name \in Envs /\ target.image \in Image
        BY <1>6, <2>4 DEF OpRecord, EnvEntry
      <3>2. NextVersion(op.hist) \in Nat
        <4>1. CASE op.hist = <<>>
          BY <4>1 DEF NextVersion
        <4>2. CASE op.hist # <<>>
          <5>1. Len(op.hist) \in 1 .. Len(op.hist)
            BY <1>3, <4>2, EmptySeq, LenProperties
          <5>2. op.hist[Len(op.hist)] \in Record
            BY <1>3, <5>1, ElementOfSeq
          <5>3. QED
            BY <4>2, <5>2 DEF NextVersion, Record
        <4>3. QED
          BY <4>1, <4>2
      <3>3. op.base.image # None => added \in Seq(Record)
        <4>1. op.base.image # None => image \in (Repos \cup {None}) \X Tags
          BY <3>1, ResolveImageType
        <4>2. QED
          BY <1>3, <3>1, <3>2, <4>1 DEF Record
      <3> DEFINE hist == IF \/ op.base.image = None
                            \/ LastImage(op.hist, target.name) = image
                         THEN op.hist ELSE added
                 rest == Tail(op.left)
      <3>4. op' = [op EXCEPT !.left = rest, !.hist = hist]
        BY <1>3, <2>4 DEF OpRecord, OpState
      <3>5. hist \in Seq(Record) /\ rest \in Seq(EnvEntry)
        BY <1>3, <3>1, <3>3
      <3>6. op \in OpState({"sync", "record"}, AppSpec)
        BY <1>3, <2>4 DEF OpRecord
      <3>7. op' \in OpType
        <4> HIDE DEF hist, rest
        <4>1. QED
          BY <3>4, <3>5, <3>6 DEF OpType, OpState
      <3>8. QED
        BY <1>1, <2>4, <3>7 DEF OpRecord
    <2>5. CASE OpCommit
      <3>1. op' \in OpType
        <4>1. CASE op' = OpIdle
          BY <1>4, <4>1
        <4>2. CASE /\ op.tries + 1 < ApiRetries
                   /\ op' = [OpIdle EXCEPT !.pc = "status", !.tries = op.tries + 1]
          <5>1. op.tries + 1 \in 0 .. ApiRetries
            BY <1>2, <1>3, <4>2
          <5>2. QED
            BY <1>4, <4>2, <5>1 DEF OpType, OpState
        <4>3. CASE StatusRefused
          <5>1. op' = IF op.tries + 1 < ApiRetries
                      THEN [OpIdle EXCEPT !.pc = "status", !.tries = op.tries + 1]
                      ELSE OpIdle
            BY <2>5, <4>3 DEF OpCommit
          <5>2. QED
            BY <4>1, <4>2, <5>1
        <4>4. CASE ~StatusRefused
          BY <2>5, <4>1, <4>4 DEF OpCommit
        <4>5. QED
          BY <4>3, <4>4
      <3>2. history' \in Seq(Record)
        BY <1>1, <1>3, <2>5 DEF OpCommit
      <3>3. fresh' \in [Procs -> BOOLEAN]
        BY <1>1, <2>5 DEF OpCommit, MoveVersion, Procs
      <3>4. QED
        BY <1>1, <2>5, <3>1, <3>2, <3>3 DEF OpCommit
    <2>6. CASE OpFail \/ OpCrash
      <3>1. fresh' \in [Procs -> BOOLEAN]
        BY <1>1, <2>6 DEF OpFail, OpCrash, MoveVersion, Procs
      <3>2. op' = OpIdle /\ UNCHANGED <<history, running>>
        BY <2>6 DEF OpFail, OpCrash
      <3>3. faults' \in 0 .. MaxFaults
        BY <1>1, <1>2, <2>6 DEF OpFail, OpCrash
      <3>4. QED
        BY <1>1, <1>4, <3>1, <3>2, <3>3
    <2>7. QED
      BY <2>0, <2>1, <2>2, <2>3, <2>4, <2>5, <2>6 DEF Operate
  <1>8. cache' \in [app : AppSpec, history : Seq(Record)]
    BY <1>1 DEF Watch, Operate, OpGet, OpSync, OpStatusGet, OpRecord, OpCommit, OpFail, OpCrash
  <1>9. QED
    BY <1>1, <1>5, <1>7, <1>8 DEF TypeInv, TypeOK, RequestsPrepared

\* Type correctness: no interleaving of deploys, rollbacks, updates, scheduled
\* deployments, builds, clones and reconciles writes a malformed spec or history,
\* and no retry loop runs past its bound.
THEOREM TypeCorrect == Spec => []TypeOK
  <1>1. TypeInv /\ [Next]_vars => TypeInv'
    <2>1. ASSUME TypeInv, UNCHANGED vars PROVE TypeInv'
      BY <2>1 DEF TypeInv, TypeOK, RequestsPrepared, vars
    <2>2. QED
      BY <2>1, RequestTypes, OperatorTypes DEF Next
  <1>2. TypeInv => TypeOK
    BY DEF TypeInv
  <1>3. QED
    BY <1>1, <1>2, TypeInit, PTL DEF Spec

-----------------------------------------------------------------------------
(* Optimistic concurrency: a read that no write followed is the stored spec *)

\* Every write clears every reader's freshness, so what a fresh request is about to
\* send back was edited from the stored spec, and a fresh reconcile holds it too.
FreshIsCurrent ==
    /\ \A r \in Requests : fresh[r] => req[r].pc = "put" /\ req[r].base = app
    /\ fresh[Operator] => op.pc = "record" /\ op.base = app
    /\ fresh[Cache] => cache.app = app

\* Nobody has read anything at first, so what is fresh is current.
LEMMA FreshInit == Init => FreshIsCurrent
  BY DEF Init, FreshIsCurrent, Procs

\* What a request's step does to its own record and to everybody's freshness.
LEMMA FreshRequests ==
    ASSUME TypeInv, FreshIsCurrent, NEW r \in Requests,
           Start(r) \/ Get(r) \/ Put(r) \/ Conflict(r) \/ Abort(r)
    PROVE  FreshIsCurrent'
  <1>1. req \in [Requests -> ReqType] /\ fresh \in [Procs -> BOOLEAN]
        /\ {r, Operator, Cache} \subseteq Procs /\ r # Operator /\ r # Cache
        /\ Requests \subseteq Procs
    BY AppDeployAssumption DEF TypeInv, TypeOK, Procs
  <1>2. UNCHANGED <<cache, op>>
    BY DEF Start, Get, Put, Conflict, Abort
  <1>3. CASE Start(r)
    <2>1. ~fresh[r]
      BY <1>3 DEF Start, FreshIsCurrent
    <2>2. \A s \in Requests \ {r} : req'[s] = req[s]
      BY <1>1, <1>3 DEF Start
    <2>3. UNCHANGED app
      BY <1>3 DEF Start
    <2>4. UNCHANGED fresh \/ \A p \in Procs : fresh'[p] = FALSE
      BY <1>3 DEF Start, MoveVersion
    <2>5. QED
      BY <1>1, <1>2, <2>1, <2>2, <2>3, <2>4 DEF FreshIsCurrent
  <1>4. CASE Get(r)
    <2>1. CASE Accepts(req[r].in, req[r].tries)
      <3>1. req[r] \in ReqState({"get"}, Input, {None})
        BY <1>4, RequestState DEF Get
      <3>2. req'[r].pc = "put" /\ req'[r].base = app
        <4>1. req'[r] = [req[r] EXCEPT !.pc = "put", !.base = app,
                                       !.in = Noted(req[r].in, req[r].tries)]
          BY <1>1, <1>4, <2>1 DEF Get
        <4>2. QED
          BY <3>1, <4>1 DEF ReqState
      <3>3. \A s \in Requests \ {r} : req'[s] = req[s]
        BY <1>1, <1>4, <2>1 DEF Get
      <3>4. UNCHANGED app /\ \A p \in Procs \ {r} : fresh'[p] = fresh[p]
        BY <1>1, <1>4, <2>1 DEF Get
      <3>5. QED
        BY <1>1, <1>2, <3>2, <3>3, <3>4 DEF FreshIsCurrent
    <2>2. CASE ~Accepts(req[r].in, req[r].tries)
      <3>1. ~fresh[r]
        BY <1>4 DEF Get, FreshIsCurrent
      <3>2. \A s \in Requests \ {r} : req'[s] = req[s]
        BY <1>1, <1>4, <2>2 DEF Get
      <3>3. UNCHANGED <<app, fresh>>
        BY <1>4, <2>2 DEF Get
      <3>4. QED
        BY <1>1, <1>2, <3>1, <3>2, <3>3 DEF FreshIsCurrent
    <2>3. QED
      BY <2>1, <2>2
  <1>5. CASE Put(r)
    BY <1>1, <1>5 DEF Put, MoveVersion, FreshIsCurrent
  <1>6. CASE Conflict(r)
    <2>1. ~fresh[r] /\ UNCHANGED <<app, fresh>>
      BY <1>6 DEF Conflict, Refused
    <2>2. \A s \in Requests \ {r} : req'[s] = req[s]
      BY <1>1, <1>6 DEF Conflict
    <2>3. QED
      BY <1>1, <1>2, <2>1, <2>2 DEF FreshIsCurrent
  <1>7. CASE Abort(r)
    <2>1. UNCHANGED app /\ ~fresh'[r] /\ \A p \in Procs \ {r} : fresh'[p] = fresh[p]
      BY <1>1, <1>7 DEF Abort
    <2>2. \A s \in Requests \ {r} : req'[s] = req[s]
      BY <1>1, <1>7 DEF Abort
    <2>3. QED
      BY <1>1, <1>2, <2>1, <2>2 DEF FreshIsCurrent
  <1>8. QED
    BY <1>3, <1>4, <1>5, <1>6, <1>7

\* The operator's steps keep every fresh read equal to the stored resource.
LEMMA FreshOperator ==
    ASSUME TypeInv, FreshIsCurrent, Watch \/ Operate \/ OpFail \/ OpCrash
    PROVE  FreshIsCurrent'
  <1>1. /\ fresh \in [Procs -> BOOLEAN] /\ {Operator, Cache} \subseteq Procs
        /\ Requests \subseteq Procs
        /\ Operator \notin Requests /\ Cache \notin Requests /\ Operator # Cache
        /\ op \in OpType /\ cache \in [app : AppSpec, history : Seq(Record)]
    BY AppDeployAssumption DEF TypeInv, TypeOK, Procs
  <1>2. UNCHANGED <<app, req>>
    BY DEF Watch, Operate, OpGet, OpSync, OpStatusGet, OpRecord, OpCommit, OpFail, OpCrash
  <1>3. ASSUME UNCHANGED <<fresh, cache>>, ~fresh[Operator] PROVE FreshIsCurrent'
    BY <1>2, <1>3 DEF FreshIsCurrent
  <1>0. CASE Watch
    <2>1. /\ cache'.app = app /\ UNCHANGED op
          /\ \A p \in Procs \ {Cache} : fresh'[p] = fresh[p]
      BY <1>0, <1>1 DEF Watch
    <2>2. QED
      BY <1>1, <1>2, <2>1 DEF FreshIsCurrent
  <1>4. ASSUME \A p \in Procs : fresh'[p] = FALSE PROVE FreshIsCurrent'
    BY <1>1, <1>4 DEF FreshIsCurrent
  <1>5. CASE OpGet \/ OpSync
    BY <1>3, <1>5 DEF OpGet, OpSync, FreshIsCurrent
  <1>6. CASE OpStatusGet
    <2>1. op'.pc = "record" /\ op'.base = cache.app
      BY <1>1, <1>6 DEF OpStatusGet, OpType, OpState
    <2>2. /\ \A p \in Procs \ {Operator} : fresh'[p] = fresh[p]
          /\ fresh'[Operator] = fresh[Cache] /\ UNCHANGED cache
      BY <1>1, <1>6 DEF OpStatusGet
    <2>3. QED
      BY <1>1, <1>2, <2>1, <2>2 DEF FreshIsCurrent
  <1>7. CASE OpRecord
    <2>1. op'.pc = op.pc /\ op'.base = op.base /\ UNCHANGED <<fresh, cache>>
      BY <1>1, <1>7 DEF OpRecord, OpType, OpState
    <2>2. QED
      BY <1>2, <2>1 DEF FreshIsCurrent
  <1>8. CASE OpCommit
    <2>1. CASE StatusRefused
      BY <1>3, <1>8, <2>1 DEF OpCommit, StatusRefused
    <2>2. CASE ~StatusRefused
      BY <1>4, <1>8, <2>2 DEF OpCommit, MoveVersion
    <2>3. QED
      BY <2>1, <2>2
  <1>9. CASE OpFail
    BY <1>4, <1>9 DEF OpFail, MoveVersion
  <1>10. CASE OpCrash
    <2>1. /\ ~fresh'[Operator] /\ UNCHANGED cache
          /\ \A p \in Procs \ {Operator} : fresh'[p] = fresh[p]
      BY <1>1, <1>10 DEF OpCrash
    <2>2. QED
      BY <1>1, <1>2, <2>1 DEF FreshIsCurrent
  <1>11. QED
    BY <1>5, <1>6, <1>7, <1>8, <1>9, <1>10, <1>0 DEF Operate

\* The inductive invariant behind the theorems that follow.
Inv == TypeInv /\ FreshIsCurrent

\* The inductive invariant of the version check: types, and fresh reads are current.
LEMMA InvStep == Inv /\ [Next]_vars => Inv'
  <1>1. ASSUME Inv, UNCHANGED vars PROVE Inv'
    BY <1>1 DEF Inv, TypeInv, TypeOK, RequestsPrepared, FreshIsCurrent, vars
  <1>2. QED
    BY <1>1, RequestTypes, OperatorTypes, FreshRequests, FreshOperator DEF Inv, Next

\* It holds in every reachable state.
LEMMA InvHolds == Spec => []Inv
  BY TypeInit, FreshInit, InvStep, PTL DEF Spec, Inv

\* A request that commits has taken its Put step, with nothing in between when it
\* sends back the object it read.
LEMMA CommitIsPut ==
    ASSUME Inv, [Next]_vars, NEW r \in Requests, Committed(r)
    PROVE  /\ Put(r)
           /\ req[r].in \in Input /\ Prepared(req[r].in, req[r].base)
           /\ SendsVersion(req[r].in.kind) => app' = Edit(req[r].in, app, app)
  <1>1. req \in [Requests -> ReqType] /\ req[r].pc = "put"
        /\ req[r] \in ReqState({"put"}, Input, AppSpec) /\ Prepared(req[r].in, req[r].base)
    BY RequestState DEF Inv, TypeInv, TypeOK, Committed
  <1>2. req'[r].pc = "done"
    BY DEF Committed
  <1>3. ASSUME NEW s \in Requests, s # r,
               Start(s) \/ Get(s) \/ Put(s) \/ Conflict(s) \/ Abort(s)
        PROVE  req'[r] = req[r]
    BY <1>1, <1>3 DEF Start, Get, Put, Conflict, Abort
  <1>4. ~Start(r) /\ ~Get(r)
    BY <1>1 DEF Start, Get
  <1>5. ASSUME Conflict(r) PROVE req'[r].pc # "done"
    <2> DEFINE q == req[r]
    <2>1. CASE q.tries + 1 < Attempts(q.in.kind)
      <3>1. req'[r] = [q EXCEPT !.pc = "get", !.base = None,
                                !.in = AfterAttempt(q.in, q.base), !.tries = q.tries + 1]
        BY <1>1, <1>5, <2>1 DEF Conflict
      <3>2. QED
        BY <1>1, <3>1 DEF ReqState
    <2>2. CASE ~(q.tries + 1 < Attempts(q.in.kind))
      BY <1>1, <1>5, <2>2 DEF Conflict, Ended, Idle
    <2>3. QED
      BY <2>1, <2>2
  <1>6. ASSUME Abort(r) PROVE req'[r].pc # "done"
    BY <1>1, <1>6 DEF Abort, Ended, Idle
  <1>7. ASSUME Watch \/ Operate \/ OpFail \/ OpCrash \/ UNCHANGED vars PROVE req' = req
    BY <1>7 DEF Watch, Operate, OpGet, OpSync, OpStatusGet, OpRecord, OpCommit, OpFail, OpCrash, vars
  <1>8. Put(r)
    BY <1>1, <1>2, <1>3, <1>4, <1>5, <1>6, <1>7 DEF Next
  <1>9. ASSUME SendsVersion(req[r].in.kind) PROVE app' = Edit(req[r].in, app, app)
    <2>1. fresh[r]
      BY <1>8, <1>9 DEF Put, Refused
    <2>2. req[r].base = app
      BY <2>1 DEF Inv, FreshIsCurrent
    <2>3. QED
      BY <1>8, <2>2 DEF Put
  <1>10. QED
    BY <1>1, <1>8, <1>9 DEF ReqState

\* Deploys, rollbacks, updates and scheduled deployments are atomic: each that
\* succeeds edits the spec stored at that moment, whatever it read and retried before.
THEOREM AtomicWrites == Spec => WritesAreAtomic
  <1>1. Inv /\ [Next]_vars =>
          [\A r \in Requests :
             Committed(r) /\ SendsVersion(req[r].in.kind) => app' = Edit(req[r].in, app, app)]_vars
    BY CommitIsPut
  <1>2. QED
    BY <1>1, InvHolds, PTL DEF Spec, WritesAreAtomic

-----------------------------------------------------------------------------
(* A deploy and the environments it does not name *)

\* Writing one environment's tag changes no other environment's entry, so none of
\* them resolves to another image.
LEMMA SetEnvTagKeepsOthers ==
    ASSUME NEW spec \in AppSpec, NEW e, HasEnv(spec, e), NEW tag \in Tags, NEW f, f # e
    PROVE  Runs(SetEnvTag(spec, e, tag), f) = Runs(spec, f)
  <1> DEFINE i == EnvIndex(spec, e)
             new == SetEnvTag(spec, e, tag)
  <1>1. /\ i \in DOMAIN spec.envs /\ EnvImage(spec, e) \in Image
        /\ spec.envs[i].name = e
    BY EnvIndexFound
  <1>2. [EnvImage(spec, e) EXCEPT !.tag = tag] \in Image
    BY <1>1 DEF Image
  <1>3. /\ new \in AppSpec /\ DOMAIN new.envs = DOMAIN spec.envs /\ new.image = spec.image
        /\ \A j \in DOMAIN spec.envs :
             /\ new.envs[j].name = spec.envs[j].name
             /\ j # i => new.envs[j] = spec.envs[j]
    <2> DEFINE image == [EnvImage(spec, e) EXCEPT !.tag = tag]
    <2>1. new = SetEnvImage(spec, i, image)
      BY DEF SetEnvTag
    <2>2. image \in Image /\ i \in DOMAIN spec.envs
      BY <1>1, <1>2
    <2> HIDE DEF new, i, image
    <2>3. QED
      BY <2>1, <2>2, SetEnvImageType
  <1> HIDE DEF new, i
  <1>4. Entries(new, f) = Entries(spec, f)
    BY <1>3 DEF Entries
  <1>5. CASE HasEnv(spec, f)
    <2>1. HasEnv(new, f) /\ EnvIndex(new, f) = EnvIndex(spec, f)
      BY <1>4, <1>5 DEF HasEnv, EnvIndex
    <2>2. EnvIndex(spec, f) \in DOMAIN spec.envs /\ spec.envs[EnvIndex(spec, f)].name = f
      BY <1>5, EnvIndexFound
    <2>3. EnvImage(new, f) = EnvImage(spec, f)
      BY <1>1, <1>3, <2>1, <2>2 DEF EnvImage
    <2>4. QED
      <3>1. ResolveImage(new, EnvImage(new, f)) = ResolveImage(spec, EnvImage(spec, f))
        BY <1>3, <2>3 DEF ResolveImage
      <3>2. Runs(new, f) = Runs(spec, f)
        BY <1>5, <2>1, <3>1 DEF Runs
      <3>3. QED
        BY <3>2 DEF new
  <1>6. CASE ~HasEnv(spec, f)
    <2>1. ~HasEnv(new, f)
      BY <1>4, <1>6 DEF HasEnv
    <2>2. Runs(new, f) = Runs(spec, f)
      BY <1>6, <2>1 DEF Runs
    <2>3. QED
      BY <2>2 DEF new
  <1>7. QED
    BY <1>5, <1>6

\* As long as the app still has the environment a deploy names when the deploy
\* commits, no other environment's image changes.
THEOREM DeployIsLocal == Spec => DeployKeepsOthers
  <1>1. ASSUME Inv, [Next]_vars, NEW r \in Requests,
               Committed(r), req[r].in.kind = "deploy", HasEnv(app, req[r].in.env),
               NEW e \in Envs \ {req[r].in.env}
        PROVE  Runs(app', e) = Runs(app, e)
    <2> DEFINE in == req[r].in
    <2>1. app' = Edit(in, app, app) /\ in \in Input
      BY <1>1, CommitIsPut DEF SendsVersion
    <2>2. app' = SetEnvTag(app, in.env, in.tag)
      BY <1>1, <2>1 DEF Edit, DeployEdit
    <2>3. app \in AppSpec /\ in.tag \in Tags
      BY <1>1, <2>1 DEF Inv, TypeInv, TypeOK, Input
    <2>4. QED
      BY <1>1, <2>2, <2>3, SetEnvTagKeepsOthers
  <1>2. Inv /\ [Next]_vars =>
          [\A r \in Requests :
             /\ Committed(r) /\ req[r].in.kind = "deploy"
             /\ HasEnv(app, req[r].in.env)
             => \A e \in Envs \ {req[r].in.env} : Runs(app', e) = Runs(app, e)]_vars
    BY <1>1
  <1>3. QED
    BY <1>2, InvHolds, PTL DEF Spec, DeployKeepsOthers

-----------------------------------------------------------------------------
(* The deployment history *)

\* Versions of a history count 1, 2, 3 ...
Dense(hist) == \A i \in DOMAIN hist : hist[i].version = i

\* The history in the making counts on as well: it is the one a status update read
\* from the cache, and the next version is one more than the last.
HistoryInv == Dense(history) /\ Dense(cache.history) /\ Dense(op.hist)

\* A new app has the empty, dense history.
LEMMA HistoryInit == Init => HistoryInv
  BY DEF Init, HistoryInv, Dense, OpIdle

\* Appending a record with the next version keeps a history dense.
LEMMA RecordKeepsDense ==
    ASSUME NEW hist \in Seq(Record), Dense(hist), NEW record, record.version = NextVersion(hist)
    PROVE  Dense(Append(hist, record))
  <1>1. Len(hist) \in Nat /\ DOMAIN hist = 1 .. Len(hist)
    BY LenProperties
  <1>2. NextVersion(hist) = Len(hist) + 1
    <2>1. CASE hist = <<>>
      BY <2>1 DEF NextVersion
    <2>2. CASE hist # <<>>
      <3>1. Len(hist) \in DOMAIN hist
        BY <1>1, <2>2, EmptySeq
      <3>2. hist[Len(hist)].version = Len(hist)
        BY <3>1 DEF Dense
      <3>3. QED
        BY <2>2, <3>2 DEF NextVersion
    <2>3. QED
      BY <2>1, <2>2
  <1>3. DOMAIN Append(hist, record) = 1 .. (Len(hist) + 1)
    BY <1>1
  <1>4. ASSUME NEW i \in 1 .. (Len(hist) + 1) PROVE Append(hist, record)[i].version = i
    BY <1>1, <1>2 DEF Dense
  <1>5. QED
    BY <1>3, <1>4 DEF Dense

\* Every step keeps the stored, the cached and the in-memory history dense.
LEMMA HistoryStep ==
    ASSUME TypeInv, HistoryInv, [Next]_vars
    PROVE  HistoryInv'
  <1>1. history \in Seq(Record) /\ op.hist \in Seq(Record) /\ op \in OpType
    BY DEF TypeInv, TypeOK, OpType, OpState
  <1>2. Dense(OpIdle.hist)
    BY DEF Dense, OpIdle
  <1>3. ASSUME NEW r \in Requests, Start(r) \/ Get(r) \/ Put(r) \/ Conflict(r) \/ Abort(r)
        PROVE  HistoryInv'
    BY <1>3 DEF Start, Get, Put, Conflict, Abort, HistoryInv
  <1>4. CASE OpGet \/ OpSync
    BY <1>1, <1>4 DEF OpGet, OpSync, OpType, OpState, HistoryInv
  <1>11. CASE Watch
    BY <1>11 DEF Watch, HistoryInv
  <1>5. CASE OpStatusGet
    BY <1>1, <1>5 DEF OpStatusGet, OpType, OpState, HistoryInv
  <1>6. CASE OpRecord
    <2> DEFINE target == Head(op.left)
               image  == ResolveImage(op.base, target.image)
               record == [version |-> NextVersion(op.hist), env |-> target.name, image |-> image]
    <2>1. op'.hist = op.hist \/ op'.hist = Append(op.hist, record)
      BY <1>1, <1>6 DEF OpRecord, OpType, OpState
    <2>2. record.version = NextVersion(op.hist)
      OBVIOUS
    <2>3. Dense(Append(op.hist, record))
      <3> HIDE DEF record
      <3>1. QED
        BY <1>1, <2>2, RecordKeepsDense DEF HistoryInv
    <2>4. QED
      BY <1>6, <2>1, <2>3 DEF OpRecord, HistoryInv
  <1>7. CASE OpCommit
    <2>1. op'.hist = <<>>
      <3>1. \/ op' = OpIdle
            \/ op' = [OpIdle EXCEPT !.pc = "status", !.tries = op.tries + 1]
        <4>1. CASE StatusRefused
          BY <1>7, <4>1 DEF OpCommit
        <4>2. CASE ~StatusRefused
          BY <1>7, <4>2 DEF OpCommit
        <4>3. QED
          BY <4>1, <4>2
      <3>2. CASE op' = OpIdle
        BY <3>2 DEF OpIdle
      <3>3. CASE op' = [OpIdle EXCEPT !.pc = "status", !.tries = op.tries + 1]
        BY <3>3 DEF OpIdle
      <3>4. QED
        BY <3>1, <3>2, <3>3
    <2>2. UNCHANGED cache /\ (history' = history \/ history' = op.hist)
      BY <1>7 DEF OpCommit
    <2>3. Dense(op'.hist)
      BY <2>1 DEF Dense
    <2>4. Dense(history')
      BY <2>2 DEF HistoryInv
    <2>5. QED
      BY <2>2, <2>3, <2>4 DEF HistoryInv
  <1>8. CASE OpFail \/ OpCrash
    BY <1>2, <1>8 DEF OpFail, OpCrash, HistoryInv
  <1>9. CASE UNCHANGED vars
    BY <1>9 DEF vars, HistoryInv
  <1>10. QED
    BY <1>3, <1>4, <1>5, <1>6, <1>7, <1>8, <1>9, <1>11 DEF Next, Operate

\* Deployment versions have no gap and no repetition, however many status updates
\* are refused, retried or cut short.
THEOREM HistoryIsDense == Spec => []HistoryVersions
  <1>1. HistoryInv => HistoryVersions
    BY DEF HistoryInv, Dense, HistoryVersions
  <1>2. Inv /\ HistoryInv /\ [Next]_vars => HistoryInv'
    BY HistoryStep DEF Inv
  <1>3. QED
    BY <1>1, <1>2, HistoryInit, InvHolds, PTL DEF Spec

-----------------------------------------------------------------------------
(* What the history records *)

\* The last image of an environment is that of a record for it that is appended.
LEMMA LastImageAppended ==
    ASSUME NEW hist \in Seq(Record), NEW record \in Record, NEW e
    PROVE  LastImage(Append(hist, record), e) =
             IF record.env = e THEN record.image ELSE LastImage(hist, e)
  <1> DEFINE n    == Len(hist)
             new  == Append(hist, record)
             recs == {i \in DOMAIN hist : hist[i].env = e}
             news == {i \in DOMAIN new : new[i].env = e}
  <1>1. /\ n \in Nat /\ DOMAIN hist = 1 .. n /\ DOMAIN new = 1 .. (n + 1) /\ new[n + 1] = record
        /\ \A i \in 1 .. n : new[i] = hist[i]
    OBVIOUS
  <1> HIDE DEF n, new
  <1>2. CASE record.env = e
    <2>1. n + 1 \in news /\ news \in SUBSET (1 .. (n + 1)) /\ n + 1 \in Nat
      BY <1>1, <1>2
    <2>2. Max(news) \in news /\ \A y \in news : y <= Max(news)
      <3> HIDE DEF news
      <3>1. QED
        BY <2>1, MaxOfPositions
    <2>3. Max(news) = n + 1
      <3> HIDE DEF news
      <3>1. Max(news) \in 1 .. (n + 1) /\ n + 1 <= Max(news)
        BY <2>1, <2>2
      <3>2. QED
        BY <1>1, <3>1
    <2>4. QED
      BY <1>1, <1>2, <2>1, <2>3 DEF LastImage, new
  <1>3. CASE record.env # e
    <2>1. news = recs
      BY <1>1, <1>3
    <2>2. recs # {} => Max(recs) \in recs
      <3>1. recs \in SUBSET (1 .. n) /\ n \in Nat
        BY <1>1
      <3> HIDE DEF recs
      <3>2. QED
        BY <3>1, MaxOfPositions
    <2>3. recs # {} => new[Max(recs)] = hist[Max(recs)]
      BY <1>1, <2>2
    <2>4. QED
      BY <1>3, <2>1, <2>3 DEF LastImage, new
  <1>4. QED
    BY <1>2, <1>3

\* The turns of the history loop so far: of the targets that are not left each environment's
\* last one is what the history has for it.
Turned(base, left, hist) ==
    LET targets == Targets(base)
        n       == Len(targets) - Len(left)
    IN  /\ n \in Nat
        /\ \A i \in 1 .. Len(left) : left[i] = targets[n + i]
        /\ base.image # None =>
             \A i \in 1 .. n : (\A j \in (i + 1) .. n : targets[j].name # targets[i].name) =>
                 LastImage(hist, targets[i].name) = ResolveImage(base, targets[i].image)

\* One more turn.
LEMMA OneTurn ==
    ASSUME NEW base \in AppSpec, NEW left \in Seq(EnvEntry), left # <<>>, NEW hist \in Seq(Record),
           NEW hist2, Turned(base, left, hist),
           base.image # None =>
              LET target == Head(left)
                  image  == ResolveImage(base, target.image)
              IN  IF LastImage(hist, target.name) = image
                  THEN hist2 = hist
                  ELSE hist2 = Append(hist, [version |-> NextVersion(hist), env |-> target.name, image |-> image])
    PROVE  Turned(base, Tail(left), hist2)
  <1> DEFINE targets == Targets(base)
             n       == Len(targets) - Len(left)
             target  == Head(left)
             image   == ResolveImage(base, target.image)
  <1>1. /\ Len(left) \in Nat /\ Len(left) > 0 /\ Tail(left) \in Seq(EnvEntry)
        /\ Len(Tail(left)) = Len(left) - 1
        /\ \A i \in 1 .. Len(Tail(left)) : Tail(left)[i] = left[i + 1]
        /\ target = left[1] /\ target \in EnvEntry
    OBVIOUS
  <1>2. targets \in Seq(EnvEntry) /\ Len(targets) \in Nat /\ n \in Nat
    BY TargetsType DEF Turned
  <1>3. target = targets[n + 1]
    BY <1>1 DEF Turned
  <1>4. Len(targets) - Len(Tail(left)) = n + 1
    BY <1>1, <1>2
  <1>5. \A i \in 1 .. Len(Tail(left)) : Tail(left)[i] = targets[(n + 1) + i]
    BY <1>1, <1>2 DEF Turned
  <1>6. ASSUME base.image # None
        PROVE  \A e : LastImage(hist2, e) = IF e = target.name THEN image ELSE LastImage(hist, e)
    <2> DEFINE record == [version |-> NextVersion(hist), env |-> target.name, image |-> image]
    <2>1. CASE hist2 = hist /\ LastImage(hist, target.name) = image
      BY <2>1
    <2>2. CASE hist2 = Append(hist, record)
      <3>1. image \in (Repos \cup {None}) \X Tags
        BY <1>1, <1>6, ResolveImageType DEF EnvEntry
      <3>2. NextVersion(hist) \in Nat
        <4>1. hist # <<>> => hist[Len(hist)] \in Record
          OBVIOUS
        <4>2. QED
          BY <4>1 DEF NextVersion, Record
      <3>3. record \in Record /\ record.env = target.name /\ record.image = image
        BY <1>1, <3>1, <3>2 DEF Record, EnvEntry
      <3> HIDE DEF record, image, target
      <3>4. QED
        BY <2>2, <3>3, LastImageAppended
    <2>3. QED
      BY <1>6, <2>1, <2>2
  <1> HIDE DEF image, target
  <1>7. ASSUME base.image # None, NEW i \in 1 .. (n + 1),
               \A j \in (i + 1) .. (n + 1) : targets[j].name # targets[i].name
        PROVE  LastImage(hist2, targets[i].name) = ResolveImage(base, targets[i].image)
    <2>1. CASE i = n + 1
      BY <1>3, <1>6, <1>7, <2>1 DEF image
    <2>2. CASE i # n + 1
      <3>1. i \in 1 .. n /\ n + 1 \in (i + 1) .. (n + 1)
        BY <1>2, <2>2
      <3>2. \A j \in (i + 1) .. n : targets[j].name # targets[i].name
        BY <1>2, <1>7, <3>1
      <3>3. LastImage(hist, targets[i].name) = ResolveImage(base, targets[i].image)
        BY <1>7, <3>1, <3>2 DEF Turned
      <3>4. targets[i].name # target.name
        BY <1>3, <1>7, <3>1
      <3>5. QED
        BY <1>6, <1>7, <3>3, <3>4
    <2>3. QED
      BY <2>1, <2>2
  <1>8. QED
    BY <1>2, <1>4, <1>5, <1>7 DEF Turned

\* A fresh cache holds the stored history; a fresh status update of an app without an image, which
\* records nothing, has the stored one; and the loop has got as far as the targets it has left.
RecordInv ==
    /\ fresh[Cache] => cache.history = history
    /\ fresh[Operator] /\ op.base.image = None => op.hist = history
    /\ op.pc = "record" => Turned(op.base, op.left, op.hist)

\* Every step keeps what the history loop has recorded.
LEMMA RecordStep ==
    ASSUME Inv, RecordInv, [Next]_vars
    PROVE  RecordInv'
  <1>1. /\ op \in OpType /\ op.hist \in Seq(Record) /\ op.left \in Seq(EnvEntry)
        /\ op.pc = "record" => op.base \in AppSpec
        /\ cache.app \in AppSpec /\ fresh \in [Procs -> BOOLEAN]
        /\ {Operator, Cache} \subseteq Procs /\ Operator # Cache
        /\ Operator \notin Requests /\ Cache \notin Requests
    BY AppDeployAssumption DEF Inv, TypeInv, TypeOK, OpType, OpState, Procs
  <1>2. ASSUME UNCHANGED <<history, cache, op>>, fresh'[Cache] => fresh[Cache],
               fresh'[Operator] => fresh[Operator]
        PROVE  RecordInv'
    BY <1>2 DEF RecordInv
  <1>3. ASSUME NEW r \in Requests, Start(r) \/ Get(r) \/ Put(r) \/ Conflict(r) \/ Abort(r)
        PROVE  RecordInv'
    <2>1. UNCHANGED <<history, cache, op>>
      BY <1>3 DEF Start, Get, Put, Conflict, Abort
    <2>2. (fresh'[Cache] => fresh[Cache]) /\ (fresh'[Operator] => fresh[Operator])
      BY <1>1, <1>3 DEF Start, Get, Put, Conflict, Abort, MoveVersion
    <2>3. QED
      BY <1>2, <2>1, <2>2
  <1>4. CASE Watch
    <2>1. /\ cache'.history = history /\ UNCHANGED <<history, op>>
          /\ fresh'[Operator] = fresh[Operator]
      BY <1>1, <1>4 DEF Watch
    <2>2. QED
      BY <2>1 DEF RecordInv
  <1>5. CASE OpGet \/ OpSync
    <2>1. UNCHANGED <<history, cache, fresh>> /\ op'.pc = "sync" /\ ~fresh[Operator]
      BY <1>1, <1>5 DEF OpGet, OpSync, Inv, FreshIsCurrent, OpType, OpState
    <2>2. QED
      BY <2>1 DEF RecordInv
  <1>6. CASE OpStatusGet
    <2>1. /\ op'.pc = "record" /\ op'.base = cache.app /\ op'.hist = cache.history
          /\ op'.left = Targets(cache.app) /\ UNCHANGED <<history, cache>>
          /\ fresh'[Cache] = fresh[Cache] /\ fresh'[Operator] = fresh[Cache]
      BY <1>1, <1>6 DEF OpStatusGet, OpType, OpState
    <2>2. Turned(cache.app, Targets(cache.app), cache.history)
      <3>1. Len(Targets(cache.app)) \in Nat
        BY <1>1, TargetsType
      <3>2. QED
        BY <3>1 DEF Turned
    <2>3. QED
      BY <2>1, <2>2 DEF RecordInv
  <1>7. CASE OpRecord
    <2> DEFINE target == Head(op.left)
               image  == ResolveImage(op.base, target.image)
               new    == [version |-> NextVersion(op.hist), env |-> target.name, image |-> image]
    <2>1. /\ op.pc = "record" /\ op'.pc = "record" /\ op'.base = op.base /\ op'.left = Tail(op.left)
          /\ op.left # <<>> /\ UNCHANGED <<history, cache, fresh>>
          /\ op'.hist = IF op.base.image = None \/ LastImage(op.hist, target.name) = image
                        THEN op.hist ELSE Append(op.hist, new)
      BY <1>1, <1>7 DEF OpRecord, OpType, OpState
    <2>2. Turned(op.base, op.left, op.hist) /\ op.base \in AppSpec
      BY <1>1, <2>1 DEF RecordInv
    <2>3. Turned(op.base, Tail(op.left), op'.hist)
      BY <1>1, <2>1, <2>2, OneTurn
    <2>4. QED
      BY <2>1, <2>3 DEF RecordInv
  <1>8. CASE OpCommit \/ OpFail \/ OpCrash
    <2>1. op'.pc # "record" /\ UNCHANGED cache
      <3>1. \/ op' = OpIdle
            \/ op' = [OpIdle EXCEPT !.pc = "status", !.tries = op.tries + 1]
        <4>1. CASE OpCommit /\ StatusRefused
          BY <4>1 DEF OpCommit
        <4>2. CASE OpCommit /\ ~StatusRefused
          BY <4>2 DEF OpCommit
        <4>3. CASE OpFail \/ OpCrash
          BY <4>3 DEF OpFail, OpCrash
        <4>4. QED
          BY <1>8, <4>1, <4>2, <4>3
      <3>2. OpIdle.pc # "record" /\ [OpIdle EXCEPT !.pc = "status", !.tries = op.tries + 1].pc # "record"
        BY DEF OpIdle
      <3>3. QED
        BY <1>8, <3>1, <3>2 DEF OpCommit, OpFail, OpCrash
    <2>2. ~fresh'[Operator]
      BY <1>1, <1>8 DEF OpCommit, OpFail, OpCrash, MoveVersion, StatusRefused
    <2>3. fresh'[Cache] => fresh[Cache] /\ UNCHANGED history
      BY <1>1, <1>8 DEF OpCommit, OpFail, OpCrash, MoveVersion
    <2>4. QED
      BY <2>1, <2>2, <2>3 DEF RecordInv
  <1>9. CASE UNCHANGED vars
    BY <1>2, <1>9 DEF vars
  <1>10. QED
    BY <1>3, <1>4, <1>5, <1>6, <1>7, <1>8, <1>9 DEF Next, Operate

\* When the history changes, a fresh status update has gone through all targets.
LEMMA CommitIsCurrent ==
    ASSUME Inv, RecordInv, [Next]_vars, history' # history, NEW i \in LastTargets(app)
    PROVE  LastImage(history', Targets(app)[i].name) = ResolveImage(app, Targets(app)[i].image)
  <1>1. OpCommit /\ fresh[Operator] /\ history' = op.hist
    BY DEF Next, Start, Get, Put, Conflict, Abort, Watch, Operate, OpGet, OpSync, OpStatusGet, OpRecord,
       OpCommit, OpFail, OpCrash, StatusRefused, vars
  <1>2. op.base = app /\ app.image # None /\ op.left = <<>> /\ op.pc = "record"
    BY <1>1 DEF Inv, FreshIsCurrent, RecordInv, OpCommit
  <1>3. Turned(app, <<>>, history')
    BY <1>1, <1>2 DEF RecordInv
  <1>4. /\ Targets(app) \in Seq(EnvEntry) /\ Len(Targets(app)) \in Nat
        /\ DOMAIN Targets(app) = 1 .. Len(Targets(app))
    BY TargetsType DEF Inv, TypeInv, TypeOK
  <1>5. Len(Targets(app)) - Len(<<>>) = Len(Targets(app))
    BY <1>4
  <1>6. \A j \in (i + 1) .. Len(Targets(app)) : Targets(app)[j].name # Targets(app)[i].name
    BY <1>4 DEF LastTargets
  <1>7. i \in 1 .. Len(Targets(app))
    BY <1>4 DEF LastTargets
  <1>8. QED
    BY <1>2, <1>3, <1>5, <1>6, <1>7 DEF Turned

\* A history that grows records what the stored spec resolves to (updateStatus), although the loop
\* works on what the cache held a while before: a status update that is not refused has read the
\* spec of the moment.
THEOREM HistoryRecordsTheSpec == Spec => HistoryIsCurrent
  <1>1. Init => RecordInv
    BY AppDeployAssumption DEF Init, RecordInv, OpIdle, Procs
  <1>2. Inv /\ RecordInv /\ [Next]_vars => RecordInv'
    BY RecordStep
  <1>3. Inv /\ RecordInv /\ [Next]_vars =>
          [history' # history =>
             \A i \in LastTargets(app) :
                 LET target == Targets(app)[i]
                 IN  LastImage(history', target.name) = ResolveImage(app, target.image)]_vars
    BY CommitIsCurrent
  <1>4. QED
    BY <1>1, <1>2, <1>3, InvHolds, PTL DEF Spec, HistoryIsCurrent

-----------------------------------------------------------------------------
(* Configuration updates *)

\* A patch still lists environments, or sets the image, only if it did when it came; the rest of
\* the configuration is as it came.
StillAsked(patch, asked) ==
    /\ patch = None <=> asked = None
    /\ asked # None => /\ patch.cfg = asked.cfg
                       /\ asked.envs = None => patch.envs = None
                       /\ asked.image = None => patch.image = None

\* A handler works on what it was asked for: it looks up the tag of a rollback and the repository
\* of a deploy, and fills in the patch of an update when it has to repeat its attempt.
AsAsked(in, asked, tries) ==
    /\ in.kind = asked.kind /\ in.env = asked.env /\ in.new = asked.new
    /\ in.kind # "rollback" => in.tag = asked.tag
    /\ in.kind # "deploy" => in.repo = asked.repo
    /\ tries = 0 => in.patch = asked.patch
    /\ StillAsked(in.patch, asked.patch)

AskedKept ==
    \A r \in Requests : req[r].pc \in {"get", "put"} => AsAsked(req[r].in, req[r].asked, req[r].tries)

\* What the handler notes for itself changes nothing it was asked for.
LEMMA NotedKeeps ==
    ASSUME NEW in \in Input, NEW asked, NEW tries, AsAsked(in, asked, tries)
    PROVE  AsAsked(Noted(in, tries), asked, tries)
  <1>1. CASE in.kind = "deploy"
    <2>1. /\ Noted(in, tries).kind = in.kind /\ Noted(in, tries).env = in.env
          /\ Noted(in, tries).new = in.new /\ Noted(in, tries).tag = in.tag
          /\ Noted(in, tries).patch = in.patch
      BY <1>1 DEF Noted, Input
    <2>2. QED
      BY <1>1, <2>1 DEF AsAsked
  <1>2. CASE in.kind = "rollback"
    <2>1. /\ Noted(in, tries).kind = in.kind /\ Noted(in, tries).env = in.env
          /\ Noted(in, tries).new = in.new /\ Noted(in, tries).repo = in.repo
          /\ Noted(in, tries).patch = in.patch
      BY <1>2 DEF Noted, Input
    <2>2. QED
      BY <1>2, <2>1 DEF AsAsked
  <1>3. CASE in.kind \notin {"deploy", "rollback"}
    BY <1>3 DEF Noted
  <1>4. QED
    BY <1>1, <1>2, <1>3

\* A patch that is filled in still sets what it set, and no more.
LEMMA RestoredKeeps ==
    ASSUME NEW spec \in AppSpec, NEW patch \in Patch
    PROVE  /\ RestorePatch(spec, patch).cfg = patch.cfg
           /\ patch.envs = None => RestorePatch(spec, patch).envs = None
           /\ patch.image = None => RestorePatch(spec, patch).image = None
  BY DEF RestorePatch, Patch

\* So an attempt that has to be repeated leaves what was asked for, but for the patch.
LEMMA AttemptKeeps ==
    ASSUME NEW in \in Input, NEW asked \in Input, NEW base \in AppSpec, NEW tries, AsAsked(in, asked, tries)
    PROVE  AsAsked(AfterAttempt(in, base), asked, 1)
  <1>1. CASE in.kind # "update"
    BY <1>1 DEF AfterAttempt, AsAsked
  <1>2. CASE in.kind = "update"
    <2> DEFINE new == [in EXCEPT !.patch = RestorePatch(base, in.patch)]
    <2>1. /\ new.kind = in.kind /\ new.env = in.env /\ new.new = in.new /\ new.tag = in.tag
          /\ new.repo = in.repo /\ new.patch = RestorePatch(base, in.patch)
      BY DEF Input
    <2>2. in.patch \in Patch /\ asked.patch \in Patch \cup {None} /\ in.patch # None
      BY <1>2 DEF Input
    <2>3. asked.patch # None
      BY <2>2 DEF AsAsked, StillAsked
    <2>4. RestorePatch(base, in.patch) # None
      BY <2>2, RestorePatchType, InputsAssumption
    <2>5. AfterAttempt(in, base) = new
      BY <1>2 DEF AfterAttempt
    <2> HIDE DEF new
    <2>6. StillAsked(new.patch, asked.patch)
      BY <2>1, <2>2, <2>3, <2>4, RestoredKeeps DEF AsAsked, StillAsked
    <2>7. QED
      BY <1>2, <2>1, <2>5, <2>6 DEF AsAsked
  <1>3. QED
    BY <1>1, <1>2

LEMMA AskedStep ==
    ASSUME Inv, AskedKept, [Next]_vars
    PROVE  AskedKept'
  <1>1. req \in [Requests -> ReqType]
    BY DEF Inv, TypeInv, TypeOK
  <1>2. ASSUME NEW r \in Requests, NEW q, req' = [req EXCEPT ![r] = q],
               q.pc \in {"get", "put"} => AsAsked(q.in, q.asked, q.tries)
        PROVE  AskedKept'
    BY <1>1, <1>2 DEF AskedKept, AsAsked, StillAsked
  <1>3. ASSUME NEW r \in Requests, NEW outcome \in {"done", "failed", "rejected"},
               req' = [req EXCEPT ![r] = Ended(@, outcome)]
        PROVE  AskedKept'
    <2>1. Ended(req[r], outcome).pc = outcome
      BY DEF Ended, Idle
    <2>2. req' = [req EXCEPT ![r] = Ended(req[r], outcome)]
      BY <1>3
    <2>3. QED
      BY <1>2, <2>1, <2>2
  <1>4. ASSUME NEW r \in Requests, Start(r) PROVE AskedKept'
    <2>1. req[r] = Idle
      BY <1>4, RequestState DEF Start, Inv
    <2>2. PICK in \in Inputs : req' = [req EXCEPT ![r] = [@ EXCEPT !.pc = "get", !.asked = in, !.in = in]]
      BY <1>4 DEF Start
    <2> DEFINE q == [Idle EXCEPT !.pc = "get", !.asked = in, !.in = in]
    <2>3. q.in = in /\ q.asked = in
      BY DEF Idle
    <2>4. req' = [req EXCEPT ![r] = q]
      BY <1>1, <2>1, <2>2
    <2>5. AsAsked(in, in, q.tries)
      BY DEF AsAsked, StillAsked
    <2> HIDE DEF q
    <2>6. QED
      BY <1>2, <2>3, <2>4, <2>5
  <1>5. ASSUME NEW r \in Requests, Get(r) PROVE AskedKept'
    <2> DEFINE in == req[r].in
               q  == [req[r] EXCEPT !.pc = "put", !.base = app, !.in = Noted(in, req[r].tries)]
    <2>1. /\ req[r] \in ReqState({"get"}, Input, {None})
          /\ AsAsked(in, req[r].asked, req[r].tries)
      BY <1>5, RequestState DEF Get, Inv, AskedKept
    <2>2. CASE req' = [req EXCEPT ![r] = Ended(@, "rejected")]
      BY <1>3, <2>2
    <2>3. CASE req' = [req EXCEPT ![r] = q]
      <3>1. /\ q.asked = req[r].asked /\ q.tries = req[r].tries
            /\ q.in = Noted(in, req[r].tries)
        BY <2>1 DEF ReqState
      <3>2. in \in Input
        BY <2>1 DEF ReqState
      <3> HIDE DEF q, in
      <3>3. AsAsked(q.in, q.asked, q.tries)
        BY <2>1, <3>1, <3>2, NotedKeeps
      <3>4. QED
        BY <1>2, <2>3, <3>3
    <2>4. QED
      BY <1>5, <2>2, <2>3 DEF Get
  <1>6. ASSUME NEW r \in Requests, Put(r) \/ Abort(r) PROVE AskedKept'
    BY <1>3, <1>6 DEF Put, Abort
  <1>7. ASSUME NEW r \in Requests, Conflict(r) PROVE AskedKept'
    <2> DEFINE in == req[r].in
               q  == [req[r] EXCEPT !.pc = "get", !.base = None,
                                    !.in = AfterAttempt(in, req[r].base),
                                    !.tries = req[r].tries + 1]
    <2>1. /\ req[r] \in ReqState({"put"}, Input, AppSpec)
          /\ AsAsked(in, req[r].asked, req[r].tries)
      BY <1>7, RequestState DEF Conflict, Inv, AskedKept
    <2>2. CASE req' = [req EXCEPT ![r] = Ended(@, "failed")]
      BY <1>3, <2>2
    <2>3. CASE req' = [req EXCEPT ![r] = q]
      <3>1. /\ q.asked = req[r].asked /\ q.tries = req[r].tries + 1
            /\ q.in = AfterAttempt(in, req[r].base)
        BY <2>1 DEF ReqState
      <3>2. /\ req[r].tries \in Nat /\ in \in Input /\ req[r].asked \in Input
            /\ req[r].base \in AppSpec
        BY <2>1, AppDeployAssumption DEF ReqState
      <3> HIDE DEF q, in
      <3>3. AsAsked(q.in, q.asked, 1)
        BY <2>1, <3>1, <3>2, AttemptKeeps
      <3>4. AsAsked(q.in, q.asked, q.tries)
        <4>1. q.tries # 0
          BY <3>1, <3>2
        <4>2. QED
          BY <3>3, <4>1 DEF AsAsked
      <3>5. QED
        BY <1>2, <2>3, <3>4
    <2>4. QED
      BY <1>7, <2>2, <2>3 DEF Conflict
  <1>8. CASE UNCHANGED req
    BY <1>8 DEF AskedKept, AsAsked, StillAsked
  <1>9. Watch \/ Operate \/ OpFail \/ OpCrash \/ UNCHANGED vars => UNCHANGED req
    BY DEF Watch, Operate, OpGet, OpSync, OpStatusGet, OpRecord, OpCommit, OpFail, OpCrash, vars
  <1>10. QED
    BY <1>4, <1>5, <1>6, <1>7, <1>8, <1>9 DEF Next

\* No request has been made at first.
LEMMA AskedInit == Init => AskedKept
  BY DEF Init, AskedKept, Idle

LEMMA AskedHolds == Spec => []AskedKept
  BY AskedInit, AskedStep, InvHolds, PTL DEF Spec

\* A patch that names no image for an environment leaves what it runs, wherever the patch lists it.
LEMMA UpdateEditKeeps ==
    ASSUME NEW spec \in AppSpec, NEW patch \in Patch, patch.image = None, NEW e,
           HasEnv(spec, e), ListedOnce(spec, e), HasEnv(UpdateEdit(spec, patch), e),
           \A i \in DOMAIN UpdateEdit(spec, patch).envs :
              patch.envs # None /\ UpdateEdit(spec, patch).envs[i].name = e =>
                  patch.envs[i].image = None
    PROVE  Runs(UpdateEdit(spec, patch), e) = Runs(spec, e)
  <1> DEFINE new == UpdateEdit(spec, patch)
             p   == RestorePatch(spec, patch)
  <1>1. new \in AppSpec /\ new.image = spec.image
    <2>1. p.image = None
      BY DEF RestorePatch, Patch
    <2>2. QED
      BY <2>1, UpdateEditType DEF UpdateEdit
  <1>2. EnvImage(new, e) = EnvImage(spec, e)
    <2>1. CASE patch.envs = None
      <3>1. p.envs = None
        BY <2>1 DEF RestorePatch, Patch
      <3>2. new.envs = spec.envs
        BY <3>1 DEF UpdateEdit
      <3> HIDE DEF new
      <3>3. QED
        BY <3>2 DEF EnvImage, EnvIndex, Entries
    <2>2. CASE patch.envs # None
      <3> DEFINE i == EnvIndex(new, e)
                 k == EnvIndex(spec, e)
      <3>1. patch.envs \in Seq(PatchEntry) /\ DOMAIN patch.envs = 1 .. Len(patch.envs)
        BY <2>2, LenProperties DEF Patch
      <3>2. p.envs = [j \in DOMAIN patch.envs |-> RestoreEnvImage(spec, patch.envs[j])]
        BY <2>2 DEF RestorePatch, Patch
      <3>3. p.envs # None
        <4>1. p \in Patch
          BY RestorePatchType
        <4>2. \A j \in DOMAIN patch.envs : p.envs[j] = RestoreEnvImage(spec, patch.envs[j])
          BY <3>2
        <4>3. p.envs \in Seq(PatchEntry)
          <5>1. \A j \in 1 .. Len(patch.envs) : RestoreEnvImage(spec, patch.envs[j]) \in PatchEntry
            BY <3>1, RestoreEnvImageType
          <5>2. QED
            BY <3>1, <3>2, <5>1
        <4>4. QED
          BY <4>3, InputsAssumption
      <3>4. new.envs = [j \in DOMAIN p.envs |->
                          [name  |-> p.envs[j].name,
                           image |-> IF p.envs[j].image = None THEN NoImage ELSE p.envs[j].image]]
        BY <3>3 DEF UpdateEdit
      <3>5. i \in DOMAIN new.envs /\ new.envs[i].name = e /\ EnvImage(new, e) = new.envs[i].image
        BY <1>1, EnvIndexFound DEF EnvImage
      <3>6. /\ k \in DOMAIN spec.envs /\ spec.envs[k].name = e
            /\ spec.envs[k].image = EnvImage(spec, e) /\ k \in Entries(spec, e)
        BY EnvIndexFound DEF EnvImage, Entries
      <3> DEFINE entry == patch.envs[i]
      <3>7. /\ i \in DOMAIN patch.envs /\ entry \in PatchEntry /\ entry.image = None
            /\ p.envs[i] = RestoreEnvImage(spec, entry) /\ entry.name = e
        <4>1. DOMAIN new.envs = DOMAIN patch.envs
          BY <3>2, <3>4
        <4>2. i \in DOMAIN patch.envs /\ p.envs[i] = RestoreEnvImage(spec, entry)
          BY <3>2, <3>5, <4>1
        <4>3. entry \in PatchEntry
          BY <3>1, <4>2
        <4>4. new.envs[i].name = p.envs[i].name
          BY <3>4, <3>5
        <4>5. entry.name = e
          BY <3>5, <4>2, <4>3, <4>4, RestoreEnvImageType
        <4>6. QED
          BY <2>2, <3>5, <4>2, <4>3, <4>5
      <3>8. new.envs[i].image = IF p.envs[i].image = None THEN NoImage ELSE p.envs[i].image
        BY <3>4, <3>5
      <3> HIDE DEF i, k, new, p
      <3>9. CASE Overrides(spec, e) = {}
        <4>1. spec.envs[k].image = NoImage
          BY <3>6, <3>9 DEF Overrides
        <4>2. RestoreEnvImage(spec, entry) = entry
          BY <3>7, <3>9, NamesAssumption DEF RestoreEnvImage
        <4>3. QED
          BY <3>5, <3>6, <3>7, <3>8, <4>1, <4>2
      <3>10. CASE Overrides(spec, e) # {}
        <4>1. Overrides(spec, e) = {k}
          BY <3>6, <3>10 DEF Overrides, ListedOnce
        <4>2. Max(Overrides(spec, e)) = k /\ EnvImage(spec, e) \in Image
          <5>1. Len(spec.envs) \in Nat /\ DOMAIN spec.envs = 1 .. Len(spec.envs)
            BY LenProperties DEF AppSpec
          <5>2. Max({k}) \in {k}
            BY <3>6, <5>1, MaxOfPositions
          <5>3. QED
            BY <4>1, <5>2, EnvIndexFound
        <4>3. RestoreEnvImage(spec, entry) = [entry EXCEPT !.image = spec.envs[k].image]
          BY <3>7, <3>10, <4>2, NamesAssumption DEF RestoreEnvImage
        <4>4. p.envs[i].image = EnvImage(spec, e) /\ EnvImage(spec, e) # None
          BY <3>6, <3>7, <4>2, <4>3, NamesAssumption DEF PatchEntry
        <4>5. QED
          BY <3>5, <3>8, <4>4
      <3>11. QED
        BY <3>9, <3>10
    <2>3. QED
      BY <2>1, <2>2
  <1>3. ResolveImage(new, EnvImage(new, e)) = ResolveImage(spec, EnvImage(spec, e))
    <2> HIDE DEF new
    <2>1. QED
      BY <1>1, <1>2 DEF ResolveImage
  <1>4. QED
    BY <1>3 DEF Runs

\* A config update that leaves an environment's image out keeps what the environment runs, wherever
\* it lists it (restoreEnvImages, UpdateApp), if it gets through at its first attempt.
THEOREM UpdatesKeepImages == Spec => UpdateKeepsImages
  <1>1. ASSUME Inv, AskedKept, [Next]_vars, NEW r \in Requests, req[r].tries = 0, Committed(r),
               Asked(r).kind = "update", Asked(r).patch.image = None, NEW e \in Envs,
               HasEnv(app, e), HasEnv(app', e), ListedOnce(app, e),
               \A i \in DOMAIN app'.envs :
                  Asked(r).patch.envs # None /\ app'.envs[i].name = e => Asked(r).patch.envs[i].image = None
        PROVE  Runs(app', e) = Runs(app, e)
    <2> DEFINE patch == Asked(r).patch
    <2>1. req[r].in.kind = "update" /\ req[r].in.patch = patch /\ req[r].in \in Input
      BY <1>1, CommitIsPut DEF AskedKept, AsAsked, Asked, Committed
    <2>2. app' = Edit(req[r].in, app, app)
      BY <1>1, <2>1, CommitIsPut DEF SendsVersion
    <2>3. app' = UpdateEdit(app, patch)
      BY <2>1, <2>2 DEF Edit
    <2>4. patch \in Patch /\ app \in AppSpec
      BY <1>1, <2>1 DEF Input, Inv, TypeInv, TypeOK
    <2> HIDE DEF patch
    <2>5. QED
      BY <1>1, <2>3, <2>4, UpdateEditKeeps DEF patch
  <1>2. Inv /\ AskedKept /\ [Next]_vars => [\A r \in Requests : req[r].tries = 0 => ImagesKept(r)]_vars
    BY <1>1 DEF ImagesKept
  <1>3. QED
    BY <1>2, AskedHolds, InvHolds, PTL DEF Spec, UpdateKeepsImages

-----------------------------------------------------------------------------
(* What a write changes *)

\* An environment whose entry stays runs what it ran, unless it falls back on another image.
LEMMA RunsAlike ==
    ASSUME NEW spec, NEW new, NEW e, Entries(new, e) = Entries(spec, e),
           HasEnv(spec, e) => /\ EnvImage(new, e) = EnvImage(spec, e)
                              /\ EnvImage(spec, e).repo # None \/ new.image = spec.image
    PROVE  Runs(new, e) = Runs(spec, e)
  BY DEF Runs, HasEnv, ResolveImage

\* Entries are what the list of environments says.
LEMMA SameEntries ==
    ASSUME NEW spec, NEW new, new.envs = spec.envs, NEW e
    PROVE  Entries(new, e) = Entries(spec, e) /\ EnvImage(new, e) = EnvImage(spec, e)
  BY DEF Entries, EnvImage, EnvIndex

\* The image of one entry is written.
LEMMA OneEntry ==
    ASSUME NEW spec \in AppSpec, NEW i \in DOMAIN spec.envs, NEW image \in Image, NEW e
    PROVE  /\ Entries(SetEnvImage(spec, i, image), e) = Entries(spec, e)
           /\ HasEnv(spec, e) => EnvImage(SetEnvImage(spec, i, image), e) =
                                   IF EnvIndex(spec, e) = i THEN image ELSE EnvImage(spec, e)
           /\ SetEnvImage(spec, i, image).image = spec.image
           /\ SetEnvImage(spec, i, image).cfg = spec.cfg
  <1> DEFINE new == SetEnvImage(spec, i, image)
  <1>1. /\ DOMAIN new.envs = DOMAIN spec.envs /\ new.image = spec.image /\ new.cfg = spec.cfg
        /\ \A j \in DOMAIN spec.envs :
             /\ new.envs[j].name = spec.envs[j].name
             /\ j # i => new.envs[j] = spec.envs[j]
             /\ j = i => new.envs[j].image = image
    BY SetEnvImageType
  <1> HIDE DEF new
  <1>2. Entries(new, e) = Entries(spec, e)
    BY <1>1 DEF Entries
  <1>3. ASSUME HasEnv(spec, e)
        PROVE  EnvImage(new, e) = IF EnvIndex(spec, e) = i THEN image ELSE EnvImage(spec, e)
    <2>1. EnvIndex(new, e) = EnvIndex(spec, e)
      BY <1>2 DEF EnvIndex
    <2>2. EnvIndex(spec, e) \in DOMAIN spec.envs
      BY <1>3, EnvIndexFound
    <2>3. QED
      BY <1>1, <2>1, <2>2 DEF EnvImage
  <1>4. QED
    BY <1>1, <1>2, <1>3 DEF new

\* What environment e runs, once the image of its first entry is written.
LEMMA EntryRuns ==
    ASSUME NEW spec \in AppSpec, NEW e, HasEnv(spec, e), NEW image \in Image
    PROVE  LET new == SetEnvImage(spec, EnvIndex(spec, e), image)
           IN  /\ Runs(new, e) = ResolveImage(spec, image)
               /\ \A f : f # e => Runs(new, f) = Runs(spec, f)
               /\ new.cfg = spec.cfg /\ new.image = spec.image
  <1> DEFINE i   == EnvIndex(spec, e)
             new == SetEnvImage(spec, i, image)
  <1>1. i \in DOMAIN spec.envs /\ spec.envs[i].name = e
    BY EnvIndexFound
  <1>2. \A f : /\ Entries(new, f) = Entries(spec, f)
               /\ HasEnv(spec, f) => EnvImage(new, f) = IF EnvIndex(spec, f) = i THEN image ELSE EnvImage(spec, f)
               /\ new.image = spec.image /\ new.cfg = spec.cfg
    <2> HIDE DEF i
    <2>1. QED
      BY <1>1, OneEntry
  <1> HIDE DEF new
  <1>3. Runs(new, e) = ResolveImage(spec, image)
    <2>1. HasEnv(new, e) /\ EnvImage(new, e) = image
      BY <1>2 DEF HasEnv
    <2>2. QED
      BY <1>2, <2>1 DEF Runs, ResolveImage
  <1>4. ASSUME NEW f, f # e PROVE Runs(new, f) = Runs(spec, f)
    <2>1. HasEnv(spec, f) => EnvIndex(spec, f) # i
      BY <1>1, <1>4, EnvIndexFound
    <2>2. QED
      BY <1>2, <2>1, RunsAlike
  <1>5. QED
    BY <1>2, <1>3, <1>4 DEF new

\* An environment that is given another tag runs that tag of the repository it ran.
LEMMA TagRuns ==
    ASSUME NEW spec \in AppSpec, NEW e, HasEnv(spec, e), NEW image \in Image, NEW tag \in Tags,
           image.repo = EnvImage(spec, e).repo, image.tag = tag,
           ResolveImage(spec, image) # Runs(spec, e)
    PROVE  ResolveImage(spec, image) = <<Runs(spec, e)[1], tag>>
  <1>1. tag # None
    BY NamesAssumption
  <1>2. QED
    BY <1>1 DEF Runs, ResolveImage, TagOrLatest

\* Only the app's image is written.
LEMMA AppImageRuns ==
    ASSUME NEW spec \in AppSpec, NEW image, NEW e,
           Runs([spec EXCEPT !.image = image], e) # Runs(spec, e)
    PROVE  HasEnv(spec, e) /\ EnvImage(spec, e).repo = None
  <1> DEFINE new == [spec EXCEPT !.image = image]
  <1>1. new.envs = spec.envs
    BY DEF AppSpec
  <1> HIDE DEF new
  <1>2. Runs(new, e) # Runs(spec, e)
    BY DEF new
  <1>3. QED
    BY <1>1, <1>2, SameEntries, RunsAlike

-----------------------------------------------------------------------------
(* What each request may change *)

\* A deploy or a rollback changes its environment, to the tag, or else, when there is none of
\* that name, those that fall back on the app's image.
LEMMA TagChanges ==
    ASSUME NEW spec \in AppSpec, NEW e, NEW tag \in Tags, NEW image, NEW f,
           NEW new, new = (IF HasEnv(spec, e) THEN SetEnvTag(spec, e, tag) ELSE [spec EXCEPT !.image = image]),
           Runs(new, f) # Runs(spec, f)
    PROVE  /\ f = e \/ (~HasEnv(spec, e) /\ HasEnv(spec, f) /\ EnvImage(spec, f).repo = None)
           /\ f = e => Runs(new, f) = <<Runs(spec, f)[1], tag>>
  <1>1. CASE HasEnv(spec, e)
    <2> DEFINE set == [EnvImage(spec, e) EXCEPT !.tag = tag]
    <2>1. EnvImage(spec, e) \in Image
      BY <1>1, EnvIndexFound
    <2>2. set \in Image /\ set.repo = EnvImage(spec, e).repo /\ set.tag = tag
      BY <2>1 DEF Image
    <2>3. new = SetEnvImage(spec, EnvIndex(spec, e), set)
      BY <1>1 DEF SetEnvTag
    <2> HIDE DEF set
    <2>4. f = e
      BY <1>1, <2>2, <2>3, EntryRuns
    <2>5. Runs(new, e) = ResolveImage(spec, set)
      BY <1>1, <2>2, <2>3, EntryRuns
    <2>6. ResolveImage(spec, set) = <<Runs(spec, e)[1], tag>>
      BY <1>1, <2>2, <2>4, <2>5, TagRuns
    <2>7. QED
      BY <2>4, <2>5, <2>6
  <1>2. CASE ~HasEnv(spec, e)
    <2>1. HasEnv(spec, f) /\ EnvImage(spec, f).repo = None
      BY <1>2, AppImageRuns
    <2>2. QED
      BY <1>2, <2>1
  <1>3. QED
    BY <1>1, <1>2

\* A scheduled deployment changes its environment, and those that fall back on the app's image.
LEMMA ScheduleChanges ==
    ASSUME NEW spec \in AppSpec, NEW e, NEW repository \in Repos \cup {None},
           NEW wanted \in Tags \cup {None}, NEW f,
           Runs(ScheduleEdit(spec, e, repository, wanted), f) # Runs(spec, f)
    PROVE  /\ \/ f = e
              \/ /\ HasEnv(spec, f) /\ EnvImage(spec, f).repo = None
                 /\ EnvImage(spec, f).tag = None \/ spec.image = None \/ ~HasEnv(spec, e)
           /\ f = e => Runs(ScheduleEdit(spec, e, repository, wanted), f) =
                         <<ScheduledRepo(spec, repository, Runs(spec, f)[1]),
                           IF wanted = None THEN Latest ELSE wanted>>
  <1> DEFINE tag  == IF wanted = None THEN Latest ELSE wanted
             repo == IF repository # None THEN repository ELSE GlobalImage(spec).repo
             With(image) == [repo |-> IF repo # None THEN repo ELSE image.repo,
                             tag  |-> tag]
             patched == IF HasEnv(spec, e)
                        THEN SetEnvImage(spec, EnvIndex(spec, e), With(EnvImage(spec, e)))
                        ELSE [spec EXCEPT !.image = With(GlobalImage(spec))]
             new == IF repo = None THEN patched
                    ELSE [patched EXCEPT !.image = [GlobalImage(patched) EXCEPT !.tag = tag]]
  <1>1. new = ScheduleEdit(spec, e, repository, wanted)
    BY DEF ScheduleEdit
  <1>2. tag \in Tags /\ tag # None
    BY NamesAssumption
  <1>3. GlobalImage(spec) \in Image /\ spec.image \in Image \cup {None}
    BY GlobalImageType DEF AppSpec
  <1>4. repo \in Repos \cup {None}
    BY <1>3 DEF Image
  <1>5. CASE HasEnv(spec, e)
    <2> DEFINE set == With(EnvImage(spec, e))
    <2>1. EnvImage(spec, e) \in Image /\ EnvIndex(spec, e) \in DOMAIN spec.envs
      BY <1>5, EnvIndexFound
    <2>2. /\ set \in Image /\ set.tag = tag
          /\ set.repo = IF repo # None THEN repo ELSE EnvImage(spec, e).repo
      <3> HIDE DEF tag, repo
      <3>1. QED
        BY <1>2, <1>4, <2>1 DEF Image
    <2>3. patched = SetEnvImage(spec, EnvIndex(spec, e), set)
      BY <1>5
    <2> HIDE DEF set, patched
    <2>4. /\ patched \in AppSpec
          /\ patched.image = spec.image
          /\ \A g : g # e => Runs(patched, g) = Runs(spec, g)
          /\ Runs(patched, e) = ResolveImage(spec, set)
      <3>1. patched \in AppSpec
        BY <2>1, <2>2, <2>3, SetEnvImageType
      <3>2. QED
        BY <1>5, <2>2, <2>3, <3>1, EntryRuns
    <2>5. \A g : /\ Entries(patched, g) = Entries(spec, g)
                 /\ HasEnv(spec, g) /\ g # e => EnvImage(patched, g) = EnvImage(spec, g)
                 /\ EnvImage(patched, e) = set
      <3>1. spec.envs[EnvIndex(spec, e)].name = e
        BY <1>5, EnvIndexFound
      <3>2. \A g : HasEnv(spec, g) => spec.envs[EnvIndex(spec, g)].name = g
        BY EnvIndexFound
      <3>3. QED
        BY <1>5, <2>1, <2>2, <2>3, <3>1, <3>2, OneEntry
    <2>6. /\ Entries(new, f) = Entries(spec, f)
          /\ HasEnv(spec, f) => EnvImage(new, f) = IF f = e THEN set ELSE EnvImage(spec, f)
      <3>1. new.envs = patched.envs
        BY <2>4 DEF AppSpec
      <3> HIDE DEF new
      <3>2. QED
        BY <2>5, <3>1, SameEntries DEF HasEnv
    <2>7. new.image = IF repo = None THEN spec.image ELSE [GlobalImage(spec) EXCEPT !.tag = tag]
      BY <2>4 DEF GlobalImage, AppSpec
    <2> HIDE DEF new, repo, tag
    <2>8. CASE f = e
      <3>1. Runs(new, e) = ResolveImage(new, set) /\ Runs(spec, e) = ResolveImage(spec, EnvImage(spec, e))
        BY <1>5, <2>6, <2>8 DEF Runs, HasEnv
      <3>2. CASE set.repo # None
        <4>1. Runs(new, e) = <<set.repo, tag>>
          BY <1>2, <2>2, <3>1, <3>2 DEF ResolveImage, TagOrLatest
        <4>2. set.repo = ScheduledRepo(spec, repository, Runs(spec, e)[1])
          BY <2>2, <3>1, <3>2 DEF repo, ScheduledRepo, ResolveImage
        <4>3. QED
          BY <1>1, <2>8, <4>1, <4>2 DEF tag
      <3>3. CASE set.repo = None
        <4>1. repo = None /\ EnvImage(spec, e).repo = None /\ new.image = spec.image
          BY <2>2, <2>7, <3>3
        <4>2. spec.image # None
          BY <1>1, <2>8, <3>1, <3>3, <4>1 DEF ResolveImage, new
        <4>3. Runs(new, e) = <<spec.image.repo, tag>> /\ Runs(spec, e)[1] = spec.image.repo
          BY <1>2, <2>2, <3>1, <3>3, <4>1, <4>2 DEF ResolveImage, TagOrLatest
        <4>4. ScheduledRepo(spec, repository, Runs(spec, e)[1]) = Runs(spec, e)[1]
          BY <4>1 DEF repo, ScheduledRepo
        <4>5. QED
          BY <1>1, <2>8, <4>3, <4>4 DEF tag
      <3>4. QED
        BY <3>2, <3>3
    <2>9. CASE f # e
      <3>1. Runs(new, f) # Runs(spec, f)
        BY <1>1
      <3>2. HasEnv(spec, f)
        BY <2>6, <3>1 DEF Runs, HasEnv
      <3>3. EnvImage(new, f) = EnvImage(spec, f) /\ HasEnv(new, f)
        BY <2>6, <2>9, <3>2 DEF HasEnv
      <3>4. EnvImage(spec, f).repo = None
        BY <2>6, <3>1, <3>3, RunsAlike
      <3>5. ASSUME EnvImage(spec, f).tag # None, spec.image # None PROVE FALSE
        <4>1. new.image # None /\ new.image.repo = spec.image.repo
          <5>1. spec.image \in Image /\ GlobalImage(spec) = spec.image
            BY <1>3, <3>5 DEF GlobalImage
          <5>2. [spec.image EXCEPT !.tag = tag] \in Image
            BY <1>2, <5>1 DEF Image
          <5>3. QED
            BY <2>7, <3>5, <5>1, <5>2, NamesAssumption DEF Image
        <4>2. ResolveImage(new, EnvImage(spec, f)) = ResolveImage(spec, EnvImage(spec, f))
          BY <3>4, <3>5, <4>1 DEF ResolveImage
        <4>3. QED
          BY <3>1, <3>2, <3>3, <4>2 DEF Runs
      <3>6. QED
        BY <2>9, <3>2, <3>4, <3>5
    <2>10. QED
      BY <2>8, <2>9
  <1>6. CASE ~HasEnv(spec, e)
    <2>1. new.envs = spec.envs
      BY <1>6 DEF AppSpec
    <2> HIDE DEF new
    <2>2. HasEnv(spec, f) /\ EnvImage(spec, f).repo = None
      BY <1>1, <2>1, SameEntries, RunsAlike
    <2>3. QED
      BY <1>6, <2>2
  <1>7. QED
    BY <1>5, <1>6

\* A build's pin changes its environment, if the list has the names it had when it was read.
LEMMA PinChanges ==
    ASSUME NEW base \in AppSpec, NEW cur \in AppSpec, NEW e, NEW tag \in Tags,
           HasEnv(base, e) \/ base.envs = <<>>, Names(base.envs) = Names(cur.envs), NEW f,
           Runs(PinEdit(base, cur, e, tag), f) # Runs(cur, f)
    PROVE  /\ f = e
           /\ EnvImage(base, e).repo = EnvImage(cur, e).repo =>
                Runs(PinEdit(base, cur, e, tag), f) = <<Runs(cur, f)[1], tag>>
  <1>1. /\ DOMAIN base.envs = DOMAIN cur.envs
        /\ \A i \in DOMAIN base.envs : base.envs[i].name = cur.envs[i].name
    <2>1. DOMAIN Names(base.envs) = DOMAIN base.envs /\ DOMAIN Names(cur.envs) = DOMAIN cur.envs
      BY DEF Names
    <2>2. /\ \A i \in DOMAIN base.envs : Names(base.envs)[i] = base.envs[i].name
          /\ \A i \in DOMAIN cur.envs : Names(cur.envs)[i] = cur.envs[i].name
      BY DEF Names
    <2>3. QED
      BY <2>1, <2>2
  <1>2. \A g : Entries(base, g) = Entries(cur, g)
    BY <1>1 DEF Entries
  <1>3. CASE base.envs = <<>>
    <2>1. HasEnv(cur, f)
      BY <1>3, AppImageRuns DEF PinEdit
    <2>2. DOMAIN base.envs = {}
      BY <1>3
    <2>3. QED
      BY <1>1, <2>1, <2>2 DEF HasEnv, Entries
  <1>4. CASE base.envs # <<>>
    <2> DEFINE set == [EnvImage(base, e) EXCEPT !.tag = tag]
    <2>1. HasEnv(base, e) /\ HasEnv(cur, e) /\ EnvIndex(base, e) = EnvIndex(cur, e)
      BY <1>2, <1>4 DEF HasEnv, EnvIndex
    <2>2. EnvImage(base, e) \in Image
      BY <2>1, EnvIndexFound
    <2>3. set \in Image /\ set.repo = EnvImage(base, e).repo /\ set.tag = tag
      BY <2>2 DEF Image
    <2>4. PinEdit(base, cur, e, tag) = SetEnvImage(cur, EnvIndex(cur, e), set)
      BY <1>4, <2>1 DEF PinEdit
    <2> HIDE DEF set
    <2>5. f = e /\ Runs(PinEdit(base, cur, e, tag), e) = ResolveImage(cur, set)
      BY <2>1, <2>3, <2>4, EntryRuns
    <2>6. ASSUME EnvImage(base, e).repo = EnvImage(cur, e).repo
          PROVE  ResolveImage(cur, set) = <<Runs(cur, e)[1], tag>>
      BY <2>1, <2>3, <2>5, <2>6, TagRuns
    <2>7. QED
      BY <2>5, <2>6
  <1>5. QED
    BY <1>3, <1>4

\* A clone changes the new environment, if nobody has changed the list since it was read.
LEMMA CloneChanges ==
    ASSUME NEW base \in AppSpec, NEW cur \in AppSpec, NEW source, NEW copy, base.envs = cur.envs,
           NEW f, Runs(CloneEdit(base, cur, source, copy), f) # Runs(cur, f)
    PROVE  f = copy
  <1> SUFFICES ASSUME f # copy PROVE FALSE
    OBVIOUS
  <1> DEFINE entry == [name |-> copy, image |-> EnvImage(base, source)]
             new   == CloneEdit(base, cur, source, copy)
  <1>1. cur.envs \in Seq(EnvEntry) /\ Len(cur.envs) \in Nat /\ DOMAIN cur.envs = 1 .. Len(cur.envs)
    BY LenProperties DEF AppSpec
  <1>2. new.envs = Append(cur.envs, entry) /\ new.image = cur.image
    BY DEF CloneEdit, AppSpec
  <1>3. entry.name = copy
    OBVIOUS
  <1> HIDE DEF entry
  <1>4. /\ DOMAIN new.envs = 1 .. Len(cur.envs) + 1
        /\ \A i \in DOMAIN cur.envs : new.envs[i] = cur.envs[i]
        /\ new.envs[Len(cur.envs) + 1] = entry
    BY <1>1, <1>2
  <1> HIDE DEF new
  <1>5. Entries(new, f) = Entries(cur, f)
    <2>1. ASSUME NEW i \in Entries(new, f) PROVE i \in Entries(cur, f)
      <3>1. i \in 1 .. Len(cur.envs) + 1 /\ i # Len(cur.envs) + 1
        BY <1>3, <1>4, <2>1 DEF Entries
      <3>2. i \in DOMAIN cur.envs
        BY <1>1, <3>1
      <3>3. QED
        BY <1>4, <2>1, <3>2 DEF Entries
    <2>2. ASSUME NEW i \in Entries(cur, f) PROVE i \in Entries(new, f)
      <3>1. i \in 1 .. Len(cur.envs) /\ cur.envs[i].name = f
        BY <1>1, <2>2 DEF Entries
      <3>2. QED
        BY <1>1, <1>4, <3>1 DEF Entries
    <2>3. QED
      BY <2>1, <2>2
  <1>6. HasEnv(cur, f) => EnvImage(new, f) = EnvImage(cur, f)
    BY <1>4, <1>5, EnvIndexFound DEF EnvImage, EnvIndex
  <1>7. Runs(new, f) = Runs(cur, f)
    BY <1>2, <1>5, <1>6, RunsAlike
  <1>8. QED
    BY <1>7 DEF new

\* So does an update, unless it lists images, or sets the one that environments fall back on.
LEMMA UpdateChanges ==
    ASSUME NEW spec \in AppSpec, NEW patch \in Patch, patch.envs = None, NEW f,
           Runs(UpdateEdit(spec, patch), f) # Runs(spec, f)
    PROVE  patch.image # None /\ HasEnv(spec, f) /\ EnvImage(spec, f).repo = None
  <1> DEFINE new == UpdateEdit(spec, patch)
  <1>1. new.envs = spec.envs /\ (patch.image = None => new.image = spec.image)
    BY RestoredKeeps DEF UpdateEdit
  <1> HIDE DEF new
  <1>2. Runs(new, f) # Runs(spec, f)
    BY DEF new
  <1>3. QED
    BY <1>1, <1>2, SameEntries, RunsAlike

\* Only an update that sets it changes the rest of the configuration.
LEMMA CfgChanges ==
    ASSUME NEW in \in Input, NEW base \in AppSpec, NEW cur \in AppSpec, Prepared(in, base),
           ~(in.kind = "pin" /\ PinOutOfRange(base, cur, in.env)),
           SendsVersion(in.kind) => base = cur,
           Edit(in, base, cur).cfg # cur.cfg
    PROVE  in.kind = "update" /\ in.patch.cfg = Edit(in, base, cur).cfg
  <1>1. ASSUME NEW e, NEW image \in Image, HasEnv(cur, e)
        PROVE  SetEnvImage(cur, EnvIndex(cur, e), image).cfg = cur.cfg
    BY <1>1, EntryRuns
  <1>2. \A image : [cur EXCEPT !.image = image].cfg = cur.cfg
    BY DEF AppSpec
  <1>3. ASSUME NEW e, NEW tag \in Tags, HasEnv(cur, e) PROVE SetEnvTag(cur, e, tag).cfg = cur.cfg
    <2>1. EnvImage(cur, e) \in Image
      BY <1>3, EnvIndexFound
    <2>2. [EnvImage(cur, e) EXCEPT !.tag = tag] \in Image
      BY <2>1 DEF Image
    <2>3. QED
      BY <1>1, <1>3, <2>2 DEF SetEnvTag
  <1>4. CASE in.kind = "deploy"
    BY <1>2, <1>3, <1>4 DEF Edit, DeployEdit, SendsVersion, Input
  <1>5. CASE in.kind = "rollback"
    BY <1>2, <1>3, <1>5 DEF Edit, RollbackEdit, SendsVersion, Prepared
  <1>6. CASE in.kind = "update"
    <2>1. in.patch \in Patch /\ base = cur
      BY <1>6 DEF Input, SendsVersion
    <2>2. RestorePatch(cur, in.patch).cfg = in.patch.cfg
      BY <2>1, RestoredKeeps
    <2>3. QED
      BY <1>6, <2>1, <2>2 DEF Edit, UpdateEdit
  <1>7. CASE in.kind = "schedule"
    <2> DEFINE tag  == IF in.tag = None THEN Latest ELSE in.tag
               repo == IF in.repo # None THEN in.repo ELSE GlobalImage(cur).repo
               With(image) == [repo |-> IF repo # None THEN repo ELSE image.repo,
                               tag  |-> tag]
               patched == IF HasEnv(cur, in.env)
                          THEN SetEnvImage(cur, EnvIndex(cur, in.env), With(EnvImage(cur, in.env)))
                          ELSE [cur EXCEPT !.image = With(GlobalImage(cur))]
    <2>1. tag \in Tags /\ repo \in Repos \cup {None}
      BY NamesAssumption, GlobalImageType DEF Input, Image
    <2>2. \A image \in Image : With(image) \in Image
      BY <2>1 DEF Image
    <2>3. patched \in AppSpec /\ patched.cfg = cur.cfg
      <3>1. CASE HasEnv(cur, in.env)
        <4>1. EnvImage(cur, in.env) \in Image /\ EnvIndex(cur, in.env) \in DOMAIN cur.envs
          BY <3>1, EnvIndexFound
        <4>2. With(EnvImage(cur, in.env)) \in Image
          BY <2>2, <4>1
        <4> HIDE DEF With
        <4>3. QED
          BY <1>1, <3>1, <4>1, <4>2, SetEnvImageType
      <3>2. CASE ~HasEnv(cur, in.env)
        <4>1. With(GlobalImage(cur)) \in Image
          BY <2>2, GlobalImageType
        <4> HIDE DEF With
        <4>2. QED
          BY <1>2, <3>2, <4>1, SetAppImageType
      <3>3. QED
        BY <3>1, <3>2
    <2>4. ScheduleEdit(cur, in.env, in.repo, in.tag) =
            IF repo = None THEN patched
            ELSE [patched EXCEPT !.image = [GlobalImage(patched) EXCEPT !.tag = tag]]
      BY DEF ScheduleEdit
    <2> HIDE DEF patched, tag, repo
    <2>5. ScheduleEdit(cur, in.env, in.repo, in.tag).cfg = cur.cfg
      BY <2>3, <2>4 DEF AppSpec
    <2>6. QED
      BY <1>7, <2>5 DEF Edit, SendsVersion
  <1>8. CASE in.kind = "pin"
    <2>1. CASE base.envs = <<>>
      BY <1>2, <1>8, <2>1 DEF Edit, PinEdit
    <2>2. CASE base.envs # <<>>
      <3>1. EnvIndex(base, in.env) \in DOMAIN cur.envs /\ EnvImage(base, in.env) \in Image
        BY <1>8, <2>2, EnvIndexFound DEF PinOutOfRange, Prepared
      <3>2. [EnvImage(base, in.env) EXCEPT !.tag = in.tag] \in Image
        BY <1>8, <3>1 DEF Image, Input
      <3>3. QED
        BY <1>8, <2>2, <3>1, <3>2, SetEnvImageType DEF Edit, PinEdit
    <2>3. QED
      BY <2>1, <2>2
  <1>9. CASE in.kind \in {"clone", "limits"}
    BY <1>9 DEF Edit, CloneEdit, LimitsEdit, AppSpec
  <1>10. QED
    BY <1>4, <1>5, <1>6, <1>7, <1>8, <1>9 DEF Input, Kinds

\* A request that commits changes the images only as it may, and as it was asked to.
LEMMA CommitSurvives ==
    ASSUME Inv, AskedKept, [Next]_vars, NEW r \in Requests, Committed(r),
           NEW e \in Envs, Runs(app', e) # Runs(app, e)
    PROVE  /\ MayChange(r, e)
           /\ Asked(r).kind \notin {"update", "clone", "limits"} /\ Asked(r).env = e /\ Stands(r, e)
                 => Runs(app', e) = Wanted(r, e)
  <1> DEFINE in    == req[r].in
             base  == req[r].base
             asked == req[r].asked
  <1>1. Put(r) /\ Prepared(in, base) /\ (SendsVersion(in.kind) => app' = Edit(in, app, app))
    BY CommitIsPut
  <1>2. /\ req[r] \in ReqState({"put"}, Input, AppSpec) /\ app \in AppSpec
        /\ AsAsked(in, asked, req[r].tries)
    BY <1>1, RequestState DEF Inv, TypeInv, TypeOK, AskedKept, Put
  <1>3. in \in Input /\ asked \in Input /\ base \in AppSpec /\ app' = Edit(in, base, app)
    BY <1>1, <1>2 DEF ReqState, Put
  <1>4. /\ in.kind = asked.kind /\ in.env = asked.env /\ in.new = asked.new
        /\ in.kind # "rollback" => in.tag = asked.tag
        /\ in.kind # "deploy" => in.repo = asked.repo
    BY <1>2 DEF AsAsked
  <1>5. CASE in.kind \in {"deploy", "rollback"}
    <2>1. in.tag \in Tags
      BY <1>1, <1>3, <1>5 DEF Input, Prepared
    <2>2. PICK image : app' = IF HasEnv(app, in.env) THEN SetEnvTag(app, in.env, in.tag)
                                                     ELSE [app EXCEPT !.image = image]
      BY <1>1, <1>5 DEF Edit, DeployEdit, RollbackEdit, SendsVersion
    <2>3. /\ e = in.env \/ (~HasEnv(app, in.env) /\ HasEnv(app, e) /\ EnvImage(app, e).repo = None)
          /\ e = in.env => Runs(app', e) = <<Runs(app, e)[1], in.tag>>
      <3> DEFINE n == in.env
                 t == in.tag
      <3>1. /\ app' = IF HasEnv(app, n) THEN SetEnvTag(app, n, t) ELSE [app EXCEPT !.image = image]
            /\ t \in Tags
        BY <2>1, <2>2
      <3> HIDE DEF n, t
      <3>2. /\ e = n \/ (~HasEnv(app, n) /\ HasEnv(app, e) /\ EnvImage(app, e).repo = None)
            /\ e = n => Runs(app', e) = <<Runs(app, e)[1], t>>
        BY <1>2, <3>1, TagChanges
      <3>3. QED
        BY <3>2 DEF n, t
    <2> HIDE DEF in
    <2>4. QED
      BY <1>4, <1>5, <2>3 DEF MayChange, FallsBack, Wanted, Asked, in
  <1>6. CASE in.kind = "schedule"
    <2>1. in.repo \in Repos \cup {None} /\ in.tag \in Tags \cup {None}
      BY <1>3 DEF Input
    <2>2. app' = ScheduleEdit(app, in.env, in.repo, in.tag)
      BY <1>1, <1>6 DEF Edit, SendsVersion
    <2> HIDE DEF in
    <2>3. /\ \/ e = in.env
             \/ /\ HasEnv(app, e) /\ EnvImage(app, e).repo = None
                /\ EnvImage(app, e).tag = None \/ app.image = None \/ ~HasEnv(app, in.env)
          /\ e = in.env => Runs(app', e) = <<ScheduledRepo(app, in.repo, Runs(app, e)[1]),
                                             IF in.tag = None THEN Latest ELSE in.tag>>
      <3> DEFINE n == in.env
                 repo == in.repo
                 t == in.tag
                 new == ScheduleEdit(app, n, repo, t)
      <3>1. new = app' /\ Runs(new, e) # Runs(app, e)
        BY <2>2
      <3>2. repo \in Repos \cup {None} /\ t \in Tags \cup {None}
        BY <2>1
      <3> HIDE DEF n, repo, t
      <3>3. /\ \/ e = n
               \/ /\ HasEnv(app, e) /\ EnvImage(app, e).repo = None
                  /\ EnvImage(app, e).tag = None \/ app.image = None \/ ~HasEnv(app, n)
            /\ e = n => Runs(new, e) = <<ScheduledRepo(app, repo, Runs(app, e)[1]),
                                         IF t = None THEN Latest ELSE t>>
        BY <1>2, <3>1, <3>2, ScheduleChanges
      <3>4. QED
        BY <3>1, <3>3 DEF n, repo, t
    <2>4. QED
      BY <1>4, <1>6, <2>3 DEF MayChange, FallsBack, Wanted, Asked
  <1>7. CASE in.kind = "pin"
    <2>1. HasEnv(base, in.env) \/ base.envs = <<>>
      BY <1>1, <1>7 DEF Prepared
    <2>2. in.tag \in Tags /\ app' = PinEdit(base, app, in.env, in.tag)
      BY <1>3, <1>7 DEF Edit, Input
    <2> HIDE DEF in
    <2>3. Names(base.envs) = Names(app.envs) =>
            /\ e = in.env
            /\ EnvImage(base, in.env).repo = EnvImage(app, in.env).repo =>
                 Runs(app', e) = <<Runs(app, e)[1], in.tag>>
      BY <1>2, <1>3, <2>1, <2>2, PinChanges
    <2>4. QED
      BY <1>4, <1>7, <2>3 DEF MayChange, Stands, Wanted, Asked
  <1>8. CASE in.kind = "clone"
    <2>1. app' = CloneEdit(base, app, in.env, in.new)
      BY <1>3, <1>8 DEF Edit
    <2> HIDE DEF in
    <2>2. base.envs = app.envs => e = in.new
      BY <1>2, <1>3, <2>1, CloneChanges
    <2>3. QED
      BY <1>4, <1>8, <2>2 DEF MayChange, Asked
  <1>9. CASE in.kind = "limits"
    <2>1. app' = LimitsEdit(base, app)
      BY <1>3, <1>9 DEF Edit
    <2>2. base.envs = app.envs => app'.envs = app.envs /\ app'.image = app.image
      BY <1>2, <2>1 DEF LimitsEdit, AppSpec
    <2>3. base.envs # app.envs
      BY <2>2, SameEntries, RunsAlike
    <2> HIDE DEF in
    <2>4. QED
      BY <1>4, <1>9, <2>3 DEF MayChange, Asked
  <1>10. CASE in.kind = "update"
    <2>1. in.patch \in Patch /\ app' = UpdateEdit(app, in.patch)
      BY <1>1, <1>3, <1>10 DEF Edit, SendsVersion, Input
    <2>2. in.patch.envs = None => in.patch.image # None /\ FallsBack(e)
      BY <1>2, <2>1, UpdateChanges DEF FallsBack
    <2>3. StillAsked(in.patch, asked.patch) /\ in.patch # None
      BY <1>2, <1>3, <1>10 DEF AsAsked, Input
    <2>4. asked.patch.envs # None \/ (asked.patch.image # None /\ FallsBack(e))
      BY <2>2, <2>3 DEF StillAsked
    <2> HIDE DEF in
    <2>5. QED
      BY <1>4, <1>10, <2>4 DEF MayChange, Asked
  <1>11. QED
    BY <1>3, <1>5, <1>6, <1>7, <1>8, <1>9, <1>10 DEF Input, Kinds

\* Only a request that commits changes the stored spec.
LEMMA WriterCommits ==
    ASSUME Inv, [Next]_vars, app' # app
    PROVE  \E r \in Requests : Committed(r)
  <1>1. PICK r \in Requests : Put(r)
    BY DEF Next, Start, Get, Conflict, Abort, Watch, Operate, OpGet, OpSync, OpStatusGet, OpRecord,
           OpCommit, OpFail, OpCrash, vars
  <1>2. req' = [req EXCEPT ![r] = Ended(@, "done")] /\ req[r].pc = "put"
    BY <1>1 DEF Put
  <1>3. req'[r].pc = "done"
    BY <1>2 DEF Inv, TypeInv, TypeOK, Ended, Idle
  <1>4. QED
    BY <1>2, <1>3 DEF Committed

\* What an environment runs is changed only by a request that is for it, or has it fall back on
\* something else, and then to what was asked for; the rest of the configuration only by an update
\* that sets it.  No handler, pin, retry or status update undoes another's write (WritesSurvive).
THEOREM WritesAreKept == Spec => WritesSurvive
  <1>1. ASSUME Inv, AskedKept, [Next]_vars, NEW e \in Envs PROVE ImageSurvives(e)
    <2> SUFFICES ASSUME Runs(app', e) # Runs(app, e)
                 PROVE  \E r \in Requests :
                          /\ Committed(r)
                          /\ MayChange(r, e)
                          /\ Asked(r).kind \notin {"update", "clone", "limits"} /\ Asked(r).env = e
                               /\ Stands(r, e) => Runs(app', e) = Wanted(r, e)
      BY DEF ImageSurvives
    <2>1. PICK r \in Requests : Committed(r)
      BY <1>1, WriterCommits
    <2>2. QED
      BY <1>1, <2>1, CommitSurvives
  <1>2. ASSUME Inv, AskedKept, [Next]_vars PROVE CfgSurvives
    <2> SUFFICES ASSUME app'.cfg # app.cfg
                 PROVE  \E r \in Requests :
                          Committed(r) /\ Asked(r).patch # None /\ Asked(r).patch.cfg = app'.cfg
      BY DEF CfgSurvives
    <2>1. PICK r \in Requests : Committed(r)
      BY <1>2, WriterCommits
    <2> DEFINE in == req[r].in
    <2>2. /\ Put(r) /\ in \in Input /\ Prepared(in, req[r].base)
          /\ SendsVersion(in.kind) => app' = Edit(in, app, app)
      BY <1>2, <2>1, CommitIsPut
    <2>3. /\ req[r].base \in AppSpec /\ app \in AppSpec /\ app' = Edit(in, req[r].base, app)
          /\ ~(in.kind = "pin" /\ PinOutOfRange(req[r].base, app, in.env))
          /\ AsAsked(in, req[r].asked, req[r].tries)
      BY <1>2, <2>2, RequestState DEF Inv, TypeInv, TypeOK, ReqState, Put, AskedKept
    <2>4. SendsVersion(in.kind) => req[r].base = app
      BY <1>2, <2>2 DEF Put, Refused, Inv, FreshIsCurrent
    <2>5. in.kind = "update" /\ in.patch.cfg = app'.cfg
      BY <2>2, <2>3, <2>4, CfgChanges
    <2>6. req[r].asked.patch # None /\ req[r].asked.patch.cfg = app'.cfg
      BY <2>2, <2>3, <2>5 DEF AsAsked, StillAsked, Input
    <2>7. QED
      BY <2>1, <2>6 DEF Asked
  <1>3. Inv /\ AskedKept /\ [Next]_vars =>
           [app' # app => (\A e \in Envs : ImageSurvives(e)) /\ CfgSurvives]_vars
    BY <1>1, <1>2
  <1>4. QED
    BY <1>3, AskedHolds, InvHolds, PTL DEF Spec, WritesSurvive
=============================================================================
