-------------------------- MODULE Secrets_proofs --------------------------
(***************************************************************************)
(* Proofs about Secrets: for any requests, whatever meets or fails, what   *)
(* is written of secrets, variables and bindings rests on what is stored,  *)
(* so that nothing written since is lost; what is reported as synced is;   *)
(* and the operator misses no change of a VestaSecret.                     *)
(***************************************************************************)
EXTENDS Secrets, SequenceTheorems, FiniteSetTheorems, TLAPS

-----------------------------------------------------------------------------
(* Lists *)

\* A set of natural numbers has a least element.
LEMMA LeastOfNats ==
    ASSUME NEW S \in SUBSET Nat, S # {}
    PROVE  \E x \in S : \A y \in S : x <= y
  <1> DEFINE T == {0 .. x : x \in S}
  <1>1. T \subseteq FiniteSubsetsOf(Nat)
    <2>1. ASSUME NEW x \in S PROVE 0 .. x \in SUBSET Nat /\ IsFiniteSet(0 .. x)
      <3>1. x \in Int /\ 0 \in Int
        OBVIOUS
      <3>2. IsFiniteSet(0 .. x)
        BY <3>1, FS_Interval
      <3>3. QED
        BY <3>2
    <2>2. QED
      BY <2>1 DEF FiniteSubsetsOf
  <1>2. T # {}
    OBVIOUS
  <1>3. PICK t \in T : \A u \in T : ~(<<u, t>> \in StrictSubsetOrdering(Nat))
    <2> HIDE DEF T
    <2>1. QED
      BY <1>1, <1>2, FS_StrictSubsetOrderingWellFounded, WFMin
  <1>4. PICK x \in S : t = 0 .. x
    BY <1>3
  <1>5. ASSUME NEW y \in S, y < x PROVE FALSE
    <2>1. 0 .. y \in T /\ 0 .. y \in SUBSET Nat /\ 0 .. x \in SUBSET Nat
      OBVIOUS
    <2>2. 0 .. y \subseteq 0 .. x /\ x \in 0 .. x /\ x \notin 0 .. y
      BY <1>5
    <2>3. QED
      BY <2>1, <2>2, <1>3, <1>4 DEF StrictSubsetOrdering
  <1>6. \A y \in S : x <= y
    BY <1>5
  <1>7. QED
    BY <1>6

\* The first, the second, and so on, of a finite set of numbers are in it.
LEMMA Ranked ==
    ASSUME NEW n \in Nat, NEW S \in SUBSET (1..n), NEW k \in 1..Cardinality(S)
    PROVE  \E i \in S : Cardinality({j \in S : j <= i}) = k
<1>1. \A j \in S : j \in Nat /\ 1 <= j /\ j <= n
  OBVIOUS
<1>2. IsFiniteSet(S) /\ Cardinality(S) \in Nat
  <2>1. IsFiniteSet(1..n)
    BY FS_Interval
  <2>2. S \subseteq 1..n
    OBVIOUS
  <2>3. IsFiniteSet(S)
    BY <2>1, <2>2, FS_Subset
  <2> QED
    BY <2>3, FS_CardinalityType
<1>3. k \in Nat /\ 1 <= k /\ k <= Cardinality(S)
  BY <1>2
<1> DEFINE Upto(m) == {j \in S : j <= m}
<1>4. ASSUME NEW m \in Nat PROVE IsFiniteSet(Upto(m)) /\ Cardinality(Upto(m)) \in Nat
  <2>1. Upto(m) \subseteq S
    OBVIOUS
  <2> HIDE DEF Upto
  <2>2. IsFiniteSet(Upto(m))
    BY <1>2, <2>1, FS_Subset
  <2> QED
    BY <2>2, FS_CardinalityType
<1>5. Upto(n) = S
  <2>1. \A j : j \in Upto(n) <=> j \in S
    BY <1>1
  <2> QED
    BY <2>1
<1>6. Upto(0) = {}
  <2>1. ASSUME NEW j \in S PROVE ~(j <= 0)
    BY <1>1
  <2> QED
    BY <2>1
<1> DEFINE T == {m \in Nat : k <= Cardinality(Upto(m))}
<1>7. n \in T /\ T \in SUBSET Nat
  BY <1>3, <1>5
<1>8. PICK m \in T : \A x \in T : m <= x
  BY <1>7, LeastOfNats
<1>9. m \in Nat /\ k <= Cardinality(Upto(m))
  OBVIOUS
<1>10. m # 0
  <2>1. Cardinality({}) = 0
    BY FS_EmptySet
  <2> QED
    BY <1>3, <1>6, <1>9, <2>1
<1> DEFINE p == m - 1
<1>11. p \in Nat /\ p < m /\ m = p + 1
  BY <1>9, <1>10
<1>12. p \notin T
  <2> HIDE DEF T, p
  <2> QED
    BY <1>8, <1>9, <1>11
<1>13. ~(k <= Cardinality(Upto(p)))
  BY <1>11, <1>12
<1> HIDE DEF T, p
<1>14. \A j \in S : j <= m <=> (j <= p \/ j = m)
  BY <1>1, <1>9, <1>11
<1>15. m \in S
  <2>1. SUFFICES ASSUME m \notin S PROVE FALSE
    OBVIOUS
  <2>2. \A j \in S : j <= m <=> j <= p
    BY <1>14, <2>1
  <2>3. Upto(m) = Upto(p)
    BY <2>2
  <2> QED
    BY <2>3, <1>9, <1>13
<1>16. Upto(m) = Upto(p) \cup {m} /\ m \notin Upto(p)
  <2>1. ~(m <= p) /\ m <= m
    BY <1>9, <1>11
  <2> QED
    BY <2>1, <1>14, <1>15
<1> HIDE DEF Upto
<1>17. Cardinality(Upto(m)) = Cardinality(Upto(p)) + 1
  BY <1>4, <1>11, <1>16, FS_AddElement
<1>18. Cardinality(Upto(m)) = k
  BY <1>3, <1>4, <1>9, <1>11, <1>13, <1>17
<1> QED
  BY <1>15, <1>18 DEF Upto

\* No two of them are the same.
LEMMA RanksDiffer ==
    ASSUME NEW n \in Nat, NEW S \in SUBSET (1..n), NEW i \in S, NEW l \in S,
           Cardinality({j \in S : j <= i}) = Cardinality({j \in S : j <= l})
    PROVE  i = l
<1>1. ASSUME NEW p \in S, NEW q \in S, p < q,
             Cardinality({j \in S : j <= p}) = Cardinality({j \in S : j <= q})
      PROVE  FALSE
  <2> DEFINE P == {j \in S : j <= p}
             Q == {j \in S : j <= q}
  <2>1. p \in Nat /\ q \in Nat /\ \A j \in S : j \in Nat
    OBVIOUS
  <2>2. P \in SUBSET Q /\ q \in Q /\ q \notin P
    <3>1. \A j \in S : j <= p => j <= q
      BY <1>1, <2>1
    <3>2. q <= q /\ ~(q <= p)
      BY <1>1, <2>1
    <3> QED
      BY <3>1, <3>2
  <2>3. IsFiniteSet(Q)
    <3>1. IsFiniteSet(1..n)
      BY FS_Interval
    <3>2. Q \in SUBSET (1..n)
      OBVIOUS
    <3> HIDE DEF Q
    <3> QED
      BY <3>1, <3>2, FS_Subset
  <2>4. Cardinality(P) = Cardinality(Q)
    BY <1>1
  <2> HIDE DEF P, Q
  <2> QED
    BY <2>2, <2>3, <2>4, FS_Subset
<1>2. i \in Nat /\ l \in Nat
  OBVIOUS
<1>3. i < l \/ l < i \/ i = l
  BY <1>2
<1> QED
  BY <1>1, <1>3

\* Where the k-th of the objects that are stored stands.
There(objects) == {i \in DOMAIN objects : store[objects[i]] # None}
Nth(objects, k) ==
    CHOOSE i \in There(objects) : Cardinality({j \in There(objects) : j <= i}) = k

\* What is listed are the objects that are stored, each as often as it was named.
LEMMA ListedIs ==
    ASSUME NEW S, NEW objects \in Seq(S)
    PROVE  /\ Listed(objects) \in Seq(S)
           /\ \A k \in DOMAIN Listed(objects) :
                 \E i \in DOMAIN objects : Listed(objects)[k] = objects[i] /\ store[objects[i]] # None
           /\ \A i \in DOMAIN objects : store[objects[i]] # None =>
                 \E k \in DOMAIN Listed(objects) : Listed(objects)[k] = objects[i]
           /\ (\A i, j \in DOMAIN objects : objects[i] = objects[j] => i = j)
                 => \A k, l \in DOMAIN Listed(objects) : Listed(objects)[k] = Listed(objects)[l] => k = l
<1> DEFINE there == There(objects)
           m == Cardinality(there)
           F == [k \in 1..m |-> objects[Nth(objects, k)]]
           rank(i) == Cardinality({j \in there : j <= i})
<1>1. Listed(objects) = F
  BY DEF Listed, Nth, There
<1>2. Len(objects) \in Nat /\ DOMAIN objects = 1..Len(objects)
  OBVIOUS
<1>3. there \in SUBSET (1..Len(objects))
  BY <1>2 DEF There
<1>4. \A i : i \in there <=> i \in DOMAIN objects /\ store[objects[i]] # None
  BY DEF There
<1> HIDE DEF there
<1>5. IsFiniteSet(there) /\ m \in Nat
  <2>1. IsFiniteSet(1..Len(objects))
    BY <1>2, FS_Interval
  <2>2. IsFiniteSet(there)
    BY <1>3, <2>1, FS_Subset
  <2> QED
    BY <2>2, FS_CardinalityType
<1>6. ASSUME NEW k \in 1..m PROVE Nth(objects, k) \in there /\ rank(Nth(objects, k)) = k
  <2>1. Nth(objects, k) = CHOOSE i \in there : rank(i) = k
    BY DEF Nth, there
  <2>2. \E i \in there : rank(i) = k
    BY <1>2, <1>3, Ranked
  <2> HIDE DEF rank
  <2> QED
    BY <2>1, <2>2
<1>7. ASSUME NEW i \in there PROVE rank(i) \in 1..m /\ Nth(objects, rank(i)) = i
  <2> DEFINE U == {j \in there : j <= i}
  <2>1. i \in Nat
    BY <1>3
  <2>2. U \in SUBSET there /\ i \in U
    BY <2>1
  <2> HIDE DEF U
  <2>3. IsFiniteSet(U) /\ Cardinality(U) <= m /\ Cardinality(U) \in Nat
    BY <1>5, <2>2, FS_Subset, FS_CardinalityType
  <2>4. Cardinality(U) # 0
    BY <2>2, <2>3, FS_EmptySet
  <2>5. Cardinality(U) \in 1..m
    BY <1>5, <2>3, <2>4
  <2>6. rank(i) \in 1..m
    BY <2>5 DEF U
  <2>7. Nth(objects, rank(i)) \in there /\ rank(Nth(objects, rank(i))) = rank(i)
    BY <1>6, <2>6
  <2> DEFINE l == Nth(objects, rank(i))
  <2>8. l \in there /\ rank(l) = rank(i)
    BY <2>7
  <2> HIDE DEF l
  <2>9. Cardinality({j \in there : j <= l}) = Cardinality({j \in there : j <= i})
    BY <2>8
  <2> DEFINE n == Len(objects)
  <2>10. n \in Nat /\ there \in SUBSET (1..n)
    BY <1>2, <1>3
  <2> HIDE DEF n, rank
  <2>11. l = i
    BY <2>8, <2>9, <2>10, RanksDiffer
  <2> QED
    BY <2>6, <2>11 DEF l
<1> HIDE DEF rank
<1>8. ASSUME NEW k \in 1..m PROVE Nth(objects, k) \in DOMAIN objects /\ objects[Nth(objects, k)] \in S
  <2> DEFINE i == Nth(objects, k)
  <2>1. i \in DOMAIN objects
    BY <1>4, <1>6
  <2> HIDE DEF i
  <2> QED
    BY <2>1 DEF i
<1>9. F \in Seq(S) /\ DOMAIN F = 1..m /\ \A k \in 1..m : F[k] = objects[Nth(objects, k)]
  BY <1>5, <1>8
<1> HIDE DEF F, m
<1>10. \A k \in DOMAIN F : \E i \in DOMAIN objects : F[k] = objects[i] /\ store[objects[i]] # None
  BY <1>4, <1>6, <1>9
<1>11. ASSUME NEW i \in DOMAIN objects, store[objects[i]] # None
       PROVE  \E k \in DOMAIN F : F[k] = objects[i]
  BY <1>4, <1>7, <1>9, <1>11
<1>12. ASSUME \A i, j \in DOMAIN objects : objects[i] = objects[j] => i = j,
              NEW k \in DOMAIN F, NEW l \in DOMAIN F, F[k] = F[l]
       PROVE  k = l
  <2>1. Nth(objects, k) = Nth(objects, l)
    BY <1>8, <1>9, <1>12
  <2> QED
    BY <1>6, <1>9, <2>1
<1> QED
  BY <1>1, <1>9, <1>10, <1>11, <1>12

-----------------------------------------------------------------------------
(* The inductive invariant *)

Fields == {"input", "at", "todo", "held", "fresh"}

\* What is stored has a place, and a request its fields.
Frames ==
    /\ DOMAIN store = Objects /\ DOMAIN status = Objects
    /\ DOMAIN born = Objects /\ DOMAIN secret = Custom
    /\ DOMAIN req = Requests /\ \A r \in Requests : DOMAIN req[r] = Fields

Now(o) == IF o = App THEN bound ELSE store[o]

\* What a request has read is what is stored, as long as nobody has written it.
Reads(x) ==
    /\ x.at # "done" => x.input.op \in DOMAIN Handler
    /\ x.at = "idle" => x.fresh = {}
    /\ \A o \in Objects \cup {App} :
          o \in x.fresh /\ (o = App => x.at = "bind") => x.held[o] = Now(o)

ReadHolds == \A r \in Requests : Reads(req[r])

\* So is what the operator has read, and the Secret it has written is still there.
WorkHolds ==
    work # None /\ work.fresh /\ work.object \in Custom =>
       LET o == work.object IN
       /\ store[o] # None
       /\ store[o] = work.data
       /\ born[o] = work.uid
       /\ work.at = "status" =>
             secret[o] = [data |-> ValidKeys(work.data), owner |-> work.uid]

WorkFrame == work # None => DOMAIN work = {"object", "data", "uid", "fresh", "at"} /\ work.fresh \in BOOLEAN

IInv == Frames /\ ReadHolds /\ WorkFrame /\ WorkHolds

LEMMA InitInv ==
    ASSUME Init
    PROVE  IInv
<1>1. PICK start \in Starts : /\ req = [r \in Requests |-> Asks(start.asked[r])]
                               /\ store = [o \in Objects |-> start.store[o]]
  BY DEF Init
<1>2. Frames
  BY <1>1 DEF Init, Frames, Asks, Fields
<1>3. ReadHolds
  BY <1>1, StartsAssumption DEF ReadHolds, Reads, Asks, Possible, IsAsked
<1>4. WorkHolds /\ WorkFrame
  BY DEF Init, WorkHolds, WorkFrame
<1> QED
  BY <1>2, <1>3, <1>4 DEF IInv

\* A step of a request that writes nothing.
LEMMA Advances ==
    ASSUME Frames, ReadHolds, NEW r \in Requests, NEW x, Becomes(r, x),
           DOMAIN x = Fields, Reads(x),
           \A p \in Objects \cup {App} : Now(p)' = Now(p)
    PROVE  /\ DOMAIN req' = Requests /\ \A q \in Requests : DOMAIN req'[q] = Fields
           /\ ReadHolds'
<1>1. DOMAIN req' = Requests /\ req'[r] = x /\ \A q \in Requests : q # r => req'[q] = req[q]
  BY DEF Frames, Becomes
<1>2. ASSUME NEW q \in Requests
      PROVE  DOMAIN req'[q] = Fields /\ Reads(req'[q])
  BY <1>1 DEF Frames, ReadHolds
<1>3. /\ (Objects \cup {App})' = Objects \cup {App} /\ App' = App
      /\ (DOMAIN Handler)' = DOMAIN Handler
  BY DEF App, Objects, Envs, Kinds, Registry
<1>4. ASSUME NEW q \in Requests PROVE Reads(req[q])'
  BY <1>2, <1>3 DEF Reads
<1> QED
  BY <1>1, <1>2, <1>4 DEF ReadHolds

\* A step that writes o, and nothing else.
LEMMA WritesHold ==
    ASSUME Frames, ReadHolds, NEW r \in Requests, NEW x, NEW o, Writes(r, x, o),
           DOMAIN x = Fields, Reads(x),
           \A p \in Objects \cup {App} : p # o => Now(p)' = Now(p)
    PROVE  /\ DOMAIN req' = Requests /\ \A q \in Requests : DOMAIN req'[q] = Fields
           /\ ReadHolds'
<1>1. DOMAIN req' = Requests /\ \A q \in Requests :
         req'[q] = [(IF q = r THEN x ELSE req[q]) EXCEPT !.fresh = @ \ {o}]
  BY DEF Frames, Writes
<1>2. ASSUME NEW q \in Requests
      PROVE  DOMAIN req'[q] = Fields /\ Reads(req[q])'
  <2> DEFINE y == IF q = r THEN x ELSE req[q]
  <2>1. DOMAIN y = Fields /\ Reads(y)
    BY DEF Frames, ReadHolds
  <2>2. req'[q] = [y EXCEPT !.fresh = @ \ {o}]
    BY <1>1
  <2> HIDE DEF y
  <2>3. /\ DOMAIN req'[q] = Fields /\ req'[q].fresh = y.fresh \ {o} /\ req'[q].held = y.held
        /\ req'[q].at = y.at /\ req'[q].input = y.input
    BY <2>1, <2>2 DEF Fields
  <2>4. ASSUME NEW p \in Objects \cup {App}, p \in req'[q].fresh,
               p = App => req'[q].at = "bind"
        PROVE  req'[q].held[p] = Now(p)'
    BY <2>1, <2>3, <2>4 DEF Reads
  <2>5. (Objects \cup {App})' = Objects \cup {App} /\ App' = App
    BY DEF App, Objects, Envs, Kinds, Registry
  <2>6. (DOMAIN Handler)' = DOMAIN Handler
    OBVIOUS
  <2> QED
    BY <2>1, <2>3, <2>4, <2>5, <2>6 DEF Reads
<1> QED
  BY <1>1, <1>2 DEF ReadHolds

\* What a request is when it has ended, or goes on after a write.
LEMMA EndedReads == DOMAIN Ended = Fields /\ Reads(Ended)
  BY DEF Ended, Asks, Fields, Reads

LEMMA CallsInOrder ==
    ASSUME NEW r \in Requests, req[r].input.op \in DOMAIN Handler
    PROVE  /\ Each(r) \notin {"idle", "bind", "done"}
           /\ Head(Does(r).calls) \notin {"idle", "bind", "done"}
<1> DEFINE op == req[r].input.op
<1> HIDE DEF op
<1>1. op \in {"createSecret", "deleteSecretKey", "updateSecret", "deleteSecret", "createShared",
             "updateShared", "deleteShared", "createRegistry", "deleteRegistry", "createVars",
             "deleteVarsKey", "bind", "unbind"}
  BY DEF op, Handler
<1>2. Does(r).calls \in {<<"get", "put", "restart">>, <<"find", "get", "put", "restart">>,
             <<"find", "remove">>, <<"get", "put">>, <<"list", "put">>, <<"list", "remove">>,
             <<"put">>, <<"remove">>, <<"app", "bind">>}
  BY <1>1 DEF op, Handler, Does, Op, CreateAppEnvSecret, DeleteAppEnvSecretKey,
     UpdateSecret, DeleteSecret, CreateSharedSecret, UpdateSharedSecret,
     DeleteSharedSecret, CreateRegistrySecret, DeleteRegistrySecret,
     CreateAppEnvVars, DeleteAppEnvVarKey, BindSharedSecret, UnbindSharedSecret
<1> QED
  BY <1>2 DEF Each

LEMMA GoingOn ==
    ASSUME Frames, ReadHolds, NEW r \in Requests, req[r].at \notin {"done", "bind"}
    PROVE  /\ \A ok : DOMAIN AfterPut(r, ok) = Fields /\ Reads(AfterPut(r, ok))
           /\ DOMAIN AfterRemove(r) = Fields /\ Reads(AfterRemove(r))
<1> DEFINE rest == Tail(req[r].todo)
           each == Each(r)
<1>1. DOMAIN req[r] = Fields /\ Reads(req[r])
  BY DEF Frames, ReadHolds
<1>2. each \notin {"idle", "bind", "done"}
  BY <1>1, CallsInOrder DEF Reads
<1>3. ASSUME NEW x \in {[req[r] EXCEPT !.todo = rest, !.at = each],
                       [req[r] EXCEPT !.at = "restart"], [req[r] EXCEPT !.todo = rest]}
      PROVE  DOMAIN x = Fields /\ Reads(x)
  <2> HIDE DEF rest, each
  <2>1. /\ DOMAIN x = Fields /\ x.held = req[r].held /\ x.fresh = req[r].fresh
        /\ x.input = req[r].input /\ x.at \in {each, "restart", req[r].at}
    BY <1>1 DEF Fields
  <2> QED
    BY <1>1, <1>2, <2>1 DEF Reads
<1>4. ASSUME NEW ok PROVE DOMAIN AfterPut(r, ok) = Fields /\ Reads(AfterPut(r, ok))
  <2>1. AfterPut(r, ok) \in {[req[r] EXCEPT !.todo = rest, !.at = each],
                                [req[r] EXCEPT !.at = "restart"], Ended}
    BY DEF AfterPut
  <2> HIDE DEF rest, each
  <2> QED
    BY <1>3, <2>1, EndedReads
<1>5. AfterRemove(r) \in {[req[r] EXCEPT !.todo = rest], Ended}
  BY DEF AfterRemove
<1> QED
  BY <1>3, <1>4, <1>5, EndedReads

\* The operator's work on an object that is written is out of date.
LEMMA WorkOutdated ==
    ASSUME WorkFrame, WorkHolds, NEW o, Outdate(o), UNCHANGED secret,
           \A p \in Custom : p # o => store'[p] = store[p] /\ born'[p] = born[p]
    PROVE  WorkFrame' /\ WorkHolds'
<1>1. CASE work = None
  BY <1>1 DEF WorkFrame, WorkHolds, Outdate
<1>2. CASE work # None
  <2>1. work' = [work EXCEPT !.fresh = @ /\ work.object # o]
    BY <1>2 DEF Outdate
  <2>2. /\ DOMAIN work' = DOMAIN work
        /\ work'.fresh = (work.fresh /\ work.object # o)
        /\ work'.object = work.object /\ work'.data = work.data
        /\ work'.uid = work.uid /\ work'.at = work.at
    BY <1>2, <2>1 DEF WorkFrame
  <2>3. WorkFrame'
    BY <1>2, <2>2 DEF WorkFrame
  <2>4. Custom' = Custom /\ \A d : ValidKeys(d)' = ValidKeys(d)
    BY DEF Custom, Envs, Registry, ValidKeys, Without
  <2>5. WorkHolds'
    BY <1>2, <2>2, <2>4 DEF WorkHolds
  <2> QED
    BY <2>3, <2>5
<1> QED
  BY <1>1, <1>2

LEMMA WorkUntouched ==
    ASSUME WorkFrame, WorkHolds, UNCHANGED <<secret, work>>,
           \A p \in Custom : store[p] # None => store'[p] = store[p] /\ born'[p] = born[p]
    PROVE  WorkFrame' /\ WorkHolds'
<1>1. Custom' = Custom /\ \A d : ValidKeys(d)' = ValidKeys(d)
  BY DEF Custom, Envs, Registry, ValidKeys, Without
<1>2. WorkFrame'
  BY DEF WorkFrame
<1>3. WorkHolds'
  BY <1>1 DEF WorkHolds
<1> QED
  BY <1>2, <1>3

StoreFrame == /\ DOMAIN store = Objects /\ DOMAIN status = Objects
              /\ DOMAIN born = Objects /\ DOMAIN secret = Custom

LEMMA Stays ==
    /\ Objects' = Objects /\ Custom' = Custom /\ App' = App
    /\ Custom \subseteq Objects /\ App \notin Objects
    /\ Registry \in Objects
  BY DEF Objects, Custom, App, Envs, Kinds, Registry

LEMMA Conclude ==
    ASSUME StoreFrame', DOMAIN req' = Requests /\ \A q \in Requests : DOMAIN req'[q] = Fields,
           ReadHolds', WorkFrame', WorkHolds'
    PROVE  IInv'
  BY DEF IInv, Frames, StoreFrame, Fields

\* A step of a request that only goes on as x.
LEMMA Quiet ==
    ASSUME IInv, NEW r \in Requests, NEW x, Becomes(r, x), DOMAIN x = Fields, Reads(x),
           UNCHANGED <<store, bound, status, born, secret, work>>
    PROVE  IInv'
<1>0. \A p \in Objects \cup {App} : Now(p)' = Now(p)
  BY Stays DEF Now
<1>1. DOMAIN req' = Requests /\ (\A q \in Requests : DOMAIN req'[q] = Fields) /\ ReadHolds'
  BY <1>0, Advances DEF IInv
<1>2. WorkFrame' /\ WorkHolds'
  BY WorkUntouched DEF IInv
<1>3. StoreFrame'
  BY Stays DEF IInv, Frames, StoreFrame
<1> QED
  BY <1>1, <1>2, <1>3, Conclude

LEMMA Begins == ASSUME IInv, NEW r \in Requests, Begin(r) PROVE IInv'
<1> DEFINE first == Head(Does(r).calls)
           named == Named(r)
           none  == [o \in {Registry} |-> None]
           y     == [req[r] EXCEPT !.at = first, !.todo = named, !.held = none]
           x     == IF IF Does(r).checks THEN DOMAIN req[r].input.data \cap BadKeys # {} ELSE FALSE
                    THEN Ended ELSE y
<1>1. Becomes(r, x)
  BY DEF Begin
<1>2. DOMAIN req[r] = Fields /\ Reads(req[r]) /\ req[r].at = "idle"
  BY DEF IInv, Frames, ReadHolds, Begin, At
<1>3. first \notin {"idle", "bind", "done"}
  BY <1>2, CallsInOrder DEF Reads
<1> HIDE DEF first, named, none
<1>4. DOMAIN y = Fields /\ y.fresh = {} /\ y.at = first /\ y.input = req[r].input
  BY <1>2 DEF Fields, Reads
<1> HIDE DEF y
<1>5. DOMAIN x = Fields /\ Reads(x)
  BY <1>2, <1>3, <1>4, EndedReads DEF Reads
<1>6. UNCHANGED <<store, bound, status, born, secret, work>>
  BY DEF Begin, api, operator
<1> HIDE DEF x
<1> QED
  BY <1>1, <1>5, <1>6, Quiet

LEMMA Lists == ASSUME IInv, NEW r \in Requests, List(r) PROVE IInv'
<1> DEFINE all  == {o \in Envs \X {req[r].input.kind} : store[o] # None}
           each == Each(r)
           held == [o \in all |-> store[o]]
<1>1. PICK todo : Becomes(r, IF all = {} THEN Ended
                      ELSE [req[r] EXCEPT !.at = each, !.todo = todo, !.held = held, !.fresh = all])
  BY DEF List
<1> DEFINE y == [req[r] EXCEPT !.at = each, !.todo = todo, !.held = held, !.fresh = all]
           x == IF all = {} THEN Ended ELSE y
<1>2. DOMAIN req[r] = Fields /\ Reads(req[r]) /\ req[r].at # "done"
  BY DEF IInv, Frames, ReadHolds, List, At
<1>3. each \notin {"idle", "bind", "done"}
  BY <1>2, CallsInOrder DEF Reads
<1> HIDE DEF all, each
<1>4. \A o \in all : held[o] = store[o]
  OBVIOUS
<1> HIDE DEF held
<1>5. /\ DOMAIN y = Fields /\ y.fresh = all /\ y.held = held
      /\ y.at = each /\ y.input = req[r].input
  BY <1>2 DEF Fields
<1>6. Becomes(r, x)
  BY <1>1
<1> HIDE DEF y
<1>7. DOMAIN x = Fields /\ Reads(x)
  BY <1>2, <1>3, <1>4, <1>5, EndedReads DEF Reads, Now
<1> HIDE DEF x
<1>8. UNCHANGED <<store, bound, status, born, secret, work>>
  BY DEF List, api, operator
<1> QED
  BY <1>6, <1>7, <1>8, Quiet

LEMMA Gets == ASSUME IInv, NEW r \in Requests, Get(r) PROVE IInv'
<1> DEFINE o    == Object(r)
           held == [p \in {o} |-> store[p]]
           y    == [req[r] EXCEPT !.at = "put", !.fresh = {o}, !.held = held]
<1>1. Becomes(r, Ended) \/ Becomes(r, y)
  BY DEF Get
<1>2. UNCHANGED <<store, bound, status, born, secret, work>>
  BY DEF Get, api, operator
<1>3. DOMAIN req[r] = Fields /\ Reads(req[r]) /\ req[r].at # "done"
  BY DEF IInv, Frames, ReadHolds, Get, At
<1> HIDE DEF o
<1>4. held[o] = store[o]
  OBVIOUS
<1> HIDE DEF held
<1>5. /\ DOMAIN y = Fields /\ y.fresh = {o} /\ y.held = held
      /\ y.at = "put" /\ y.input = req[r].input
  BY <1>3 DEF Fields
<1> HIDE DEF y
<1>6. Reads(y)
  BY <1>3, <1>4, <1>5 DEF Reads, Now
<1> QED
  BY <1>1, <1>2, <1>5, <1>6, Quiet, EndedReads

LEMMA Puts == ASSUME IInv, NEW r \in Requests, Put(r) PROVE IInv'
<1> DEFINE o   == Object(r)
           new == Content(r, o)
           x   == AfterPut(r, TRUE)
           y   == AfterPut(r, FALSE)
<1>1. \/ Becomes(r, y) /\ UNCHANGED <<store, born, work>>
      \/ /\ store' = [store EXCEPT ![o] = new]
         /\ born' = [born EXCEPT ![o] = IF store[o] = None THEN @ + 1 ELSE @]
         /\ \/ new = store[o] /\ Becomes(r, x) /\ UNCHANGED work
            \/ Writes(r, x, o)
  BY DEF Put
<1>2. UNCHANGED <<status, bound, secret>>
  BY DEF Put
<1>3. req[r].at \notin {"done", "bind"}
  BY DEF Put, At
<1>4. /\ DOMAIN x = Fields /\ Reads(x)
      /\ DOMAIN y = Fields /\ Reads(y)
  BY <1>3, GoingOn DEF IInv
<1> HIDE DEF o, new, x, y
<1>5. CASE Becomes(r, y) /\ UNCHANGED <<store, born, work>>
  BY <1>2, <1>4, <1>5, Quiet
<1>6. CASE /\ store' = [store EXCEPT ![o] = new]
           /\ born' = [born EXCEPT ![o] = IF store[o] = None THEN @ + 1 ELSE @]
           /\ new = store[o] /\ Becomes(r, x) /\ UNCHANGED work
  <2>1. StoreFrame'
    BY <1>2, <1>6, Stays DEF IInv, Frames, StoreFrame
  <2>2. \A p \in Objects : store'[p] = store[p] /\ (store[p] # None => born'[p] = born[p])
    BY <1>6 DEF IInv, Frames
  <2>3. WorkFrame' /\ WorkHolds'
    BY <1>2, <1>6, <2>2, Stays, WorkUntouched DEF IInv
  <2>4. \A p \in Objects \cup {App} : Now(p)' = Now(p)
    BY <1>2, <2>2, Stays DEF Now
  <2>5. DOMAIN req' = Requests /\ (\A q \in Requests : DOMAIN req'[q] = Fields) /\ ReadHolds'
    BY <1>4, <1>6, <2>4, Advances DEF IInv
  <2> QED
    BY <2>1, <2>3, <2>5, Conclude
<1>7. CASE /\ store' = [store EXCEPT ![o] = new]
           /\ born' = [born EXCEPT ![o] = IF store[o] = None THEN @ + 1 ELSE @]
           /\ Writes(r, x, o)
  <2>1. StoreFrame'
    BY <1>2, <1>7, Stays DEF IInv, Frames, StoreFrame
  <2>2. \A p \in Objects : p # o => store'[p] = store[p] /\ born'[p] = born[p]
    BY <1>7 DEF IInv, Frames
  <2>3. WorkFrame' /\ WorkHolds'
    BY <1>2, <1>7, <2>2, Stays, WorkOutdated DEF IInv, Writes
  <2>4. \A p \in Objects \cup {App} : p # o => Now(p)' = Now(p)
    BY <1>2, <2>2, Stays DEF Now
  <2>5. DOMAIN req' = Requests /\ (\A q \in Requests : DOMAIN req'[q] = Fields) /\ ReadHolds'
    BY <1>4, <1>7, <2>4, WritesHold DEF IInv
  <2> QED
    BY <2>1, <2>3, <2>5, Conclude
<1> QED
  BY <1>1, <1>5, <1>6, <1>7

LEMMA Removes == ASSUME IInv, NEW r \in Requests, Remove(r) PROVE IInv'
<1> DEFINE o == Object(r)
           x == AfterRemove(r)
<1>1. \/ Becomes(r, x) /\ UNCHANGED <<store, status, work>>
      \/ /\ store' = [store EXCEPT ![o] = None] /\ status' = [status EXCEPT ![o] = None]
         /\ Writes(r, x, o)
  BY DEF Remove
<1>2. UNCHANGED <<born, bound, secret>>
  BY DEF Remove
<1>3. DOMAIN x = Fields /\ Reads(x)
  BY GoingOn DEF IInv, Remove, At
<1> HIDE DEF o, x
<1>4. CASE Becomes(r, x) /\ UNCHANGED <<store, status, work>>
  BY <1>2, <1>3, <1>4, Quiet
<1>5. CASE /\ store' = [store EXCEPT ![o] = None] /\ status' = [status EXCEPT ![o] = None]
           /\ Writes(r, x, o)
  <2>1. StoreFrame'
    BY <1>2, <1>5, Stays DEF IInv, Frames, StoreFrame
  <2>2. \A p \in Objects : p # o => store'[p] = store[p]
    BY <1>5 DEF IInv, Frames
  <2>3. WorkFrame' /\ WorkHolds'
    BY <1>2, <1>5, <2>2, Stays, WorkOutdated DEF IInv, Writes
  <2>4. \A p \in Objects \cup {App} : p # o => Now(p)' = Now(p)
    BY <1>2, <2>2, Stays DEF Now
  <2>5. DOMAIN req' = Requests /\ (\A q \in Requests : DOMAIN req'[q] = Fields) /\ ReadHolds'
    BY <1>3, <1>5, <2>4, WritesHold DEF IInv
  <2> QED
    BY <2>1, <2>3, <2>5, Conclude
<1> QED
  BY <1>1, <1>4, <1>5

LEMMA Restarts == ASSUME IInv, NEW r \in Requests, RestartDeployment(r) PROVE IInv'
<1>1. Becomes(r, Ended) /\ UNCHANGED <<store, bound, status, born, secret, work>>
  BY DEF RestartDeployment, api
<1> QED
  BY <1>1, Quiet, EndedReads

LEMMA ReadsApp == ASSUME IInv, NEW r \in Requests, ReadApp(r) PROVE IInv'
<1> DEFINE held == [p \in {App} |-> bound]
           y    == [req[r] EXCEPT !.at = "bind", !.fresh = {App}, !.held = held]
<1>1. Becomes(r, Ended) \/ Becomes(r, y)
  BY DEF ReadApp
<1>2. UNCHANGED <<store, bound, status, born, secret, work>>
  BY DEF ReadApp, api, operator
<1>3. DOMAIN req[r] = Fields /\ Reads(req[r]) /\ req[r].at # "done"
  BY DEF IInv, Frames, ReadHolds, ReadApp, At
<1>4. held[App] = bound
  OBVIOUS
<1> HIDE DEF held
<1>5. /\ DOMAIN y = Fields /\ y.fresh = {App} /\ y.held = held
      /\ y.at = "bind" /\ y.input = req[r].input
  BY <1>3 DEF Fields
<1> HIDE DEF y
<1>6. Reads(y)
  BY <1>3, <1>4, <1>5 DEF Reads, Now
<1> QED
  BY <1>1, <1>2, <1>5, <1>6, Quiet, EndedReads

LEMMA WritesApp == ASSUME IInv, NEW r \in Requests, WriteApp(r) PROVE IInv'
<1>1. UNCHANGED <<store, status, born, secret>>
  BY DEF WriteApp
<1>2. CASE Writes(r, Ended, App)
  <2>1. WorkFrame' /\ WorkHolds'
    BY <1>1, <1>2, WorkOutdated DEF IInv, Writes
  <2>2. \A p \in Objects \cup {App} : p # App => Now(p)' = Now(p)
    BY <1>1, Stays DEF Now
  <2>3. DOMAIN req' = Requests /\ (\A q \in Requests : DOMAIN req'[q] = Fields) /\ ReadHolds'
    BY <1>2, <2>2, WritesHold, EndedReads DEF IInv
  <2>4. StoreFrame'
    BY <1>1, Stays DEF IInv, Frames, StoreFrame
  <2> QED
    BY <2>1, <2>3, <2>4, Conclude
<1>3. CASE Becomes(r, Ended) /\ UNCHANGED <<bound, work>>
  BY <1>1, <1>3, Quiet, EndedReads
<1> QED
  BY <1>2, <1>3 DEF WriteApp

\* A step that leaves the requests alone, or has written o for the operator.
LEMMA Served ==
    ASSUME IInv, UNCHANGED <<store, bound, born>>, DOMAIN status' = DOMAIN status, DOMAIN secret' = DOMAIN secret,
           req' = req \/ \E o : req' = [q \in Requests |-> [req[q] EXCEPT !.fresh = @ \ {o}]],
           WorkFrame', WorkHolds'
    PROVE  IInv'
<1>1. StoreFrame'
  BY Stays DEF IInv, Frames, StoreFrame
<1>2. (\A p \in Objects \cup {App} : Now(p)' = Now(p)) /\ (DOMAIN Handler)' = DOMAIN Handler
  BY Stays DEF Now
<1>3. DOMAIN req' = Requests /\ (\A q \in Requests : DOMAIN req'[q] = Fields) /\ ReadHolds'
  <2>1. CASE req' = req
    BY <1>2, <2>1, Stays DEF IInv, Frames, ReadHolds, Reads
  <2>2. CASE \E o : req' = [q \in Requests |-> [req[q] EXCEPT !.fresh = @ \ {o}]]
    <3>1. PICK o : req' = [q \in Requests |-> [req[q] EXCEPT !.fresh = @ \ {o}]]
      BY <2>2
    <3>2. DOMAIN req' = Requests /\ \A q \in Requests : req'[q] = [req[q] EXCEPT !.fresh = @ \ {o}]
      BY <3>1
    <3>3. ASSUME NEW q \in Requests PROVE DOMAIN req'[q] = Fields /\ Reads(req[q])'
      <4>1. DOMAIN req[q] = Fields /\ Reads(req[q])
        BY DEF IInv, Frames, ReadHolds
      <4>2. /\ DOMAIN req'[q] = Fields /\ req'[q].fresh = req[q].fresh \ {o}
            /\ req'[q].held = req[q].held /\ req'[q].at = req[q].at /\ req'[q].input = req[q].input
        BY <3>2, <4>1 DEF Fields
      <4> QED
        BY <1>2, <4>1, <4>2, Stays DEF Reads
    <3> QED
      BY <3>2, <3>3 DEF ReadHolds
  <2> QED
    BY <2>1, <2>2
<1> QED
  BY <1>1, <1>3, Conclude

LEMMA SecretReads == ASSUME IInv, SecretRead PROVE IInv'
<1> DEFINE o == Head(queue)
<1>1. /\ UNCHANGED <<store, bound, born, status, secret, req>>
      /\ work' = IF store[o] = None THEN None
                       ELSE [object |-> o, data |-> store[o], uid |-> born[o], fresh |-> TRUE, at |-> "write"]
  BY DEF SecretRead, api
<1> HIDE DEF o
<1>2. WorkFrame' /\ WorkHolds'
  BY <1>1 DEF WorkFrame, WorkHolds
<1> QED
  BY <1>1, <1>2, Served

LEMMA SecretWrites == ASSUME IInv, SecretWrite PROVE IInv'
<1> DEFINE o   == work.object
           new == [data |-> ValidKeys(work.data), owner |-> work.uid]
<1>1. /\ UNCHANGED <<store, bound, born, status, req>> /\ work # None
      /\ secret' = [secret EXCEPT ![o] = new]
      /\ work' = [work EXCEPT !.at = "status"]
  BY DEF SecretWrite, api
<1>2. /\ DOMAIN work' = DOMAIN work /\ work'.fresh = work.fresh
      /\ work'.object = o /\ work'.data = work.data /\ work'.uid = work.uid
  BY <1>1 DEF IInv, WorkFrame
<1>3. new' = new /\ Custom' = Custom
  BY <1>2, Stays DEF ValidKeys, Without
<1>4. o \in Custom => secret'[o] = new
  BY <1>1 DEF IInv, Frames
<1>5. WorkFrame' /\ WorkHolds'
  BY <1>1, <1>2, <1>3, <1>4 DEF IInv, WorkFrame, WorkHolds
<1> QED
  BY <1>1, <1>5, Served

LEMMA SecretFailing == ASSUME IInv, SecretFails PROVE IInv'
<1>1. UNCHANGED <<store, bound, born, secret>> /\ work' = None
  BY DEF SecretFails
<1>2. /\ DOMAIN status' = DOMAIN status
      /\ req' = req \/ \E o : req' = [q \in Requests |-> [req[q] EXCEPT !.fresh = @ \ {o}]]
  BY DEF SecretFails, Report
<1>3. WorkFrame' /\ WorkHolds'
  BY <1>1 DEF WorkFrame, WorkHolds
<1> QED
  BY <1>1, <1>2, <1>3, Served

LEMMA SecretReports == ASSUME IInv, SecretStatus PROVE IInv'
<1>1. UNCHANGED <<store, bound, born, secret>> /\ work' = None
  BY DEF SecretStatus
<1>2. /\ DOMAIN status' = DOMAIN status
      /\ req' = req \/ \E o : req' = [q \in Requests |-> [req[q] EXCEPT !.fresh = @ \ {o}]]
  BY DEF SecretStatus, Report
<1>3. WorkFrame' /\ WorkHolds'
  BY <1>1 DEF WorkFrame, WorkHolds
<1> QED
  BY <1>1, <1>2, <1>3, Served

LEMMA Collects == ASSUME IInv, NEW o \in Custom, Collect(o) PROVE IInv'
<1>1. /\ UNCHANGED <<store, bound, born, status, req, work>>
      /\ secret' = [secret EXCEPT ![o] = None]
      /\ store[o] = None \/ born[o] # secret[o].owner
  BY DEF Collect, api
<1>2. ASSUME work # None, work.fresh, work.object \in Custom, work.at = "status"
      PROVE  work.object # o
  <2>1. store[work.object] # None /\ born[work.object] = work.uid
    BY <1>2 DEF IInv, WorkHolds
  <2>2. secret[work.object].owner = work.uid
    BY <1>2 DEF IInv, WorkHolds
  <2> QED
    BY <1>1, <2>1, <2>2
<1>3. Custom' = Custom /\ \A d : ValidKeys(d)' = ValidKeys(d)
  BY Stays DEF ValidKeys, Without
<1>4. WorkFrame' /\ WorkHolds'
  BY <1>1, <1>2, <1>3 DEF IInv, Frames, WorkFrame, WorkHolds
<1> QED
  BY <1>1, <1>4, Served

\* The steps that leave alone what is stored and what the requests hold.
LEMMA OtherSteps ==
    ASSUME IInv, UNCHANGED <<store, bound, born, status, req, secret>>, work' = work \/ work' = None
    PROVE  IInv'
<1>1. WorkFrame' /\ WorkHolds'
  <2>1. CASE work' = None
    BY <2>1 DEF WorkFrame, WorkHolds
  <2>2. CASE work' = work
    BY <2>2, WorkUntouched DEF IInv
  <2> QED
    BY <2>1, <2>2
<1> QED
  BY <1>1, Served

LEMMA NextInv == ASSUME IInv, [Next]_vars PROVE IInv'
<1>1. ASSUME NEW r \in Requests, Begin(r) \/ Step(r) PROVE IInv'
  BY <1>1, Begins, Lists, Gets, Puts, Removes, Restarts, ReadsApp, WritesApp
     DEF Step
<1>2. CASE SecretStep \/ SecretFails
  BY <1>2, SecretReads, SecretWrites, SecretFailing, SecretReports DEF SecretStep
<1>3. ASSUME NEW o \in Custom, Collect(o) PROVE IInv'
  BY <1>3, Collects
<1>4. ASSUME NEW e \in Envs, ReconcileApp(e) \/ RollOut(e) PROVE IInv'
  <2>1. UNCHANGED <<store, bound, born, status, req, secret>> /\ work' = work
    BY <1>4 DEF ReconcileApp, RollOut, api, operator
  <2> QED
    BY <2>1, OtherSteps
<1>5. CASE OperatorRestarts
  <2>1. UNCHANGED <<store, bound, born, status, req, secret>> /\ work' = None
    BY <1>5 DEF OperatorRestarts, api
  <2> QED
    BY <2>1, OtherSteps
<1>6. CASE UNCHANGED vars
  <2>1. UNCHANGED <<store, bound, born, status, req, secret>> /\ work' = work
    BY <1>6 DEF vars, api, operator
  <2> QED
    BY <2>1, OtherSteps
<1> QED
  BY <1>1, <1>2, <1>3, <1>4, <1>5, <1>6 DEF Next

LEMMA InvHolds == Spec => []IInv
<1>1. Init => IInv
  BY InitInv
<1>2. IInv /\ [Next]_vars => IInv'
  BY NextInv
<1> QED
  BY <1>1, <1>2, PTL DEF Spec

\* What is written over what is there differs in the keys the request is about.
LEMMA ContentKept ==
    ASSUME IInv, NEW r \in Requests, NEW o \in Objects, Accepted(r, o), req[r].at = "put",
           NEW k \in Keys \ Mine(r)
    PROVE  Same(store[o], Content(r, o), k)
<1> DEFINE in  == req[r].input
           old == OrEmpty(store[o])
<1>1. /\ Does(r).keeps
      /\ k \notin DOMAIN in.data /\ k \notin in.keys
  BY DEF Mine
<1>2. req[r].held[o] = store[o]
  BY Stays DEF Accepted, IInv, ReadHolds, Reads, Now
<1>3. Content(r, o) = Without(Merge(old, in.data), in.keys)
  BY <1>1, <1>2 DEF Content
<1> HIDE DEF in, old
<1> DEFINE merged == Merge(old, in.data)
<1>4. DOMAIN merged = DOMAIN old \cup DOMAIN in.data /\ (k \in DOMAIN old => merged[k] = old[k])
  BY <1>1 DEF Merge
<1> HIDE DEF merged
<1> DEFINE new == Without(merged, in.keys)
<1>5. (k \in DOMAIN new) = (k \in DOMAIN merged) /\ (k \in DOMAIN merged => new[k] = merged[k])
  BY <1>1 DEF Without
<1> HIDE DEF new
<1>6. (k \in DOMAIN old) = (k \in DOMAIN new) /\ (k \in DOMAIN new => old[k] = new[k])
  BY <1>1, <1>4, <1>5
<1> QED
  BY <1>3, <1>6 DEF Same, new, merged, old

\* Only a write and a removal change what is stored, and only of one object.
LEMMA KeepsData ==
    ASSUME IInv, [Next]_vars, NEW o \in Objects
    PROVE  DataKept(o)
<1> SUFFICES ASSUME store'[o] # store[o], store'[o] # None
             PROVE  \E r \in Requests :
                       /\ req[r].at = "put" /\ Object(r) = o
                       /\ \A k \in Keys \ Mine(r) : Same(store[o], store'[o], k)
  BY DEF DataKept, At
<1>1. PICK r \in Requests : Put(r) \/ Remove(r)
  BY DEF Next, Begin, Step, List, Get, RestartDeployment, ReadApp, WriteApp,
     SecretStep, SecretRead, SecretWrite, SecretStatus, SecretFails, Collect,
     ReconcileApp, RollOut, OperatorRestarts, api, vars
<1> DEFINE p == Object(r)
<1>2. ~Remove(r)
  <2>1. SUFFICES ASSUME store' = [store EXCEPT ![p] = None] PROVE FALSE
    BY DEF Remove
  <2> QED
    BY <2>1 DEF IInv, Frames
<1>3. /\ req[r].at = "put" /\ Accepted(r, p)
      /\ store' = [store EXCEPT ![p] = Content(r, p)]
  BY <1>1, <1>2 DEF Put, At
<1>4. p = o /\ store'[o] = Content(r, o)
  BY <1>3 DEF IInv, Frames
<1> QED
  BY <1>3, <1>4, ContentKept

LEMMA KeepsBinding ==
    ASSUME IInv, [Next]_vars PROVE BindingKept
<1> SUFFICES ASSUME bound' # bound
             PROVE  \E r \in Requests : req[r].at = "bind" /\ bound' = Chosen(req[r].input, bound)
  BY DEF BindingKept, At
<1>1. PICK r \in Requests : WriteApp(r)
  BY DEF Next, Begin, Step, List, Get, RestartDeployment, ReadApp, Put, Remove,
     SecretStep, SecretRead, SecretWrite, SecretStatus, SecretFails, Collect,
     ReconcileApp, RollOut, OperatorRestarts, api, vars
<1>2. req[r].at = "bind" /\ App \in req[r].fresh /\ bound' = Chosen(req[r].input, req[r].held[App])
  BY <1>1 DEF WriteApp, At
<1>3. req[r].held[App] = bound
  BY <1>2 DEF IInv, ReadHolds, Reads, Now
<1> QED
  BY <1>2, <1>3

LEMMA ReportsHold ==
    ASSUME IInv, [Next]_vars, NEW o \in Custom
    PROVE  ReportHolds(o)
<1> SUFFICES ASSUME status'[o] # status[o], status'[o] # None, status'[o].synced
             PROVE  /\ store[o] # None
                    /\ status'[o].invalid = DOMAIN store[o] \cap BadKeys
                    /\ secret[o] = [data |-> ValidKeys(store[o]), owner |-> born[o]]
  BY DEF ReportHolds
<1> DEFINE p == work.object
           bad == DOMAIN work.data \cap BadKeys
<1>1. \/ \E q : status' = [status EXCEPT ![q] = None]
      \/ status' = [status EXCEPT ![p] = [synced |-> FALSE, invalid |-> bad]]
      \/ SecretStatus /\ status' # status
  BY DEF Next, Begin, Step, List, Get, RestartDeployment, ReadApp, Put, Remove,
     SecretStep, SecretRead, SecretWrite, SecretFails, Collect, WriteApp, Report,
     ReconcileApp, RollOut, OperatorRestarts, api, vars
<1>2. CASE \E q : status' = [status EXCEPT ![q] = None]
  BY <1>2 DEF IInv, Frames
<1>3. CASE status' = [status EXCEPT ![p] = [synced |-> FALSE, invalid |-> bad]]
  BY <1>3 DEF IInv, Frames
<1>4. CASE SecretStatus /\ status' # status
  <2>1. /\ work # None /\ work.at = "status" /\ work.fresh
        /\ status' = [status EXCEPT ![p] = [synced |-> TRUE, invalid |-> bad]]
    BY <1>4 DEF SecretStatus, SameVersion, Report
  <2>2. p = o /\ status'[o] = [synced |-> TRUE, invalid |-> bad]
    BY <2>1, Stays DEF IInv, Frames
  <2>3. /\ store[o] # None /\ store[o] = work.data /\ born[o] = work.uid
        /\ secret[o] = [data |-> ValidKeys(work.data), owner |-> work.uid]
    BY <2>1, <2>2 DEF IInv, WorkHolds
  <2> QED
    BY <2>2, <2>3
<1> QED
  BY <1>1, <1>2, <1>3, <1>4

-----------------------------------------------------------------------------
(* Types *)

ByName == {"createSecret", "deleteSecretKey", "createShared", "createVars", "deleteVarsKey"}
ByGet  == ByName \cup {"updateSecret"}
Direct == {"updateShared", "createRegistry"}
Drops  == {"deleteSecret", "deleteShared", "deleteRegistry"}

\* A request is where its handler may be, and has read what that needs.
Going(x) ==
    /\ x.at \in Places /\ x.fresh \subseteq Objects \cup {App} /\ x.todo \in Seq(Objects)
    /\ x.at # "done" => IsAsked(x.input)
    /\ x.at = "find" => x.input.op \in {"updateSecret", "deleteSecret"}
    /\ x.at = "list" => x.input.op \in {"updateShared", "deleteShared"}
    /\ x.at = "get" => x.input.op \in ByGet
    /\ x.at = "put" => x.input.op \in ByGet \cup Direct
    /\ x.at = "remove" => x.input.op \in Drops
    /\ x.at \in {"app", "bind"} => x.input.op \in {"bind", "unbind"}
    /\ x.at \in {"get", "put", "remove", "restart"} => x.todo # <<>>
    /\ x.at = "put" => x.held[Head(x.todo)] \in Data \cup {None}
    /\ x.at = "put" /\ x.input.op \in Direct =>
          \A i \in DOMAIN x.todo : x.held[x.todo[i]] \in Data \cup {None}

RequestsGoOn == \A r \in Requests : Going(req[r])

StoreTyped ==
    /\ store \in [Objects -> Data \cup {None}]
    /\ born \in [Objects -> Nat]
    /\ bound \subseteq Envs
    /\ \A o \in Objects : store[o] # None => born[o] # 0

ReportsTyped == \A o \in Custom : status[o] \in Status \cup {None}

SecretTyped(o) ==
    secret[o] # None =>
       /\ secret[o].data \in Data /\ DOMAIN secret[o].data \cap BadKeys = {}
       /\ secret[o].owner \in 1..born[o]

SecretsTyped == \A o \in Custom : SecretTyped(o)

QueueTyped ==
    /\ queue \in Seq(Custom)
    /\ \A i, j \in DOMAIN queue : queue[i] = queue[j] => i = j

WorkTyped == work \in Work \cup {None} /\ (work # None => work.uid \in 1..born[work.object])

PodsTyped == template \in [Envs -> Template]

TypeInv ==
    /\ IInv /\ RequestsGoOn /\ StoreTyped /\ ReportsTyped
    /\ SecretsTyped /\ QueueTyped /\ WorkTyped /\ PodsTyped

LEMMA DataIs ==
    /\ Empty \in Data
    /\ \A d \in Data : \A S : Without(d, S) \in Data /\ DOMAIN Without(d, S) = DOMAIN d \ S
    /\ \A d \in Data, new \in Data : Merge(d, new) \in Data
<1>1. \A d : d \in Data <=> \E S \in SUBSET Keys : d \in [S -> Values]
  BY DEF Data
<1>2. Empty \in Data
  <2>1. Empty \in [{} -> Values]
    BY DEF Empty
  <2> QED
    BY <1>1, <2>1
<1>3. ASSUME NEW d \in Data, NEW S PROVE Without(d, S) \in Data /\ DOMAIN Without(d, S) = DOMAIN d \ S
  <2>1. PICK T \in SUBSET Keys : d \in [T -> Values]
    BY <1>1
  <2>2. Without(d, S) \in [T \ S -> Values] /\ T \ S \in SUBSET Keys /\ DOMAIN Without(d, S) = DOMAIN d \ S
    BY <2>1 DEF Without
  <2> QED
    BY <1>1, <2>2
<1>4. ASSUME NEW d \in Data, NEW new \in Data PROVE Merge(d, new) \in Data
  <2>1. PICK S \in SUBSET Keys : d \in [S -> Values]
    BY <1>1
  <2>2. PICK T \in SUBSET Keys : new \in [T -> Values]
    BY <1>1
  <2>3. Merge(d, new) \in [S \cup T -> Values] /\ S \cup T \in SUBSET Keys
    BY <2>1, <2>2 DEF Merge
  <2> QED
    BY <1>1, <2>3
<1> QED
  BY <1>2, <1>3, <1>4

LEMMA ValidKeysAre ==
    ASSUME NEW d \in Data
    PROVE  ValidKeys(d) \in Data /\ DOMAIN ValidKeys(d) \cap BadKeys = {}
  BY DataIs DEF ValidKeys

\* The environments, and the objects of a kind in them.
LEMMA ObjectsAre ==
    /\ Registry \in Custom /\ Custom \subseteq Objects
    /\ \A e \in Envs, k \in Kinds : <<e, k>> \in Objects
    /\ \A e \in Envs, k \in {"own", "shared"} : <<e, k>> \in Custom
    /\ \A o \in Objects : o = Registry \/ \E e \in Envs, k \in Kinds : o = <<e, k>>
  BY DEF Objects, Custom, Kinds

LEMMA InOrderIs ==
    ASSUME NEW envs \in Seq(Envs), NEW kind \in Kinds
    PROVE  /\ InOrder(envs, kind) \in Seq(Objects) /\ Len(InOrder(envs, kind)) = Len(envs)
           /\ DOMAIN InOrder(envs, kind) = DOMAIN envs
           /\ \A i \in DOMAIN envs : InOrder(envs, kind)[i] = <<envs[i], kind>>
<1> DEFINE F == [i \in 1..Len(envs) |-> <<envs[i], kind>>]
<1>1. Len(envs) \in Nat /\ DOMAIN envs = 1..Len(envs) /\ \A i \in 1..Len(envs) : envs[i] \in Envs
  OBVIOUS
<1>2. InOrder(envs, kind) = F
  BY <1>1 DEF InOrder
<1>3. \A i \in 1..Len(envs) : <<envs[i], kind>> \in Objects
  BY <1>1, ObjectsAre
<1>4. F \in Seq(Objects) /\ Len(F) = Len(envs) /\ DOMAIN F = 1..Len(envs)
  BY <1>1, <1>3
<1> QED
  BY <1>1, <1>2, <1>4

\* What a handler does first, and for each object.
LEMMA HandlerIs ==
    ASSUME NEW r \in Requests, req[r].input.op \in DOMAIN Handler
    PROVE  LET op == req[r].input.op IN
           /\ op \in ByName => Head(Does(r).calls) = "get" /\ Each(r) = "get"
           /\ op = "updateSecret" => Head(Does(r).calls) = "find" /\ Each(r) = "get"
           /\ op = "deleteSecret" => Head(Does(r).calls) = "find" /\ Each(r) = "remove"
           /\ op = "updateShared" => Head(Does(r).calls) = "list" /\ Each(r) = "put"
           /\ op = "deleteShared" => Head(Does(r).calls) = "list" /\ Each(r) = "remove"
           /\ op = "createRegistry" => Head(Does(r).calls) = "put" /\ Each(r) = "put"
           /\ op = "deleteRegistry" => Head(Does(r).calls) = "remove" /\ Each(r) = "remove"
           /\ op \in {"bind", "unbind"} => Head(Does(r).calls) = "app"
           /\ op \in ByName \cup {"updateSecret", "deleteSecret", "updateShared", "deleteShared",
                                  "createRegistry", "deleteRegistry", "bind", "unbind"}
<1> DEFINE op == req[r].input.op
<1> HIDE DEF op
<1>1. op \in ByName \cup {"updateSecret", "deleteSecret", "updateShared", "deleteShared",
                         "createRegistry", "deleteRegistry", "bind", "unbind"}
  BY DEF op, Handler, ByName
<1>2. Does(r) = Handler[op]
  BY DEF Does, Op, op
<1>3. op \in ByName => Does(r).calls \in {<<"get", "put", "restart">>, <<"get", "put">>}
  BY <1>2 DEF ByName, Handler, CreateAppEnvSecret, DeleteAppEnvSecretKey, CreateSharedSecret,
     CreateAppEnvVars, DeleteAppEnvVarKey
<1>4. /\ op = "updateSecret" => Does(r).calls = <<"find", "get", "put", "restart">>
      /\ op = "deleteSecret" => Does(r).calls = <<"find", "remove">>
  BY <1>2 DEF Handler, UpdateSecret, DeleteSecret
<1>5. /\ op = "updateShared" => Does(r).calls = <<"list", "put">>
      /\ op = "deleteShared" => Does(r).calls = <<"list", "remove">>
  BY <1>2 DEF Handler, UpdateSharedSecret, DeleteSharedSecret
<1>6. /\ op = "createRegistry" => Does(r).calls = <<"put">>
      /\ op = "deleteRegistry" => Does(r).calls = <<"remove">>
  BY <1>2 DEF Handler, CreateRegistrySecret, DeleteRegistrySecret
<1>7. op \in {"bind", "unbind"} => Does(r).calls = <<"app", "bind">>
  BY <1>2 DEF Handler, BindSharedSecret, UnbindSharedSecret
<1>8. \A s \in {<<"get", "put", "restart">>, <<"get", "put">>} : Head(s) = "get"
  OBVIOUS
<1>9. /\ Head(<<"find", "get", "put", "restart">>) = "find" /\ <<"find", "get", "put", "restart">>[2] = "get"
      /\ Head(<<"find", "remove">>) = "find" /\ <<"find", "remove">>[2] = "remove"
      /\ Head(<<"list", "put">>) = "list" /\ <<"list", "put">>[2] = "put"
      /\ Head(<<"list", "remove">>) = "list" /\ <<"list", "remove">>[2] = "remove"
      /\ Head(<<"put">>) = "put" /\ Head(<<"remove">>) = "remove" /\ Head(<<"app", "bind">>) = "app"
  OBVIOUS
<1> QED
  BY <1>1, <1>3, <1>4, <1>5, <1>6, <1>7, <1>8, <1>9 DEF Each, op

LEMMA KindIs ==
    ASSUME NEW in, IsAsked(in), in.op \notin {"bind", "unbind"}
    PROVE  /\ in.op \in {"updateSecret", "deleteSecret"} => in.kind = "own"
           /\ in.op \in {"updateShared", "deleteShared"} => in.kind = "shared"
           /\ in.op \in {"createRegistry", "deleteRegistry"} => in.kind = "registry"
           /\ in.op \in ByName => in.kind \in Kinds
           /\ in.data \in Data /\ in.keys \subseteq Keys
           /\ in.op \in ByName => in.envs \in Seq(Envs) /\ in.envs # <<>>
  BY DEF IsAsked, KindOf, ByName, Kinds

LEMMA EndedGoes == Going(Ended)
  BY DEF Going, Ended, Asks, Places

\* A request that loses its hold on an object.
LEMMA Fewer ==
    ASSUME NEW y, DOMAIN y = Fields, Going(y), NEW o, NEW x, x = [y EXCEPT !.fresh = @ \ {o}]
    PROVE  Going(x)
<1>1. /\ x.fresh = y.fresh \ {o} /\ x.at = y.at /\ x.input = y.input
      /\ x.todo = y.todo /\ x.held = y.held
  BY DEF Fields
<1> QED
  BY <1>1 DEF Going

\* A request goes on as x, or has written o.
LEMMA OneGoesOn ==
    ASSUME IInv, RequestsGoOn, NEW r \in Requests, NEW x, DOMAIN x = Fields, Going(x),
           Becomes(r, x) \/ \E o : Writes(r, x, o)
    PROVE  RequestsGoOn'
<1> SUFFICES ASSUME NEW q \in Requests PROVE Going(req'[q])
  BY DEF RequestsGoOn, Going, IsAsked, Places, Objects, App, Custom, Envs, Kinds, Registry, Data
<1> DEFINE y == IF q = r THEN x ELSE req[q]
<1>1. DOMAIN y = Fields /\ Going(y)
  BY DEF RequestsGoOn, IInv, Frames
<1>2. CASE Becomes(r, x)
  BY <1>1, <1>2 DEF Becomes, IInv, Frames
<1>3. ASSUME NEW o, Writes(r, x, o) PROVE Going(req'[q])
  <2>1. req'[q] = [y EXCEPT !.fresh = @ \ {o}]
    BY <1>3 DEF Writes
  <2> HIDE DEF y
  <2> QED
    BY <1>1, <2>1, Fewer
<1> QED
  BY <1>2, <1>3

LEMMA NoneGoesOn ==
    ASSUME IInv, RequestsGoOn,
           req' = req \/ \E o : req' = [q \in Requests |-> [req[q] EXCEPT !.fresh = @ \ {o}]]
    PROVE  RequestsGoOn'
<1> SUFFICES ASSUME NEW q \in Requests PROVE Going(req'[q])
  BY DEF RequestsGoOn, Going, IsAsked, Places, Objects, App, Custom, Envs, Kinds, Registry, Data
<1>1. DOMAIN req[q] = Fields /\ Going(req[q])
  BY DEF RequestsGoOn, IInv, Frames
<1>2. ASSUME NEW o, req' = [p \in Requests |-> [req[p] EXCEPT !.fresh = @ \ {o}]] PROVE Going(req'[q])
  <2>1. req'[q] = [req[q] EXCEPT !.fresh = @ \ {o}]
    BY <1>2
  <2> QED
    BY <1>1, <2>1, Fewer
<1> QED
  BY <1>1, <1>2

\* What an object in hand is in.
LEMMA ObjectIs ==
    ASSUME NEW r \in Requests, Going(req[r]), req[r].at \in {"get", "put", "remove", "restart"}
    PROVE  /\ Object(r) \in Objects /\ Object(r) = req[r].todo[1]
           /\ Tail(req[r].todo) \in Seq(Objects)
           /\ \A i \in DOMAIN Tail(req[r].todo) :
                 i + 1 \in DOMAIN req[r].todo /\ Tail(req[r].todo)[i] = req[r].todo[i + 1]
<1> DEFINE t == req[r].todo
<1>1. t \in Seq(Objects) /\ t # <<>>
  BY DEF Going
<1>2. Object(r) = Head(t)
  BY DEF Object
<1> HIDE DEF t
<1>3. Head(t) \in Objects /\ Head(t) = t[1] /\ Tail(t) \in Seq(Objects)
  BY <1>1
<1>4. \A i \in DOMAIN Tail(t) : i + 1 \in DOMAIN t /\ Tail(t)[i] = t[i + 1]
  BY <1>1
<1> QED
  BY <1>2, <1>3, <1>4 DEF t

LEMMA AfterPutGoes ==
    ASSUME NEW r \in Requests, DOMAIN req[r] = Fields, Going(req[r]), req[r].at = "put", NEW ok \in BOOLEAN
    PROVE  Going(AfterPut(r, ok))
<1> DEFINE x    == req[r]
           rest == Tail(x.todo)
           each == Each(r)
           y    == [x EXCEPT !.todo = rest, !.at = each]
           z    == [x EXCEPT !.at = "restart"]
<1>1. /\ rest \in Seq(Objects)
      /\ \A i \in DOMAIN rest : i + 1 \in DOMAIN x.todo /\ rest[i] = x.todo[i + 1]
  BY ObjectIs
<1>2. IsAsked(x.input) /\ x.input.op \in ByGet \cup Direct
  BY DEF Going
<1>3. /\ x.input.op \in ByGet => each = "get"
      /\ x.input.op \in Direct => each = "put"
  BY <1>2, HandlerIs DEF IsAsked, ByGet, Direct
<1>4. AfterPut(r, ok) \in {y, z, Ended} /\ (AfterPut(r, ok) = y => rest # <<>> \/ y \in {z, Ended})
  BY DEF AfterPut
<1> HIDE DEF rest, each
<1>5. ASSUME rest # <<>> PROVE Going(y)
  <2>1. /\ y.todo = rest /\ y.at = each /\ y.fresh = x.fresh /\ y.held = x.held /\ y.input = x.input
    BY DEF Fields
  <2> HIDE DEF y, x
  <2>2. Head(rest) = rest[1] /\ 1 \in DOMAIN rest
    BY <1>1, <1>5
  <2>3. x.input.op \in Direct => \A i \in DOMAIN rest : x.held[rest[i]] \in Data \cup {None}
    BY <1>1 DEF Going, x
  <2>4. each \in Places /\ each \in {"get", "put"}
    BY <1>2, <1>3 DEF Places
  <2>5. each = "put" => x.input.op \in Direct
    BY <1>2, <1>3
  <2> QED
    BY <1>1, <1>2, <1>3, <1>5, <2>1, <2>2, <2>3, <2>4, <2>5 DEF Going, x
<1>6. Going(z)
  <2>1. z.todo = x.todo /\ z.at = "restart" /\ z.fresh = x.fresh /\ z.held = x.held /\ z.input = x.input
    BY DEF Fields
  <2> HIDE DEF z
  <2> QED
    BY <2>1 DEF Going, Places
<1> QED
  BY <1>4, <1>5, <1>6, EndedGoes

LEMMA AfterRemoveGoes ==
    ASSUME NEW r \in Requests, DOMAIN req[r] = Fields, Going(req[r]), req[r].at = "remove"
    PROVE  Going(AfterRemove(r))
<1> DEFINE x    == req[r]
           rest == Tail(x.todo)
           y    == [x EXCEPT !.todo = rest]
<1>1. rest \in Seq(Objects)
  BY ObjectIs
<1>2. AfterRemove(r) = IF rest = <<>> THEN Ended ELSE y
  BY DEF AfterRemove
<1> HIDE DEF rest
<1>3. ASSUME rest # <<>> PROVE Going(y)
  <2>1. y.todo = rest /\ y.at = x.at /\ y.fresh = x.fresh /\ y.held = x.held /\ y.input = x.input
    BY DEF Fields
  <2> HIDE DEF y
  <2> QED
    BY <1>1, <1>3, <2>1 DEF Going
<1> QED
  BY <1>2, <1>3, EndedGoes

LEMMA BeginGoes ==
    ASSUME NEW r \in Requests, DOMAIN req[r] = Fields, Going(req[r]), req[r].at = "idle"
    PROVE  Going([req[r] EXCEPT !.at = Head(Does(r).calls), !.todo = Named(r),
                                !.held = [o \in {Registry} |-> None]])
<1> DEFINE x     == req[r]
           first == Head(Does(r).calls)
           todo  == Named(r)
           held  == [o \in {Registry} |-> None]
           y     == [x EXCEPT !.at = first, !.todo = todo, !.held = held]
           op    == x.input.op
<1> SUFFICES Going(y)
  OBVIOUS
<1>1. IsAsked(x.input) /\ op \in DOMAIN Handler
  BY DEF Going, IsAsked
<1>2. /\ y.todo = todo /\ y.at = first /\ y.fresh = x.fresh /\ y.held = held /\ y.input = x.input
  BY DEF Fields
<1>3. /\ op \in ByName => first = "get"
      /\ op \in {"updateSecret", "deleteSecret"} => first = "find"
      /\ op \in {"updateShared", "deleteShared"} => first = "list"
      /\ op = "createRegistry" => first = "put"
      /\ op = "deleteRegistry" => first = "remove"
      /\ op \in {"bind", "unbind"} => first = "app"
      /\ op \in ByName \cup {"updateSecret", "deleteSecret", "updateShared", "deleteShared",
                             "createRegistry", "deleteRegistry", "bind", "unbind"}
  BY <1>1, HandlerIs
<1>4. Named(r) = IF first \in {"find", "list", "app"} THEN <<>>
                 ELSE IF x.input.kind = "registry" THEN <<Registry>>
                 ELSE InOrder(x.input.envs, x.input.kind)
  BY DEF Named
<1>5. held[Registry] = None
  OBVIOUS
<1> HIDE DEF first, held, y
<1>6. ASSUME op \in ByName PROVE todo \in Seq(Objects) /\ todo # <<>>
  <2>1. x.input.kind \in Kinds /\ x.input.envs \in Seq(Envs) /\ x.input.envs # <<>>
    BY <1>1, <1>6, KindIs DEF ByName
  <2>2. todo = InOrder(x.input.envs, x.input.kind)
    BY <1>3, <1>4, <1>6, <2>1 DEF Kinds
  <2>3. Len(x.input.envs) # 0
    BY <2>1
  <2> HIDE DEF x
  <2>4. InOrder(x.input.envs, x.input.kind) \in Seq(Objects) /\ Len(InOrder(x.input.envs, x.input.kind)) # 0
    BY <2>1, <2>3, InOrderIs
  <2> QED
    BY <2>2, <2>4
<1>7. ASSUME op \in {"createRegistry", "deleteRegistry"} PROVE todo = <<Registry>>
  BY <1>1, <1>3, <1>4, <1>7, KindIs
<1>8. op \notin ByName \cup {"createRegistry", "deleteRegistry"} => todo = <<>>
  BY <1>3, <1>4
<1>9. <<Registry>> \in Seq(Objects) /\ <<Registry>> # <<>> /\ Head(<<Registry>>) = Registry
      /\ <<>> \in Seq(Objects) /\ \A i \in DOMAIN <<Registry>> : <<Registry>>[i] = Registry
  BY ObjectsAre
<1> HIDE DEF todo
<1>10. y.fresh \subseteq Objects \cup {App}
  BY <1>2 DEF Going
<1>11. CASE op \in ByName
  <2>1. first = "get"
    BY <1>3, <1>11
  <2> QED
    BY <1>1, <1>2, <1>6, <1>10, <1>11, <2>1 DEF Going, Places, ByGet
<1>12. CASE op = "createRegistry"
  <2>1. first = "put" /\ todo = <<Registry>>
    BY <1>3, <1>7, <1>12
  <2> QED
    BY <1>1, <1>2, <1>5, <1>9, <1>10, <1>12, <2>1 DEF Going, Places, Direct
<1>13. CASE op = "deleteRegistry"
  <2>1. first = "remove" /\ todo = <<Registry>>
    BY <1>3, <1>7, <1>13
  <2> QED
    BY <1>1, <1>2, <1>9, <1>10, <1>13, <2>1 DEF Going, Places, Drops
<1>14. CASE op \in {"updateSecret", "deleteSecret", "updateShared", "deleteShared", "bind", "unbind"}
  <2>1. first \in {"find", "list", "app"} /\ todo \in Seq(Objects)
    BY <1>3, <1>8, <1>9, <1>14 DEF ByName
  <2> QED
    BY <1>1, <1>2, <1>3, <1>10, <1>14, <2>1 DEF Going, Places
<1> QED
  BY <1>3, <1>11, <1>12, <1>13, <1>14

LEMMA ListGoes ==
    ASSUME StoreTyped, NEW r \in Requests, DOMAIN req[r] = Fields, Going(req[r]), List(r)
    PROVE  \E x : Becomes(r, x) /\ DOMAIN x = Fields /\ Going(x)
<1> DEFINE in    == req[r].input
           kind  == in.kind
           all   == {o \in Envs \X {kind} : store[o] # None}
           order == InOrder(EnvOrder, kind)
           found == Listed(order)
           each  == Each(r)
           held  == [o \in all |-> store[o]]
           todo  == IF At(r, "find") THEN <<Head(found)>> ELSE found
           y     == [req[r] EXCEPT !.at = each, !.todo = todo, !.held = held, !.fresh = all]
<1>1. Becomes(r, IF all = {} THEN Ended ELSE y)
  BY DEF List
<1>2. /\ IsAsked(in) /\ in.op \in DOMAIN Handler
      /\ in.op \in {"updateSecret", "deleteSecret", "updateShared", "deleteShared"}
      /\ req[r].at = "find" => in.op \in {"updateSecret", "deleteSecret"}
      /\ req[r].at = "list" => in.op \in {"updateShared", "deleteShared"}
      /\ req[r].at \in {"find", "list"}
  BY DEF Going, IsAsked, List, At
<1>3. kind \in {"own", "shared"} /\ kind \in Kinds
  BY <1>2, KindIs DEF Kinds
<1>4. /\ in.op = "updateSecret" => each = "get"
      /\ in.op = "updateShared" => each = "put"
      /\ in.op \in {"deleteSecret", "deleteShared"} => each = "remove"
  BY <1>2, HandlerIs
<1>5. /\ order \in Seq(Objects) /\ DOMAIN order = DOMAIN EnvOrder
      /\ \A i \in DOMAIN EnvOrder : order[i] = <<EnvOrder[i], kind>>
  BY <1>3, InOrderIs, SecretsAssumption
<1>6. /\ found \in Seq(Objects)
      /\ \A k \in DOMAIN found : \E i \in DOMAIN order : found[k] = order[i] /\ store[order[i]] # None
      /\ \A i \in DOMAIN order : store[order[i]] # None => \E k \in DOMAIN found : found[k] = order[i]
  <2> HIDE DEF order, found
  <2> QED
    BY <1>5, ListedIs DEF found
<1>7. all \subseteq Objects
  BY <1>3, ObjectsAre
<1>8. \A o \in all : held[o] \in Data \cup {None}
  BY <1>7 DEF StoreTyped
<1> HIDE DEF order, found, each
<1>9. \A k \in DOMAIN found : found[k] \in all
  <2> SUFFICES ASSUME NEW k \in DOMAIN found PROVE found[k] \in all
    OBVIOUS
  <2>1. PICK i \in DOMAIN order : found[k] = order[i] /\ store[order[i]] # None
    BY <1>6
  <2>2. i \in DOMAIN EnvOrder /\ order[i] = <<EnvOrder[i], kind>>
    BY <1>5
  <2>3. EnvOrder[i] \in Envs
    BY <2>2 DEF Envs
  <2>4. order[i] \in Envs \X {kind}
    BY <2>2, <2>3
  <2> QED
    BY <2>1, <2>4
<1>10. all # {} => found # <<>>
  <2> SUFFICES ASSUME NEW o \in all PROVE found # <<>>
    OBVIOUS
  <2>1. PICK e \in Envs : o = <<e, kind>> /\ store[<<e, kind>>] # None
    OBVIOUS
  <2>2. PICK i \in DOMAIN EnvOrder : EnvOrder[i] = e
    BY DEF Envs
  <2>3. \E k : k \in DOMAIN found
    BY <1>5, <1>6, <2>1, <2>2
  <2> QED
    BY <2>3
<1> HIDE DEF held, all
<1>11. ASSUME all # {} PROVE todo \in Seq(Objects) /\ todo # <<>> /\ \A i \in DOMAIN todo : todo[i] \in all
  <2>1. Head(found) = found[1] /\ 1 \in DOMAIN found /\ Head(found) \in Objects
    BY <1>6, <1>10, <1>11
  <2> DEFINE h == Head(found)
  <2>2. h \in all /\ h \in Objects
    BY <1>9, <2>1
  <2> HIDE DEF h
  <2>3. <<h>> \in Seq(Objects) /\ <<h>> # <<>> /\ \A i \in DOMAIN <<h>> : <<h>>[i] \in all
    BY <2>2
  <2> QED
    BY <1>6, <1>9, <1>10, <1>11, <2>3 DEF h
<1>12. /\ y.todo = todo /\ y.at = each /\ y.fresh = all /\ y.held = held /\ y.input = in
       /\ DOMAIN y = Fields
  BY DEF Fields
<1> HIDE DEF todo, y, in
<1>13. ASSUME all # {} PROVE Going(y)
  <2>1. todo \in Seq(Objects) /\ todo # <<>> /\ \A i \in DOMAIN todo : held[todo[i]] \in Data \cup {None}
    BY <1>8, <1>11, <1>13
  <2>2. Head(todo) = todo[1] /\ 1 \in DOMAIN todo
    BY <2>1
  <2>3. each \in {"get", "put", "remove"}
    BY <1>2, <1>4
  <2>4. /\ each = "get" => in.op \in ByGet
        /\ each = "put" => in.op \in Direct
        /\ each = "remove" => in.op \in Drops
    BY <1>2, <1>4 DEF ByGet, Direct, Drops
  <2>5. each \in Places
    BY <2>3 DEF Places
  <2> QED
    BY <1>2, <1>7, <1>12, <2>1, <2>2, <2>3, <2>4, <2>5 DEF Going
<1> DEFINE x == IF all = {} THEN Ended ELSE y
<1>14. DOMAIN x = Fields /\ Going(x)
  BY <1>12, <1>13, EndedGoes, EndedReads
<1>15. Becomes(r, x)
  BY <1>1 DEF y, todo, found, order, each, held, all, in
<1> QED
  BY <1>14, <1>15

LEMMA GetGoes ==
    ASSUME StoreTyped, NEW r \in Requests, DOMAIN req[r] = Fields, Going(req[r]), Get(r)
    PROVE  \E x : Becomes(r, x) /\ DOMAIN x = Fields /\ Going(x)
<1> DEFINE o    == Object(r)
           held == [p \in {o} |-> store[p]]
           y    == [req[r] EXCEPT !.at = "put", !.fresh = {o}, !.held = held]
<1>1. Becomes(r, Ended) \/ Becomes(r, y)
  BY DEF Get
<1>2. req[r].at = "get"
  BY DEF Get, At
<1>3. /\ IsAsked(req[r].input) /\ req[r].input.op \in ByGet
      /\ req[r].todo \in Seq(Objects) /\ req[r].todo # <<>>
  BY <1>2 DEF Going
<1>4. o \in Objects /\ Head(req[r].todo) = o
  BY <1>2, ObjectIs DEF Object
<1>5. held[o] \in Data \cup {None}
  BY <1>4 DEF StoreTyped
<1>6. /\ y.at = "put" /\ y.fresh = {o} /\ y.held = held /\ y.input = req[r].input
      /\ y.todo = req[r].todo /\ DOMAIN y = Fields
  BY DEF Fields
<1> HIDE DEF y, held, o
<1>7. req[r].input.op \notin Direct
  BY <1>3 DEF ByGet, ByName, Direct
<1>8. Going(y)
  BY <1>3, <1>4, <1>5, <1>6, <1>7 DEF Going, Places
<1> QED
  BY <1>1, <1>6, <1>8, EndedGoes, EndedReads

LEMMA ReadAppGoes ==
    ASSUME NEW r \in Requests, DOMAIN req[r] = Fields, Going(req[r]), ReadApp(r)
    PROVE  \E x : Becomes(r, x) /\ DOMAIN x = Fields /\ Going(x)
<1> DEFINE held == [p \in {App} |-> bound]
           y    == [req[r] EXCEPT !.at = "bind", !.fresh = {App}, !.held = held]
<1>1. Becomes(r, Ended) \/ Becomes(r, y)
  BY DEF ReadApp
<1>2. /\ y.at = "bind" /\ y.fresh = {App} /\ y.input = req[r].input
      /\ y.todo = req[r].todo /\ DOMAIN y = Fields
  BY DEF Fields
<1>3. req[r].at = "app"
  BY DEF ReadApp, At
<1> HIDE DEF y
<1>4. Going(y)
  BY <1>2, <1>3 DEF Going, Places
<1> QED
  BY <1>1, <1>2, <1>4, EndedGoes, EndedReads

\* The types of what a step leaves alone.
LEMMA SameTypes ==
    /\ StoreTyped /\ UNCHANGED <<store, born, bound>> => StoreTyped'
    /\ ReportsTyped /\ UNCHANGED status => ReportsTyped'
    /\ SecretsTyped /\ UNCHANGED <<secret, born>> => SecretsTyped'
    /\ QueueTyped /\ UNCHANGED queue => QueueTyped'
    /\ WorkTyped /\ UNCHANGED <<work, born>> => WorkTyped'
    /\ PodsTyped /\ UNCHANGED template => PodsTyped'
<1>1. /\ Objects' = Objects /\ Custom' = Custom /\ Data' = Data /\ Envs' = Envs
      /\ Status' = Status /\ Work' = Work /\ Template' = Template
  BY DEF Objects, Custom, Data, Envs, Kinds, Registry, Status, Work, Template
<1>2. StoreTyped /\ UNCHANGED <<store, born, bound>> => StoreTyped'
  BY <1>1 DEF StoreTyped
<1>3. ReportsTyped /\ UNCHANGED status => ReportsTyped'
  BY <1>1 DEF ReportsTyped
<1>4. SecretsTyped /\ UNCHANGED <<secret, born>> => SecretsTyped'
  BY <1>1 DEF SecretsTyped, SecretTyped
<1>5. QueueTyped /\ UNCHANGED queue => QueueTyped'
  BY <1>1 DEF QueueTyped
<1>6. WorkTyped /\ UNCHANGED <<work, born>> => WorkTyped'
  BY <1>1 DEF WorkTyped
<1>7. PodsTyped /\ UNCHANGED template => PodsTyped'
  BY <1>1 DEF PodsTyped
<1> QED
  BY <1>2, <1>3, <1>4, <1>5, <1>6, <1>7

Queued(o) == \E i \in DOMAIN queue : queue[i] = o

\* The queue has o, and what it had.
LEMMA EnqueueIs ==
    ASSUME QueueTyped, NEW o, Enqueue(o)
    PROVE  /\ QueueTyped'
           /\ \A p : Queued(p) => Queued(p)'
           /\ o \in Custom => Queued(o)'
<1> DEFINE new == Append(queue, o)
<1>1. Len(queue) \in Nat /\ DOMAIN queue = 1..Len(queue)
  BY DEF QueueTyped
<1>2. queue' = IF o \notin Custom \/ Queued(o) THEN queue ELSE new
  BY DEF Enqueue, Queued
<1>3. CASE o \notin Custom \/ Queued(o)
  BY <1>2, <1>3, SameTypes DEF Queued
<1>4. CASE o \in Custom /\ ~Queued(o)
  <2> DEFINE C == Custom
  <2> HIDE DEF C
  <2>1. queue \in Seq(C) /\ o \in C
    BY <1>4 DEF C, QueueTyped
  <2>2. /\ new \in Seq(C) /\ DOMAIN new = 1..(Len(queue) + 1)
        /\ \A i \in 1..Len(queue) : new[i] = queue[i]
        /\ new[Len(queue) + 1] = o
    BY <1>1, <2>1
  <2>3. queue' = new
    BY <1>2, <1>4
  <2> HIDE DEF new
  <2>4. ASSUME NEW i \in DOMAIN new, NEW j \in DOMAIN new, new[i] = new[j] PROVE i = j
    <3>1. CASE i \in DOMAIN queue /\ j \in DOMAIN queue
      BY <1>1, <2>2, <2>4, <3>1 DEF QueueTyped
    <3>2. CASE i \in DOMAIN queue /\ j = Len(queue) + 1
      BY <1>1, <1>4, <2>2, <2>4, <3>2 DEF Queued
    <3>3. CASE i = Len(queue) + 1 /\ j \in DOMAIN queue
      BY <1>1, <1>4, <2>2, <2>4, <3>3 DEF Queued
    <3> QED
      BY <1>1, <2>2, <3>1, <3>2, <3>3
  <2>5. Custom' = Custom
    BY Stays
  <2>6. QueueTyped'
    BY <2>2, <2>3, <2>4, <2>5 DEF QueueTyped, C
  <2>7. Len(queue) + 1 \in DOMAIN new
    BY <1>1, <2>2
  <2>8. ASSUME NEW p, Queued(p) PROVE Queued(p)'
    <3>1. PICK i \in DOMAIN queue : queue[i] = p
      BY <2>8 DEF Queued
    <3>2. i \in DOMAIN new /\ new[i] = p
      BY <1>1, <2>2, <3>1
    <3> QED
      BY <2>3, <3>2 DEF Queued
  <2>9. Queued(o)'
    BY <2>2, <2>3, <2>7 DEF Queued
  <2> QED
    BY <2>6, <2>8, <2>9
<1> QED
  BY <1>3, <1>4

LEMMA NewVersionIs ==
    ASSUME PodsTyped, NEW o \in Objects, NewVersion(o)
    PROVE  PodsTyped'
<1>1. ASSUME NEW e \in Envs, o[1] = e PROVE [template[e] EXCEPT !.marks[o[2]] = IF @ = None THEN None ELSE "old"] \in Template
  <2>1. template[e] \in Template
    BY DEF PodsTyped
  <2>2. template[e].marks \in [Kinds -> {None, "this", "old"}] /\ template[e].sources \in SUBSET Kinds
    BY <2>1 DEF Template
  <2> DEFINE m == [template[e].marks EXCEPT ![o[2]] = IF @ = None THEN None ELSE "old"]
  <2>3. m \in [Kinds -> {None, "this", "old"}]
    BY <2>2
  <2>4. [template[e] EXCEPT !.marks[o[2]] = IF @ = None THEN None ELSE "old"] = [template[e] EXCEPT !.marks = m]
    BY <2>1 DEF Template
  <2> HIDE DEF m
  <2> QED
    BY <2>1, <2>3, <2>4 DEF Template
<1>2. template' = [e \in Envs |-> IF o[1] # e THEN template[e]
                     ELSE [template[e] EXCEPT !.marks[o[2]] = IF @ = None THEN None ELSE "old"]]
  BY DEF NewVersion
<1>3. template' \in [Envs -> Template]
  BY <1>1, <1>2 DEF PodsTyped
<1>4. Envs' = Envs /\ Template' = Template
  BY DEF Envs, Template, Kinds
<1> QED
  BY <1>3, <1>4 DEF PodsTyped

\* Objects are only added: the one in hand is one there has been.
LEMMA WorkKept ==
    ASSUME StoreTyped, WorkTyped, born' \in [Objects -> Nat], \A p \in Objects : born[p] <= born'[p],
           work' = work \/ \E o : Outdate(o)
    PROVE  WorkTyped'
<1>1. Work' = Work
  BY DEF Work, Custom, Data, Envs, Registry
<1>2. CASE work' = None
  BY <1>1, <1>2 DEF WorkTyped
<1>3. CASE work' # None
  <2>1. work \in Work /\ work # None /\ work.object \in Objects /\ work.uid \in 1..born[work.object]
    BY <1>3, Stays DEF WorkTyped, Outdate, Work
  <2>2. work' = work \/ \E b \in BOOLEAN : work' = [work EXCEPT !.fresh = b]
    BY <2>1 DEF Outdate, Work
  <2>3. work' \in Work /\ work'.object = work.object /\ work'.uid = work.uid
    BY <2>1, <2>2 DEF Work
  <2>4. born[work.object] \in Nat /\ born'[work.object] \in Nat /\ born[work.object] <= born'[work.object]
    BY <2>1 DEF StoreTyped
  <2>5. work'.uid \in 1..born'[work'.object]
    BY <2>1, <2>3, <2>4
  <2> QED
    BY <1>1, <2>3, <2>5 DEF WorkTyped
<1> QED
  BY <1>2, <1>3

LEMMA SecretsKept ==
    ASSUME StoreTyped, SecretsTyped, born' \in [Objects -> Nat], \A p \in Objects : born[p] <= born'[p],
           secret' = secret
    PROVE  SecretsTyped'
<1>1. ASSUME NEW o \in Custom, secret[o] # None PROVE secret[o].owner \in 1..born'[o]
  <2>1. born[o] \in Nat /\ born'[o] \in Nat /\ born[o] <= born'[o] /\ secret[o].owner \in 1..born[o]
    BY <1>1, Stays DEF StoreTyped, SecretsTyped, SecretTyped
  <2> QED
    BY <2>1
<1>2. Custom' = Custom /\ Data' = Data
  BY Stays DEF Data
<1> QED
  BY <1>1, <1>2 DEF SecretsTyped, SecretTyped

LEMMA ContentIs ==
    ASSUME NEW r \in Requests, Going(req[r]), req[r].at = "put"
    PROVE  Content(r, Object(r)) \in Data
<1> DEFINE in  == req[r].input
           old == OrEmpty(req[r].held[Object(r)])
<1>1. in.data \in Data
  <2>1. IsAsked(in) /\ in.op \in ByGet \cup Direct
    BY DEF Going
  <2> QED
    BY <2>1, KindIs DEF ByGet, ByName, Direct
<1>2. old \in Data
  BY DataIs DEF Going, OrEmpty, Object
<1> HIDE DEF old, in
<1>3. Merge(old, in.data) \in Data
  BY <1>1, <1>2, DataIs
<1>4. Without(Merge(old, in.data), in.keys) \in Data
  BY <1>3, DataIs
<1> QED
  BY <1>1, <1>4 DEF Content, old, in

\* What the operator writes of a template.
LEMMA NewTemplateIs ==
    ASSUME NEW e \in Envs
    PROVE  [sources |-> Sources(e), marks |-> [k \in Kinds |-> Mark(e, k)]] \in Template
<1>1. Sources(e) \subseteq Kinds
  BY DEF Sources, Kinds
<1>2. \A k \in Kinds : Mark(e, k) \in {None, "this", "old"}
  BY DEF Mark
<1> QED
  BY <1>1, <1>2 DEF Template

LEMMA InitTypes ==
    ASSUME Init
    PROVE  TypeInv
<1>1. IInv
  BY InitInv
<1>2. PICK start \in Starts : /\ store = [o \in Objects |-> start.store[o]] /\ bound = start.bound
                              /\ req = [r \in Requests |-> Asks(start.asked[r])]
  BY DEF Init
<1>3. /\ \A o \in Objects : start.store[o] \in Data \cup {None}
      /\ start.bound \subseteq Envs /\ \A r \in Requests : IsAsked(start.asked[r])
  BY <1>2, StartsAssumption DEF Possible
<1>4. RequestsGoOn
  <2>1. ASSUME NEW in, IsAsked(in) PROVE Going(Asks(in))
    BY <2>1 DEF Going, Asks, Places
  <2> QED
    BY <1>2, <1>3, <2>1 DEF RequestsGoOn
<1>5. /\ store \in [Objects -> Data \cup {None}] /\ bound \subseteq Envs
      /\ born = [o \in Objects |-> IF store[o] = None THEN 0 ELSE 1]
  BY <1>2, <1>3 DEF Init
<1>6. StoreTyped
  BY <1>5 DEF StoreTyped
<1>7. ReportsTyped
  <2> DEFINE new(o) == [synced |-> TRUE, invalid |-> DOMAIN store[o] \cap BadKeys]
  <2>1. status = [o \in Objects |-> IF o \notin Custom \/ store[o] = None THEN None ELSE new(o)]
    BY DEF Init
  <2>2. \A o : new(o) \in Status
    BY DEF Status
  <2> HIDE DEF new
  <2> QED
    BY <2>1, <2>2, Stays DEF ReportsTyped
<1>8. SecretsTyped
  <2> SUFFICES ASSUME NEW o \in Custom, secret[o] # None
               PROVE  /\ secret[o].data \in Data /\ DOMAIN secret[o].data \cap BadKeys = {}
                      /\ secret[o].owner \in 1..born[o]
    BY DEF SecretsTyped, SecretTyped
  <2>1. store[o] # None /\ secret[o] = [data |-> ValidKeys(store[o]), owner |-> 1]
    BY DEF Init
  <2>2. store[o] \in Data /\ born[o] = 1
    BY <1>5, <2>1, Stays
  <2> QED
    BY <2>1, <2>2, ValidKeysAre
<1>9. QueueTyped /\ WorkTyped
  BY DEF Init, QueueTyped, WorkTyped
<1>10. PodsTyped
  <2>1. template = [e \in Envs |-> [sources |-> Sources(e), marks |-> [k \in Kinds |-> Mark(e, k)]]]
    BY DEF Init
  <2> QED
    BY <2>1, NewTemplateIs DEF PodsTyped
<1> QED
  BY <1>1, <1>4, <1>6, <1>7, <1>8, <1>9, <1>10 DEF TypeInv

\* A step of a request that only goes on.
LEMMA RequestTypes ==
    ASSUME TypeInv, IInv', RequestsGoOn', UNCHANGED <<api, operator>>
    PROVE  TypeInv'
<1>1. /\ StoreTyped' /\ ReportsTyped' /\ SecretsTyped'
      /\ QueueTyped' /\ WorkTyped' /\ PodsTyped'
  BY SameTypes DEF TypeInv, api, operator
<1> QED
  BY <1>1 DEF TypeInv

LEMMA OfOne ==
    ASSUME TypeInv, NEW r \in Requests
    PROVE  DOMAIN req[r] = Fields /\ Going(req[r]) /\ Reads(req[r])
  BY DEF TypeInv, IInv, Frames, ReadHolds, RequestsGoOn

LEMMA TypesBegin == ASSUME TypeInv, IInv', NEW r \in Requests, Begin(r) PROVE TypeInv'
<1> DEFINE y == [req[r] EXCEPT !.at = Head(Does(r).calls), !.todo = Named(r),
                               !.held = [o \in {Registry} |-> None]]
<1>1. Becomes(r, Ended) \/ Becomes(r, y)
  BY DEF Begin
<1>2. req[r].at = "idle" /\ UNCHANGED <<api, operator>>
  BY DEF Begin, At
<1>3. Going(y)
  BY <1>2, OfOne, BeginGoes
<1>4. DOMAIN y = Fields
  BY OfOne
<1> HIDE DEF y
<1>5. RequestsGoOn'
  BY <1>1, <1>3, <1>4, EndedGoes, EndedReads, OneGoesOn DEF TypeInv
<1> QED
  BY <1>2, <1>5, RequestTypes

LEMMA TypesRead ==
    ASSUME TypeInv, IInv', NEW r \in Requests, List(r) \/ Get(r) \/ ReadApp(r)
    PROVE  TypeInv'
<1>1. \E x : Becomes(r, x) /\ DOMAIN x = Fields /\ Going(x)
  BY OfOne, ListGoes, GetGoes, ReadAppGoes DEF TypeInv
<1>2. RequestsGoOn'
  BY <1>1, OneGoesOn DEF TypeInv
<1>3. UNCHANGED <<api, operator>>
  BY DEF List, Get, ReadApp
<1> QED
  BY <1>2, <1>3, RequestTypes

LEMMA TypesWriteApp == ASSUME TypeInv, IInv', NEW r \in Requests, WriteApp(r) PROVE TypeInv'
<1>1. UNCHANGED <<store, status, born, secret, queue, template>>
  BY DEF WriteApp
<1>2. Becomes(r, Ended) \/ Writes(r, Ended, App)
  BY DEF WriteApp
<1>3. RequestsGoOn'
  BY <1>2, EndedGoes, EndedReads, OneGoesOn DEF TypeInv
<1>4. bound' \subseteq Envs
  <2>1. CASE bound' = bound
    BY <2>1 DEF TypeInv, StoreTyped
  <2>2. CASE App \in req[r].fresh /\ bound' = Chosen(req[r].input, req[r].held[App])
    <3>1. req[r].at = "bind" /\ Going(req[r]) /\ Reads(req[r])
      BY OfOne DEF WriteApp, At
    <3>2. req[r].held[App] = bound
      BY <2>2, <3>1 DEF Reads, Now
    <3>3. req[r].input.op = "bind" => req[r].input.env \in Envs
      BY <3>1 DEF Going, IsAsked
    <3>4. bound \subseteq Envs
      BY DEF TypeInv, StoreTyped
    <3> QED
      BY <2>2, <3>2, <3>3, <3>4 DEF Chosen
  <2> QED
    BY <2>1, <2>2 DEF WriteApp
<1>5. StoreTyped'
  BY <1>1, <1>4, Stays DEF TypeInv, StoreTyped, Data, Envs
<1>6. ReportsTyped' /\ SecretsTyped' /\ QueueTyped' /\ PodsTyped'
  BY <1>1, SameTypes DEF TypeInv
<1>7. WorkTyped'
  <2>1. work' = work \/ \E o : Outdate(o)
    BY DEF WriteApp, Writes
  <2>2. born \in [Objects -> Nat] /\ born' = born /\ \A p \in Objects : born[p] <= born'[p]
    BY <1>1 DEF TypeInv, StoreTyped
  <2> QED
    BY <2>1, <2>2, WorkKept DEF TypeInv
<1> QED
  BY <1>3, <1>5, <1>6, <1>7 DEF TypeInv

LEMMA TypesPut == ASSUME TypeInv, IInv', NEW r \in Requests, Put(r) PROVE TypeInv'
<1> DEFINE o   == Object(r)
           new == Content(r, o)
           x   == AfterPut(r, TRUE)
           y   == AfterPut(r, FALSE)
<1>1. \/ Becomes(r, y) /\ UNCHANGED <<store, born, work, queue, template>>
      \/ /\ store' = [store EXCEPT ![o] = new]
         /\ born' = [born EXCEPT ![o] = IF store[o] = None THEN @ + 1 ELSE @]
         /\ \/ Becomes(r, x) /\ UNCHANGED <<work, queue, template>>
            \/ /\ Writes(r, x, o) /\ Enqueue(o)
               /\ UNCHANGED template \/ NewVersion(o)
  BY DEF Put
<1>2. UNCHANGED <<status, bound, secret>>
  BY DEF Put
<1>3. req[r].at = "put" /\ Going(req[r]) /\ DOMAIN req[r] = Fields
  BY OfOne DEF Put, At
<1>4. /\ DOMAIN x = Fields /\ Going(x)
      /\ DOMAIN y = Fields /\ Going(y)
  BY <1>3, GoingOn, AfterPutGoes DEF TypeInv, IInv
<1>5. o \in Objects /\ new \in Data
  BY <1>3, ObjectIs, ContentIs
<1> HIDE DEF o, new, x, y
<1>6. RequestsGoOn'
  BY <1>1, <1>4, OneGoesOn DEF TypeInv
<1>7. ReportsTyped'
  BY <1>2, SameTypes DEF TypeInv
<1>8. CASE UNCHANGED <<store, born, work, queue, template>>
  <2>1. StoreTyped' /\ SecretsTyped' /\ QueueTyped' /\ WorkTyped' /\ PodsTyped'
    BY <1>2, <1>8, SameTypes DEF TypeInv
  <2> QED
    BY <1>6, <1>7, <2>1 DEF TypeInv
<1>9. CASE /\ store' = [store EXCEPT ![o] = new]
           /\ born' = [born EXCEPT ![o] = IF store[o] = None THEN @ + 1 ELSE @]
           /\ \/ UNCHANGED <<work, queue, template>>
              \/ Outdate(o) /\ Enqueue(o) /\ (UNCHANGED template \/ NewVersion(o))
  <2>1. /\ store' \in [Objects -> Data \cup {None}] /\ born' \in [Objects -> Nat]
        /\ \A p \in Objects : born[p] <= born'[p]
        /\ \A p \in Objects : store'[p] # None => born'[p] # 0
    BY <1>5, <1>9 DEF TypeInv, StoreTyped
  <2>2. StoreTyped'
    BY <1>2, <2>1, Stays DEF TypeInv, StoreTyped, Data, Envs
  <2>3. SecretsTyped'
    BY <1>2, <2>1, SecretsKept DEF TypeInv
  <2>4. WorkTyped'
    BY <1>9, <2>1, WorkKept DEF TypeInv
  <2>5. QueueTyped'
    BY <1>9, SameTypes, EnqueueIs DEF TypeInv
  <2>6. PodsTyped'
    BY <1>5, <1>9, SameTypes, NewVersionIs DEF TypeInv
  <2> QED
    BY <1>6, <1>7, <2>2, <2>3, <2>4, <2>5, <2>6 DEF TypeInv
<1> QED
  BY <1>1, <1>8, <1>9 DEF Writes

LEMMA TypesRemove == ASSUME TypeInv, IInv', NEW r \in Requests, Remove(r) PROVE TypeInv'
<1> DEFINE o == Object(r)
           x == AfterRemove(r)
<1>1. \/ Becomes(r, x) /\ UNCHANGED <<store, status, work, queue>>
      \/ /\ store' = [store EXCEPT ![o] = None] /\ status' = [status EXCEPT ![o] = None]
         /\ Writes(r, x, o) /\ Enqueue(o)
  BY DEF Remove
<1>2. UNCHANGED <<born, bound, secret, template>>
  BY DEF Remove
<1>3. req[r].at = "remove" /\ Going(req[r]) /\ DOMAIN req[r] = Fields
  BY OfOne DEF Remove, At
<1>4. DOMAIN x = Fields /\ Going(x)
  BY <1>3, GoingOn, AfterRemoveGoes DEF TypeInv, IInv
<1> HIDE DEF o, x
<1>5. RequestsGoOn'
  BY <1>1, <1>4, OneGoesOn DEF TypeInv
<1>6. SecretsTyped' /\ PodsTyped'
  BY <1>2, SameTypes DEF TypeInv
<1>7. StoreTyped'
  <2>1. store' \in [Objects -> Data \cup {None}] /\ \A p \in Objects : store'[p] # None => store[p] # None
    BY <1>1 DEF TypeInv, StoreTyped
  <2> QED
    BY <1>2, <2>1, Stays DEF TypeInv, StoreTyped, Data, Envs
<1>8. ReportsTyped'
  <2>1. \A p \in Custom : status'[p] = status[p] \/ status'[p] = None
    BY <1>1, Stays DEF TypeInv, IInv, Frames
  <2> QED
    BY <2>1, Stays DEF TypeInv, ReportsTyped, Status
<1>9. QueueTyped'
  BY <1>1, SameTypes, EnqueueIs DEF TypeInv
<1>10. WorkTyped'
  <2>1. work' = work \/ Outdate(o)
    BY <1>1 DEF Writes
  <2>2. born \in [Objects -> Nat] /\ born' = born /\ \A p \in Objects : born[p] <= born'[p]
    BY <1>2 DEF TypeInv, StoreTyped
  <2> QED
    BY <2>1, <2>2, WorkKept DEF TypeInv
<1> QED
  BY <1>5, <1>6, <1>7, <1>8, <1>9, <1>10 DEF TypeInv

LEMMA TypesRestart == ASSUME TypeInv, IInv', NEW r \in Requests, RestartDeployment(r) PROVE TypeInv'
<1>1. Becomes(r, Ended) /\ UNCHANGED <<api, secret, queue, work, template>>
  BY DEF RestartDeployment
<1>2. RequestsGoOn'
  BY <1>1, EndedGoes, EndedReads, OneGoesOn DEF TypeInv
<1>3. /\ StoreTyped' /\ ReportsTyped' /\ SecretsTyped'
      /\ QueueTyped' /\ WorkTyped' /\ PodsTyped'
  BY <1>1, SameTypes DEF TypeInv, api
<1> QED
  BY <1>2, <1>3 DEF TypeInv

\* The operator takes the head of its queue.
LEMMA TailIs ==
    ASSUME QueueTyped, queue # <<>>, queue' = Tail(queue)
    PROVE  /\ QueueTyped' /\ Head(queue) \in Custom
           /\ \A p : Queued(p) => Queued(p)' \/ p = Head(queue)
<1> DEFINE C == Custom
<1> HIDE DEF C
<1>1. queue \in Seq(C) /\ \A i, j \in DOMAIN queue : queue[i] = queue[j] => i = j
  BY DEF QueueTyped, C
<1>2. /\ Head(queue) = queue[1] /\ Head(queue) \in C
      /\ Tail(queue) \in Seq(C) /\ DOMAIN queue = 1..Len(queue) /\ Len(queue) \in Nat
      /\ DOMAIN Tail(queue) = 1..(Len(queue) - 1)
      /\ \A i \in 1..(Len(queue) - 1) : Tail(queue)[i] = queue[i + 1]
  BY <1>1
<1>3. Custom' = Custom
  BY Stays
<1>4. ASSUME NEW i \in DOMAIN queue', NEW j \in DOMAIN queue', queue'[i] = queue'[j] PROVE i = j
  <2>1. i + 1 \in DOMAIN queue /\ j + 1 \in DOMAIN queue /\ queue[i + 1] = queue[j + 1]
    BY <1>2, <1>4
  <2>2. i + 1 = j + 1 /\ i \in Int /\ j \in Int
    BY <1>1, <1>2, <1>4, <2>1
  <2> QED
    BY <2>2
<1>5. QueueTyped'
  BY <1>2, <1>3, <1>4 DEF QueueTyped, C
<1>6. ASSUME NEW p, Queued(p), p # Head(queue) PROVE Queued(p)'
  <2>1. PICK i \in DOMAIN queue : queue[i] = p
    BY <1>6 DEF Queued
  <2>2. i \in Nat /\ i # 1 /\ i - 1 \in 1..(Len(queue) - 1) /\ (i - 1) + 1 = i
    BY <1>2, <1>6, <2>1
  <2>3. i - 1 \in DOMAIN queue' /\ queue'[i - 1] = p
    BY <1>2, <2>1, <2>2
  <2> QED
    BY <2>3 DEF Queued
<1> QED
  BY <1>2, <1>5, <1>6 DEF C

LEMMA TypesSecretRead == ASSUME TypeInv, IInv', SecretRead PROVE TypeInv'
<1> DEFINE o == Head(queue)
           w == [object |-> o, data |-> store[o], uid |-> born[o], fresh |-> TRUE, at |-> "write"]
<1>1. /\ UNCHANGED <<store, status, born, bound, req, secret, template>>
      /\ queue # <<>> /\ queue' = Tail(queue)
      /\ work' = IF store[o] = None THEN None ELSE w
  BY DEF SecretRead, api
<1>2. QueueTyped' /\ o \in Custom
  BY <1>1, TailIs DEF TypeInv
<1>3. StoreTyped' /\ ReportsTyped' /\ SecretsTyped' /\ PodsTyped'
  BY <1>1, SameTypes DEF TypeInv
<1>4. RequestsGoOn'
  BY <1>1, NoneGoesOn DEF TypeInv
<1>5. WorkTyped'
  <2> HIDE DEF o
  <2>1. /\ store[o] \in Data \cup {None} /\ born[o] \in Nat
        /\ store[o] # None => born[o] # 0
    BY <1>2, Stays DEF TypeInv, StoreTyped
  <2>2. store[o] # None => w \in Work
    BY <1>2, <2>1 DEF Work
  <2>3. Work' = Work
    BY Stays DEF Work, Data
  <2>4. w.uid = born[o] /\ w.object = o
    OBVIOUS
  <2> HIDE DEF w
  <2> QED
    BY <1>1, <2>1, <2>2, <2>3, <2>4 DEF WorkTyped
<1> QED
  BY <1>2, <1>3, <1>4, <1>5 DEF TypeInv

\* The VestaSecret in hand.
LEMMA WorkIs ==
    ASSUME TypeInv, work # None
    PROVE  /\ work \in Work /\ work.object \in Custom /\ work.object \in Objects
           /\ work.data \in Data /\ work.uid \in 1..born[work.object]
  BY Stays DEF TypeInv, WorkTyped, Work

LEMMA TypesSecretWrite == ASSUME TypeInv, IInv', SecretWrite PROVE TypeInv'
<1> DEFINE o   == work.object
           new == [data |-> ValidKeys(work.data), owner |-> work.uid]
<1>1. /\ UNCHANGED <<store, born, bound, status, req>> /\ work # None
      /\ secret' = [secret EXCEPT ![o] = new]
      /\ work' = [work EXCEPT !.at = "status"]
      /\ UNCHANGED <<template, queue>> \/ (NewVersion(o) /\ Enqueue(o))
  BY DEF SecretWrite, api
<1>2. /\ work \in Work /\ o \in Custom /\ o \in Objects /\ work.data \in Data
      /\ work.uid \in 1..born[o]
  BY <1>1, WorkIs
<1>3. new.data \in Data /\ DOMAIN new.data \cap BadKeys = {} /\ new.owner = work.uid
  BY <1>2, ValidKeysAre
<1>4. RequestsGoOn'
  BY <1>1, NoneGoesOn DEF TypeInv
<1>5. StoreTyped' /\ ReportsTyped'
  BY <1>1, SameTypes DEF TypeInv
<1> HIDE DEF new
<1>6. SecretsTyped'
  <2>1. \A p \in Custom : secret'[p] = IF p = o THEN new ELSE secret[p]
    BY <1>1 DEF TypeInv, IInv, Frames
  <2>2. Custom' = Custom /\ Data' = Data
    BY Stays DEF Data
  <2> HIDE DEF o
  <2> QED
    BY <1>1, <1>2, <1>3, <2>1, <2>2 DEF TypeInv, SecretsTyped, SecretTyped, o
<1>7. WorkTyped'
  <2>1. work' \in Work /\ work'.object = o /\ work'.uid = work.uid
    BY <1>1, <1>2 DEF Work
  <2>2. Work' = Work
    BY Stays DEF Work, Data
  <2> QED
    BY <1>1, <1>2, <2>1, <2>2 DEF WorkTyped
<1> HIDE DEF o
<1>8. QueueTyped' /\ PodsTyped'
  BY <1>1, <1>2, SameTypes, EnqueueIs, NewVersionIs DEF TypeInv
<1> QED
  BY <1>4, <1>5, <1>6, <1>7, <1>8 DEF TypeInv

\* The operator is done with the VestaSecret in hand, and may have reported of it.
LEMMA TypesReport ==
    ASSUME TypeInv, IInv', UNCHANGED <<store, born, bound, secret, template>>, NEW o,
           NEW s \in Status, UNCHANGED <<status, req>> \/ Report(o, s),
           queue' = queue \/ Enqueue(o), work' = None
    PROVE  TypeInv'
<1>1. StoreTyped' /\ SecretsTyped' /\ PodsTyped'
  BY SameTypes DEF TypeInv
<1>2. QueueTyped'
  BY SameTypes, EnqueueIs DEF TypeInv
<1>3. WorkTyped'
  BY DEF WorkTyped
<1>4. RequestsGoOn'
  BY NoneGoesOn DEF TypeInv, Report
<1>5. ReportsTyped'
  <2>1. \A p \in Custom : status'[p] = status[p] \/ status'[p] = s
    BY Stays DEF TypeInv, IInv, Frames, Report
  <2> QED
    BY <2>1, Stays DEF TypeInv, ReportsTyped, Status
<1> QED
  BY <1>1, <1>2, <1>3, <1>4, <1>5 DEF TypeInv

LEMMA TypesReported == ASSUME TypeInv, IInv', SecretFails \/ SecretStatus PROVE TypeInv'
<1> DEFINE o    == work.object
           s(b) == [synced |-> b, invalid |-> DOMAIN work.data \cap BadKeys]
<1>1. /\ UNCHANGED <<store, born, bound, secret, template>> /\ work' = None
      /\ queue' = queue \/ Enqueue(o)
  BY DEF SecretFails, SecretStatus
<1>2. \E b \in BOOLEAN : UNCHANGED <<status, req>> \/ Report(o, s(b))
  <2>1. SecretFails => UNCHANGED <<status, req>> \/ Report(o, s(FALSE))
    BY DEF SecretFails
  <2>2. SecretStatus => UNCHANGED <<status, req>> \/ Report(o, s(TRUE))
    BY DEF SecretStatus
  <2> HIDE DEF s
  <2> QED
    BY <2>1, <2>2
<1>3. PICK b \in BOOLEAN : UNCHANGED <<status, req>> \/ Report(o, s(b))
  BY <1>2
<1>4. s(b) \in Status
  BY DEF Status
<1> HIDE DEF s, o
<1> QED
  BY <1>1, <1>3, <1>4, TypesReport

LEMMA TypesCollect == ASSUME TypeInv, IInv', NEW o \in Custom, Collect(o) PROVE TypeInv'
<1>1. /\ UNCHANGED <<store, status, born, bound, req, work>>
      /\ secret' = [secret EXCEPT ![o] = None] /\ NewVersion(o) /\ Enqueue(o)
  BY DEF Collect, api
<1>2. RequestsGoOn' /\ StoreTyped' /\ ReportsTyped' /\ WorkTyped'
  BY <1>1, NoneGoesOn, SameTypes DEF TypeInv
<1>3. QueueTyped' /\ PodsTyped'
  BY <1>1, Stays, EnqueueIs, NewVersionIs DEF TypeInv
<1>4. SecretsTyped'
  <2>1. \A p \in Custom : secret'[p] # None => secret'[p] = secret[p]
    BY <1>1 DEF TypeInv, IInv, Frames
  <2> QED
    BY <1>1, <2>1, Stays DEF TypeInv, SecretsTyped, SecretTyped, Data
<1> QED
  BY <1>2, <1>3, <1>4 DEF TypeInv

LEMMA TypesPods == ASSUME TypeInv, IInv', NEW e \in Envs, ReconcileApp(e) \/ RollOut(e) PROVE TypeInv'
<1>1. UNCHANGED <<store, status, born, bound, req, secret, queue, work>>
  BY DEF ReconcileApp, RollOut, api
<1>2. RequestsGoOn' /\ StoreTyped' /\ ReportsTyped' /\ SecretsTyped' /\ QueueTyped' /\ WorkTyped'
  BY <1>1, NoneGoesOn, SameTypes DEF TypeInv
<1> DEFINE new == [sources |-> Sources(e), marks |-> [k \in Kinds |-> Mark(e, k)]]
<1>3. template' = template \/ template' = [template EXCEPT ![e] = new]
  BY DEF ReconcileApp, RollOut
<1>4. new \in Template
  BY NewTemplateIs
<1> HIDE DEF new
<1>5. template' \in [Envs -> Template]
  BY <1>3, <1>4 DEF TypeInv, PodsTyped
<1>6. Envs' = Envs /\ Template' = Template
  BY DEF Envs, Template, Kinds
<1>7. PodsTyped'
  BY <1>5, <1>6 DEF PodsTyped
<1> QED
  BY <1>2, <1>7 DEF TypeInv

\* Two lists without repetition that share nothing, one after the other.
LEMMA Joined ==
    ASSUME NEW S, NEW a \in Seq(S), NEW b \in Seq(S),
           \A i, j \in DOMAIN a : a[i] = a[j] => i = j,
           \A i, j \in DOMAIN b : b[i] = b[j] => i = j,
           \A i \in DOMAIN a, j \in DOMAIN b : a[i] # b[j]
    PROVE  /\ a \o b \in Seq(S)
           /\ \A i, j \in DOMAIN (a \o b) : (a \o b)[i] = (a \o b)[j] => i = j
           /\ \A i \in DOMAIN (a \o b) :
                 (\E k \in DOMAIN a : (a \o b)[i] = a[k]) \/ (\E k \in DOMAIN b : (a \o b)[i] = b[k])
           /\ \A k \in DOMAIN a : \E i \in DOMAIN (a \o b) : (a \o b)[i] = a[k]
           /\ \A k \in DOMAIN b : \E i \in DOMAIN (a \o b) : (a \o b)[i] = b[k]
<1> DEFINE c == a \o b
           m == Len(a)
           n == Len(b)
<1>1. /\ m \in Nat /\ n \in Nat /\ DOMAIN a = 1..m /\ DOMAIN b = 1..n
      /\ c \in Seq(S) /\ DOMAIN c = 1..(m + n)
      /\ \A i \in 1..m : c[i] = a[i]
      /\ \A i \in 1..(m + n) : i > m => c[i] = b[i - m]
  OBVIOUS
<1> HIDE DEF c, m, n
<1>2. \A i \in 1..(m + n) : i \in 1..m \/ (i > m /\ i - m \in 1..n)
  BY <1>1
<1>3. ASSUME NEW i \in DOMAIN c, NEW j \in DOMAIN c, c[i] = c[j] PROVE i = j
  <2>1. CASE i \in 1..m /\ j \in 1..m
    BY <1>1, <1>3, <2>1
  <2>2. CASE i \in 1..m /\ j > m
    BY <1>1, <1>2, <1>3, <2>2
  <2>3. CASE i > m /\ j \in 1..m
    <3>1. i - m \in DOMAIN b /\ j \in DOMAIN a /\ a[j] = b[i - m]
      BY <1>1, <1>2, <1>3, <2>3
    <3> QED
      BY <3>1
  <2>4. CASE i > m /\ j > m
    <3>1. i - m \in DOMAIN b /\ j - m \in DOMAIN b /\ b[i - m] = b[j - m] /\ i \in Int /\ j \in Int
      BY <1>1, <1>2, <1>3, <2>4
    <3>2. i - m = j - m
      BY <3>1
    <3> QED
      BY <1>1, <3>1, <3>2
  <2> QED
    BY <1>1, <1>2, <1>3, <2>1, <2>2, <2>3, <2>4
<1>4. ASSUME NEW i \in DOMAIN c
      PROVE  (\E k \in DOMAIN a : c[i] = a[k]) \/ (\E k \in DOMAIN b : c[i] = b[k])
  BY <1>1, <1>2
<1>5. \A k \in DOMAIN a : k \in DOMAIN c /\ c[k] = a[k]
  BY <1>1
<1>6. \A k \in DOMAIN b : k + m \in DOMAIN c /\ c[k + m] = b[k]
  BY <1>1
<1> QED
  BY <1>1, <1>3, <1>4, <1>5, <1>6 DEF c

\* A restarted operator hears of each VestaSecret there is, once.
LEMMA AllAreListed ==
    ASSUME OperatorRestarts
    PROVE  QueueTyped' /\ \A o \in Custom : store[o] # None => Queued(o)'
<1> DEFINE own    == InOrder(EnvOrder, "own")
           shared == InOrder(EnvOrder, "shared")
           list   == own \o shared \o <<Registry>>
           C == Custom
<1> HIDE DEF C
<1>1. /\ DOMAIN own = DOMAIN EnvOrder /\ DOMAIN shared = DOMAIN EnvOrder
      /\ Len(own) = Len(EnvOrder) /\ Len(shared) = Len(EnvOrder)
      /\ own \in Seq(Objects) /\ shared \in Seq(Objects)
      /\ \A i \in DOMAIN EnvOrder : own[i] = <<EnvOrder[i], "own">> /\ shared[i] = <<EnvOrder[i], "shared">>
  BY InOrderIs, SecretsAssumption DEF Kinds
<1>2. \A i \in DOMAIN EnvOrder : EnvOrder[i] \in Envs /\ EnvOrder[i] # System
  BY SecretsAssumption DEF Envs
<1> HIDE DEF own, shared
<1>3. own \in Seq(C) /\ shared \in Seq(C)
  <2>1. \A i \in DOMAIN EnvOrder : own[i] \in C /\ shared[i] \in C
    BY <1>1, <1>2, ObjectsAre DEF C
  <2> QED
    BY <1>1, <2>1
<1>4. <<Registry>> \in Seq(C) /\ DOMAIN <<Registry>> = {1} /\ <<Registry>>[1] = Registry
  BY ObjectsAre DEF C
<1>5. /\ \A i, j \in DOMAIN own : own[i] = own[j] => i = j
      /\ \A i, j \in DOMAIN shared : shared[i] = shared[j] => i = j
      /\ \A i \in DOMAIN own, j \in DOMAIN shared : own[i] # shared[j]
      /\ \A i \in DOMAIN EnvOrder : own[i] # Registry /\ shared[i] # Registry
  BY <1>1, <1>2, SecretsAssumption DEF Registry
<1> DEFINE both == own \o shared
<1>6. /\ both \in Seq(C)
      /\ \A i, j \in DOMAIN both : both[i] = both[j] => i = j
      /\ \A i \in DOMAIN both :
            (\E k \in DOMAIN own : both[i] = own[k]) \/ (\E k \in DOMAIN shared : both[i] = shared[k])
      /\ \A k \in DOMAIN own : \E i \in DOMAIN both : both[i] = own[k]
      /\ \A k \in DOMAIN shared : \E i \in DOMAIN both : both[i] = shared[k]
  <2> HIDE DEF both
  <2> QED
    BY <1>3, <1>5, Joined DEF both
<1> HIDE DEF both
<1>7. \A i \in DOMAIN both : both[i] # Registry
  BY <1>1, <1>5, <1>6
<1> DEFINE all == both \o <<Registry>>
           R == <<Registry>>
<1>8. R \in Seq(C) /\ DOMAIN R = {1} /\ R[1] = Registry
  BY <1>4
<1> HIDE DEF R
<1>9. /\ (both \o R) \in Seq(C)
      /\ \A i, j \in DOMAIN (both \o R) : (both \o R)[i] = (both \o R)[j] => i = j
      /\ \A k \in DOMAIN both : \E i \in DOMAIN (both \o R) : (both \o R)[i] = both[k]
      /\ \A k \in DOMAIN R : \E i \in DOMAIN (both \o R) : (both \o R)[i] = R[k]
  <2>1. /\ \A i, j \in DOMAIN R : R[i] = R[j] => i = j
        /\ \A i \in DOMAIN both, j \in DOMAIN R : both[i] # R[j]
    BY <1>7, <1>8
  <2>2. /\ both \in Seq(C) /\ R \in Seq(C)
        /\ \A i, j \in DOMAIN both : both[i] = both[j] => i = j
    BY <1>6, <1>8
  <2> HIDE DEF all, list
  <2> QED
    BY <2>1, <2>2, Joined, Zenon
<1>10. /\ all \in Seq(C)
       /\ \A i, j \in DOMAIN all : all[i] = all[j] => i = j
       /\ \A k \in DOMAIN both : \E i \in DOMAIN all : all[i] = both[k]
       /\ \E i \in DOMAIN all : all[i] = Registry
  BY <1>8, <1>9 DEF R
<1>11. all = list
  BY DEF both
<1>12. queue' = Listed(all)
  BY <1>11 DEF OperatorRestarts, own, shared
<1> HIDE DEF all, list
<1>13. /\ Listed(all) \in Seq(C)
       /\ \A i \in DOMAIN all : store[all[i]] # None =>
             \E k \in DOMAIN Listed(all) : Listed(all)[k] = all[i]
       /\ \A k, l \in DOMAIN Listed(all) : Listed(all)[k] = Listed(all)[l] => k = l
  BY <1>10, ListedIs
<1>14. QueueTyped'
  BY <1>12, <1>13, Stays DEF QueueTyped, C
<1>15. ASSUME NEW o \in Custom PROVE \E i \in DOMAIN all : all[i] = o
  <2>1. CASE o = Registry
    BY <1>10, <2>1
  <2>2. CASE \E e \in Envs : o = <<e, "own">> \/ o = <<e, "shared">>
    <3>1. PICK e \in Envs : o = <<e, "own">> \/ o = <<e, "shared">>
      BY <2>2
    <3>2. PICK i \in DOMAIN EnvOrder : EnvOrder[i] = e
      BY DEF Envs
    <3>3. o = own[i] \/ o = shared[i]
      BY <1>1, <3>1, <3>2
    <3>4. \E k \in DOMAIN both : both[k] = o
      BY <1>1, <1>6, <3>2, <3>3
    <3> QED
      BY <1>10, <3>4
  <2> QED
    BY <2>1, <2>2 DEF Custom
<1>16. ASSUME NEW o \in Custom, store[o] # None PROVE Queued(o)'
  <2>1. PICK i \in DOMAIN all : all[i] = o
    BY <1>15
  <2>2. \E k \in DOMAIN Listed(all) : Listed(all)[k] = o
    BY <1>13, <1>16, <2>1
  <2> QED
    BY <1>12, <2>2 DEF Queued
<1> QED
  BY <1>14, <1>16

LEMMA TypesOperatorRestarts == ASSUME TypeInv, IInv', OperatorRestarts PROVE TypeInv'
<1>1. UNCHANGED <<store, status, born, bound, req, secret, template>> /\ work' = None
  BY DEF OperatorRestarts, api
<1>2. RequestsGoOn' /\ StoreTyped' /\ ReportsTyped' /\ SecretsTyped' /\ PodsTyped'
  BY <1>1, NoneGoesOn, SameTypes DEF TypeInv
<1>3. QueueTyped' /\ WorkTyped'
  BY <1>1, AllAreListed DEF WorkTyped
<1> QED
  BY <1>2, <1>3 DEF TypeInv

LEMMA NextTypes == ASSUME TypeInv, [Next]_vars PROVE TypeInv'
<1>1. IInv'
  BY NextInv DEF TypeInv
<1>2. ASSUME NEW r \in Requests, Begin(r) \/ Step(r) PROVE TypeInv'
  BY <1>1, <1>2, TypesBegin, TypesRead, TypesPut, TypesRemove, TypesRestart, TypesWriteApp DEF Step
<1>3. CASE SecretStep \/ SecretFails
  BY <1>1, <1>3, TypesSecretRead, TypesSecretWrite, TypesReported DEF SecretStep
<1>4. ASSUME NEW o \in Custom, Collect(o) PROVE TypeInv'
  BY <1>1, <1>4, TypesCollect
<1>5. ASSUME NEW e \in Envs, ReconcileApp(e) \/ RollOut(e) PROVE TypeInv'
  BY <1>1, <1>5, TypesPods
<1>6. CASE OperatorRestarts
  BY <1>1, <1>6, TypesOperatorRestarts
<1>7. CASE UNCHANGED vars
  <2>1. UNCHANGED <<api, operator, req>>
    BY <1>7 DEF vars
  <2>2. RequestsGoOn'
    BY <2>1, NoneGoesOn DEF TypeInv
  <2> QED
    BY <1>1, <2>1, <2>2, RequestTypes
<1> QED
  BY <1>2, <1>3, <1>4, <1>5, <1>6, <1>7 DEF Next

LEMMA TypesHold == Spec => []TypeInv
<1>1. Init => TypeInv
  BY InitTypes
<1>2. TypeInv /\ [Next]_vars => TypeInv'
  BY NextTypes
<1> QED
  BY <1>1, <1>2, PTL DEF Spec

\* Objects, requests, Secrets and the operator's queue and work are at every moment what
\* they may be: no Secret holds a key that Kubernetes would not store, a Secret and the
\* VestaSecret in hand belong to an object there has been, and the queue repeats none.
THEOREM TypeCorrect == Spec => []TypeOK
<1>1. TypeInv => TypeOK
  <2> SUFFICES ASSUME TypeInv PROVE TypeOK
    OBVIOUS
  <2>1. \A r \in Requests :
           req[r].at \in Places /\ req[r].fresh \subseteq Objects \cup {App} /\ req[r].todo \in Seq(Objects)
    BY DEF TypeInv, RequestsGoOn, Going
  <2> QED
    BY <2>1 DEF TypeInv, TypeOK, StoreTyped, ReportsTyped, SecretsTyped, SecretTyped, QueueTyped,
       WorkTyped, PodsTyped
<1> QED
  BY <1>1, TypesHold, PTL

-----------------------------------------------------------------------------
(* No change is missed *)

InHand(o) == work # None /\ work.object = o
Seen(o)   == store[o] # None => Pending(o) \/ Reported(o)

LEMMA ForgottenIs == NoneForgotten <=> \A o \in Custom : Seen(o)
  BY DEF NoneForgotten, Seen

\* What a step leaves alone, and leaves where it waits, is not forgotten.
LEMMA SeenStays ==
    ASSUME NEW o, Seen(o), store'[o] = store[o], store[o] # None => born'[o] = born[o],
           secret'[o] = secret[o], status'[o] = status[o],
           Queued(o) \/ InHand(o) => Queued(o)' \/ InHand(o)'
    PROVE  Seen(o)'
  BY DEF Seen, Pending, Reported, ValidKeys, Without, Queued, InHand

\* What waits in the queue is not forgotten.
LEMMA SeenQueued ==
    ASSUME NEW o, Queued(o)'
    PROVE  Seen(o)'
  BY DEF Seen, Pending, Queued

LEMMA HandStays ==
    ASSUME TypeInv, work' = work \/ \E p : Outdate(p), NEW o, InHand(o)
    PROVE  InHand(o)'
<1>1. CASE work' = work
  BY <1>1 DEF InHand
<1>2. ASSUME NEW p, Outdate(p) PROVE InHand(o)'
  <2>1. work \in Work /\ work.object = o /\ work # None
    BY WorkIs DEF InHand
  <2>2. work' = [work EXCEPT !.fresh = @ /\ work.object # p]
    BY <1>2, <2>1 DEF Outdate
  <2>3. work' \in Work /\ work'.object = o
    BY <2>1, <2>2 DEF Work
  <2>4. work' # None
    BY <2>3, SecretsAssumption
  <2> QED
    BY <2>3, <2>4 DEF InHand
<1> QED
  BY <1>1, <1>2

LEMMA SameSeen ==
    ASSUME TypeInv, NoneForgotten, UNCHANGED <<store, born, status, secret, queue>>,
           work' = work \/ \E p : Outdate(p)
    PROVE  NoneForgotten'
<1>1. ASSUME NEW o \in Custom PROVE Seen(o)'
  <2>1. Queued(o) => Queued(o)'
    BY DEF Queued
  <2>2. InHand(o) => InHand(o)'
    BY HandStays
  <2>3. Seen(o)
    BY ForgottenIs
  <2> QED
    BY <2>1, <2>2, <2>3, SeenStays
<1> QED
  BY <1>1, Stays DEF NoneForgotten, Seen

\* One object is written, and the operator hears of it.
LEMMA OneWritten ==
    ASSUME TypeInv, NoneForgotten, NEW o, Enqueue(o),
           \A p \in Custom : p # o => /\ store'[p] = store[p] /\ born'[p] = born[p]
                                      /\ secret'[p] = secret[p] /\ status'[p] = status[p],
           \A p \in Custom : p # o /\ InHand(p) => InHand(p)'
    PROVE  NoneForgotten'
<1>1. /\ \A p : Queued(p) => Queued(p)'
      /\ o \in Custom => Queued(o)'
  BY EnqueueIs DEF TypeInv
<1>2. ASSUME NEW p \in Custom PROVE Seen(p)'
  <2>1. CASE p = o
    BY <1>1, <2>1, SeenQueued
  <2>2. CASE p # o
    <3>1. Seen(p)
      BY ForgottenIs
    <3>2. /\ store'[p] = store[p] /\ born'[p] = born[p]
          /\ secret'[p] = secret[p] /\ status'[p] = status[p]
          /\ Queued(p) \/ InHand(p) => Queued(p)' \/ InHand(p)'
      BY <1>1, <2>2
    <3> QED
      BY <3>1, <3>2, SeenStays
  <2> QED
    BY <2>1, <2>2
<1> QED
  BY <1>2, Stays DEF NoneForgotten, Seen

LEMMA SeenPut == ASSUME TypeInv, NoneForgotten, NEW r \in Requests, Put(r) PROVE NoneForgotten'
<1> DEFINE o   == Object(r)
           new == Content(r, o)
<1>1. \/ UNCHANGED <<store, born, work, queue>>
      \/ /\ store' = [store EXCEPT ![o] = new]
         /\ born' = [born EXCEPT ![o] = IF store[o] = None THEN @ + 1 ELSE @]
         /\ \/ new = store[o] /\ UNCHANGED <<work, queue>>
            \/ Outdate(o) /\ Enqueue(o)
  BY DEF Put, Writes
<1>2. UNCHANGED <<status, secret>>
  BY DEF Put
<1>3. o \in Objects /\ new \in Data
  <2>1. req[r].at = "put" /\ Going(req[r])
    BY OfOne DEF Put, At
  <2> QED
    BY <2>1, ObjectIs, ContentIs
<1>4. new # None
  BY <1>3, SecretsAssumption
<1> HIDE DEF o, new
<1>5. DOMAIN store = Objects /\ DOMAIN born = Objects
  BY DEF TypeInv, IInv, Frames
<1>6. CASE UNCHANGED <<store, born, work, queue>>
  BY <1>2, <1>6, SameSeen
<1>7. CASE /\ store' = [store EXCEPT ![o] = new]
           /\ born' = [born EXCEPT ![o] = IF store[o] = None THEN @ + 1 ELSE @]
           /\ new = store[o] /\ UNCHANGED <<work, queue>>
  <2>1. store' = store /\ born' = born
    BY <1>3, <1>4, <1>7 DEF TypeInv, StoreTyped
  <2> QED
    BY <1>2, <1>7, <2>1, SameSeen
<1>8. CASE /\ store' = [store EXCEPT ![o] = new]
           /\ born' = [born EXCEPT ![o] = IF store[o] = None THEN @ + 1 ELSE @]
           /\ Outdate(o) /\ Enqueue(o)
  <2>1. \A p \in Custom : p # o => /\ store'[p] = store[p] /\ born'[p] = born[p]
                                   /\ secret'[p] = secret[p] /\ status'[p] = status[p]
    BY <1>2, <1>5, <1>8, Stays
  <2>2. \A p \in Custom : InHand(p) => InHand(p)'
    BY <1>8, HandStays
  <2> QED
    BY <1>8, <2>1, <2>2, OneWritten
<1> QED
  BY <1>1, <1>6, <1>7, <1>8

LEMMA SeenRemove == ASSUME TypeInv, NoneForgotten, NEW r \in Requests, Remove(r) PROVE NoneForgotten'
<1> DEFINE o == Object(r)
<1>1. \/ UNCHANGED <<store, status, work, queue>>
      \/ /\ store' = [store EXCEPT ![o] = None] /\ status' = [status EXCEPT ![o] = None]
         /\ Outdate(o) /\ Enqueue(o)
  BY DEF Remove, Writes
<1>2. UNCHANGED <<born, secret>>
  BY DEF Remove
<1> HIDE DEF o
<1>3. CASE UNCHANGED <<store, status, work, queue>>
  BY <1>2, <1>3, SameSeen
<1>4. CASE /\ store' = [store EXCEPT ![o] = None] /\ status' = [status EXCEPT ![o] = None]
           /\ Outdate(o) /\ Enqueue(o)
  <2>1. \A p \in Custom : p # o => /\ store'[p] = store[p] /\ born'[p] = born[p]
                                   /\ secret'[p] = secret[p] /\ status'[p] = status[p]
    BY <1>2, <1>4, Stays DEF TypeInv, IInv, Frames
  <2>2. \A p \in Custom : InHand(p) => InHand(p)'
    BY <1>4, HandStays
  <2> QED
    BY <1>4, <2>1, <2>2, OneWritten
<1> QED
  BY <1>1, <1>3, <1>4

\* The operator's queue is empty of what it takes in hand, unless that is gone.
LEMMA SeenSecretRead == ASSUME TypeInv, NoneForgotten, SecretRead PROVE NoneForgotten'
<1>0. queue # <<>> /\ queue' = Tail(queue)
  BY DEF SecretRead
<1>2. PICK o \in Custom : o = Head(queue) /\ \A p : Queued(p) => Queued(p)' \/ p = o
  BY <1>0, TailIs DEF TypeInv
<1> DEFINE w == [object |-> o, data |-> store[o], uid |-> born[o], fresh |-> TRUE, at |-> "write"]
<1>1. /\ UNCHANGED <<store, status, born, secret>> /\ work = None
      /\ work' = IF store[o] = None THEN None ELSE w
  BY <1>2 DEF SecretRead, api
<1>3. store[o] # None => w \in Work /\ w.object = o
  BY <1>2, Stays DEF TypeInv, StoreTyped, Work
<1>4. store[o] # None => InHand(o)'
  BY <1>1, <1>3, SecretsAssumption DEF InHand
<1> HIDE DEF w
<1>5. ASSUME NEW p \in Custom PROVE Seen(p)'
  <2>1. Seen(p)
    BY ForgottenIs
  <2>2. CASE p = o /\ store[o] = None
    BY <1>1, <2>2 DEF Seen
  <2>3. CASE p # o \/ store[o] # None
    <3>1. Queued(p) \/ InHand(p) => Queued(p)' \/ InHand(p)'
      BY <1>1, <1>2, <1>4, <2>3 DEF InHand
    <3> QED
      BY <1>1, <2>1, <3>1, SeenStays
  <2> QED
    BY <2>2, <2>3
<1> QED
  BY <1>5, Stays DEF NoneForgotten, Seen

LEMMA SeenSecretWrite == ASSUME TypeInv, NoneForgotten, SecretWrite PROVE NoneForgotten'
<1> DEFINE new == [data |-> ValidKeys(work.data), owner |-> work.uid]
<1>0. PICK o \in Custom : o = work.object
  BY WorkIs DEF SecretWrite
<1>1. /\ UNCHANGED <<store, born, status>> /\ work # None
      /\ secret' = [secret EXCEPT ![o] = new]
      /\ work' = [work EXCEPT !.at = "status"]
      /\ queue' = queue \/ Enqueue(o)
  BY <1>0 DEF SecretWrite, api
<1>2. work' \in Work /\ work'.object = o
  BY <1>0, <1>1, WorkIs DEF Work
<1>3. InHand(o)' /\ \A p : InHand(p) => p = o
  BY <1>0, <1>2, SecretsAssumption DEF InHand
<1>4. \A p \in Custom : p # o => secret'[p] = secret[p]
  BY <1>1 DEF TypeInv, IInv, Frames
<1>5. \A p : Queued(p) => Queued(p)'
  BY <1>1, EnqueueIs DEF TypeInv, Queued
<1> HIDE DEF new
<1>6. ASSUME NEW p \in Custom PROVE Seen(p)'
  <2>1. Seen(p)
    BY ForgottenIs
  <2>2. CASE p = o
    BY <1>3, <2>2 DEF Seen, Pending, InHand
  <2>3. CASE p # o
    <3>1. Queued(p) \/ InHand(p) => Queued(p)' \/ InHand(p)'
      BY <1>3, <1>5, <2>3
    <3> QED
      BY <1>1, <1>4, <2>1, <2>3, <3>1, SeenStays
  <2> QED
    BY <2>2, <2>3
<1> QED
  BY <1>6, Stays DEF NoneForgotten, Seen

\* What was in hand is put back, or what is reported of it still holds.
LEMMA SeenReported == ASSUME TypeInv, NoneForgotten, SecretFails \/ SecretStatus PROVE NoneForgotten'
<1> DEFINE s(b) == [synced |-> b, invalid |-> DOMAIN work.data \cap BadKeys]
<1>1. /\ UNCHANGED <<store, born, secret>> /\ work # None /\ work' = None
  BY DEF SecretFails, SecretStatus
<1>0. PICK o \in Custom : o = work.object
  BY <1>1, WorkIs
<1>2. status' = status \/ \E t : status' = [status EXCEPT ![o] = t]
  BY <1>0 DEF SecretFails, SecretStatus, Report
<1>3. \/ Enqueue(o)
      \/ /\ UNCHANGED <<status, queue>> /\ work.fresh /\ work.at = "status" /\ status[o] = s(TRUE)
  BY <1>0 DEF SecretFails, SecretStatus, SameVersion
<1>5. \A p : InHand(p) => p = o
  BY <1>0 DEF InHand
<1>6. CASE Enqueue(o)
  <2>1. \A p \in Custom : p # o => status'[p] = status[p]
    BY <1>2, Stays DEF TypeInv, IInv, Frames
  <2> QED
    BY <1>1, <1>5, <1>6, <2>1, OneWritten
<1>7. CASE UNCHANGED <<status, queue>> /\ work.fresh /\ work.at = "status" /\ status[o] = s(TRUE)
  <2>1. Reported(o)
    <3>1. /\ store[o] = work.data /\ born[o] = work.uid
          /\ secret[o] = [data |-> ValidKeys(work.data), owner |-> work.uid]
      BY <1>0, <1>1, <1>7 DEF TypeInv, IInv, WorkHolds
    <3> QED
      BY <1>7, <3>1 DEF Reported
  <2>2. Reported(o)'
    BY <1>1, <1>7, <2>1 DEF Reported, ValidKeys, Without
  <2> HIDE DEF s
  <2>3. ASSUME NEW p \in Custom PROVE Seen(p)'
    <3>1. CASE p = o
      BY <2>2, <3>1 DEF Seen
    <3>2. CASE p # o
      <4>1. Seen(p)
        BY ForgottenIs
      <4>2. Queued(p) \/ InHand(p) => Queued(p)' \/ InHand(p)'
        BY <1>5, <1>7, <3>2 DEF Queued
      <4> QED
        BY <1>1, <1>7, <4>1, <4>2, SeenStays
    <3> QED
      BY <3>1, <3>2
  <2> QED
    BY <2>3, Stays DEF NoneForgotten, Seen
<1> QED
  BY <1>3, <1>6, <1>7

LEMMA SeenCollect == ASSUME TypeInv, NoneForgotten, NEW o \in Custom, Collect(o) PROVE NoneForgotten'
<1>1. /\ UNCHANGED <<store, status, born, work>>
      /\ secret' = [secret EXCEPT ![o] = None] /\ Enqueue(o)
  BY DEF Collect, api
<1>2. \A p \in Custom : p # o => secret'[p] = secret[p]
  BY <1>1 DEF TypeInv, IInv, Frames
<1>3. \A p \in Custom : InHand(p) => InHand(p)'
  BY <1>1, HandStays
<1> QED
  BY <1>1, <1>2, <1>3, OneWritten

LEMMA NextSeen == ASSUME TypeInv, NoneForgotten, [Next]_vars PROVE NoneForgotten'
<1>1. ASSUME NEW r \in Requests, Begin(r) \/ Step(r) PROVE NoneForgotten'
  <2>1. CASE Put(r)
    BY <2>1, SeenPut
  <2>2. CASE Remove(r)
    BY <2>2, SeenRemove
  <2>3. CASE Begin(r) \/ List(r) \/ Get(r) \/ RestartDeployment(r) \/ ReadApp(r) \/ WriteApp(r)
    <3>1. UNCHANGED <<store, born, status, secret, queue>>
      BY <2>3 DEF Begin, List, Get, RestartDeployment, ReadApp, WriteApp, api, operator
    <3>2. work' = work \/ \E p : Outdate(p)
      BY <2>3 DEF Begin, List, Get, RestartDeployment, ReadApp, WriteApp, operator, Writes
    <3> QED
      BY <3>1, <3>2, SameSeen
  <2> QED
    BY <1>1, <2>1, <2>2, <2>3 DEF Step
<1>2. CASE SecretStep \/ SecretFails
  BY <1>2, SeenSecretRead, SeenSecretWrite, SeenReported DEF SecretStep
<1>3. ASSUME NEW o \in Custom, Collect(o) PROVE NoneForgotten'
  BY <1>3, SeenCollect
<1>4. ASSUME NEW e \in Envs, ReconcileApp(e) \/ RollOut(e) PROVE NoneForgotten'
  <2>1. UNCHANGED <<store, born, status, secret, queue, work>>
    BY <1>4 DEF ReconcileApp, RollOut, api
  <2> QED
    BY <2>1, SameSeen
<1>5. CASE OperatorRestarts
  <2>1. UNCHANGED store
    BY <1>5 DEF OperatorRestarts, api
  <2>2. \A o \in Custom : store[o] # None => Queued(o)'
    BY <1>5, AllAreListed
  <2>3. \A o \in Custom : Seen(o)'
    BY <2>1, <2>2 DEF Seen, Pending, Queued
  <2> QED
    BY <2>3, Stays DEF NoneForgotten, Seen
<1>6. CASE UNCHANGED vars
  <2>1. UNCHANGED <<store, born, status, secret, queue, work>>
    BY <1>6 DEF vars, api, operator
  <2> QED
    BY <2>1, SameSeen
<1> QED
  BY <1>1, <1>2, <1>3, <1>4, <1>5, <1>6 DEF Next

LEMMA InitSeen == ASSUME Init PROVE NoneForgotten
<1> SUFFICES ASSUME NEW o \in Custom, store[o] # None PROVE Reported(o)
  BY DEF NoneForgotten
<1>1. born[o] = 1 /\ secret[o] = [data |-> ValidKeys(store[o]), owner |-> 1]
  BY Stays DEF Init
<1>2. status[o] = [synced |-> TRUE, invalid |-> DOMAIN store[o] \cap BadKeys]
  BY Stays DEF Init
<1> QED
  BY <1>1, <1>2 DEF Reported

\* The operator misses no change: whatever was refused, restarted, deleted and made anew, a
\* VestaSecret that it neither has in its queue nor works on is in its Secret as it is now,
\* and reported so.  That it comes to work off its queue, so that SecretsSync holds, is
\* checked.
THEOREM ChangesAreSeen == Spec => []NoneForgotten
<1>1. Init => NoneForgotten
  BY InitSeen
<1>2. TypeInv /\ NoneForgotten /\ [Next]_vars => NoneForgotten'
  BY NextSeen
<1> QED
  BY <1>1, <1>2, TypesHold, PTL DEF Spec

\* However requests meet, what one writes of secrets, variables and bindings keeps what it is
\* not about as the last write has it.
THEOREM SecretWritesAreKept == Spec => WritesKept
<1>1. IInv /\ [Next]_vars => [(\A o \in Objects : DataKept(o)) /\ BindingKept]_vars
  BY KeepsData, KeepsBinding
<1> QED
  BY <1>1, InvHolds, PTL DEF Spec, WritesKept

\* A VestaSecret is reported as synced only while its Secret holds its valid keys.
THEOREM SyncedHolds == Spec => SyncedIsTrue
<1>1. IInv /\ [Next]_vars => [\A o \in Custom : ReportHolds(o)]_vars
  BY ReportsHold
<1> QED
  BY <1>1, InvHolds, PTL DEF Spec, SyncedIsTrue

=============================================================================
