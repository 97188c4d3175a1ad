-------------------------- MODULE Administration_proofs --------------------------
(***************************************************************************)
(* For any number of users and requests, and any statements that fail:     *)
(* passwords are set by those who have shown what it takes, reset codes    *)
(* end, no key goes beyond the role of its owner, and an invite is taken   *)
(* once.                                                                   *)
(***************************************************************************)
EXTENDS Accounts, SelfUpdate, SequenceTheorems, TLAPS

\* Every variable has its type, and who asks for something has a name.
Types ==
    /\ account \in [Users -> Account \cup {None}]
    /\ invites \in Seq(Token) /\ resets \in Seq(Token)
    /\ keys \subseteq Key
    /\ req \in [Requests -> Request]
    /\ \A r \in Requests :
          /\ req[r].op # None => req[r].user \in Users
          /\ req[r].op \in {"register", "invite"} => req[r].wants \in Roles

\* Whoever holds something, or is to get it, has an account.
Owners ==
    /\ \A i \in DOMAIN invites : Exists(invites[i].user)
    /\ \A i \in DOMAIN resets : Exists(resets[i].user)
    /\ \A r \in Requests :
          \/ req[r].op \in {"accept", "reset", "change", "key"}
          \/ At(r, "invite", "token") \/ At(r, "forgot", "insert")
          => Exists(req[r].user)

\* The password of the user is among those the user had since the request began.
Remembered ==
    \A r \in Requests : req[r].op # None /\ Exists(req[r].user) =>
        account[req[r].user].password \in req[r].held

\* What a request shows is its user's, and what it could not use then it cannot use now.
Shows(q, i, r) ==
    /\ i \in DOMAIN q
    /\ q[i].user = req[r].user
    /\ i \notin req[r].open => q[i].used

\* What has been shown is as it must be for the password to be set.
Proven ==
    \A r \in Requests :
        /\ req[r].op = "accept" => Shows(invites, req[r].given, r)
        /\ At(r, "accept", "set") => req[r].given \in req[r].open
        /\ req[r].op = "reset" => Shows(resets, req[r].given, r)
        /\ At(r, "reset", "set") => req[r].given \in req[r].open
        /\ At(r, "change", "set") => req[r].given \in req[r].held

\* The codes sent before the request began are of no use.
EarlierUsed(r) == \A i \in 1..req[r].earlier : resets[i].user = req[r].user => resets[i].used

\* A request for a code withdraws what there was, before it makes another.
Answered ==
    \A r \in Requests :
        /\ req[r].earlier <= Len(resets)
        /\ At(r, "forgot", "insert") /\ req[r].clean => EarlierUsed(r)

\* The keys somebody knows of: some may have been revoked.
Known == keys \cup {req[r].given : r \in {x \in Requests : req[x].op \in {"revoke", "call"}}}

\* A key is called after the request that made it, and is within the role of its owner; one that
\* was revoked before a call is not there again.
KeysKnown ==
    /\ \A k \in Known : /\ k \in Key /\ Exists(k.user)
                        /\ At(k.id, "key", "done")
                        /\ k.scopes \subseteq Within(account[k.user].role)
    /\ \A r \in Requests : req[r].op = "call" =>
          /\ req[r].wants \in Routes
          /\ req[r].given \in keys => req[r].given \in req[r].open
          /\ req[r].at = "owner" => req[r].given \in req[r].open

\* A request takes one invite at most.
TakesOne == \A r \in Requests : req[r].op = None \/ At(r, "accept", "begun") => req[r].took = None

IInv == Types /\ Owners /\ Remembered /\ Proven /\ Answered /\ CodesEnd /\ KeysKnown /\ KeysBounded
        /\ TakesOne

-----------------------------------------------------------------------------
(* Steps *)

\* What a step of a request that has begun leaves of it.
Same(x) ==
    /\ req'[x].op = req[x].op /\ req'[x].user = req[x].user
    /\ req'[x].given = req[x].given /\ req'[x].wants = req[x].wants
    /\ req'[x].open = req[x].open /\ req'[x].earlier = req[x].earlier
    /\ req[x].held \subseteq req'[x].held
    /\ req'[x].clean => req[x].clean

\* The step is r's: the others stay where they are.
Moves(r) ==
    /\ req' \in [Requests -> Request]
    /\ \A x \in Requests : Same(x)
    /\ \A x \in Requests \ {r} :
          req'[x].at = req[x].at /\ req'[x].took = req[x].took /\ req'[x].clean = req[x].clean

\* r goes on to the place.
MovesTo(r, place) == Moves(r) /\ req'[r].at = place /\ req'[r].took = req[r].took

\* A request goes on.
LEMMA Goes ==
    ASSUME Types, NEW r \in Requests, NEW place \in Places, Becomes(r, Place(r, place))
    PROVE  MovesTo(r, place) /\ req'[r].clean = req[r].clean /\ req'[r].held = req[r].held
  <1> DEFINE x == [req[r] EXCEPT !.at = place]
  <1>1. req[r] \in Request
    BY DEF Types
  <1>2. /\ x \in Request /\ x.at = place
        /\ \A f \in {"op", "user", "given", "wants", "open", "earlier", "took", "clean", "held"} :
              x[f] = req[r][f]
    BY <1>1 DEF Request
  <1>3. req' = [req EXCEPT ![r] = x]
    BY DEF Becomes, Place
  <1>4. QED
    <2> HIDE DEF x
    <2>1. QED
      BY <1>2, <1>3 DEF Types, MovesTo, Moves, Same

\* What may be written of a request.
LEMMA RequestUpdates ==
    ASSUME NEW q \in Request, NEW place \in Places, NEW held \in SUBSET (Requests \cup {None})
    PROVE  /\ [q EXCEPT !.held = held, !.at = place] \in Request
           /\ [[q EXCEPT !.at = place] EXCEPT !.clean = FALSE] \in Request
  <1>1. [q EXCEPT !.at = place] \in Request
    BY DEF Request
  <1>2. [q EXCEPT !.held = held] \in Request
    BY DEF Request
  <1>3. QED
    BY <1>1, <1>2 DEF Request

\* A statement fails.
LEMMA GoesOnFailing ==
    ASSUME Types, NEW r \in Requests, NEW place \in Places, Fails(r, place)
    PROVE  MovesTo(r, place) /\ ~req'[r].clean /\ req'[r].held = req[r].held
  <1> DEFINE x == [[req[r] EXCEPT !.at = place] EXCEPT !.clean = FALSE]
  <1>1. req[r] \in Request
    BY DEF Types
  <1>2. x \in Request
    BY <1>1, RequestUpdates, {} \in SUBSET (Requests \cup {None})
  <1>3. req' = [req EXCEPT ![r] = x]
    BY DEF Fails, Becomes, Place
  <1>4. /\ x.op = req[r].op /\ x.user = req[r].user /\ x.given = req[r].given
        /\ x.wants = req[r].wants /\ x.open = req[r].open /\ x.earlier = req[r].earlier
        /\ x.held = req[r].held /\ x.clean = FALSE /\ x.at = place /\ x.took = req[r].took
    BY <1>1 DEF Request
  <1>5. QED
    <2> HIDE DEF x
    <2>1. QED
      BY <1>2, <1>3, <1>4 DEF Types, MovesTo, Moves, Same

\* A request goes on, and its user has the password p, which others of the user remember.
LEMMA GoesOnWith ==
    ASSUME Types, NEW r \in Requests, NEW u \in Users, NEW p \in Requests, NEW place \in Places,
           Ends(r, u, p, place)
    PROVE  /\ MovesTo(r, place) /\ req'[r].clean = req[r].clean
           /\ \A x \in Requests : req[x].user = u => p \in req'[x].held
  <1> DEFINE P(x) == IF x = r THEN place ELSE req[x].at
  <1>1. \A x \in Requests : /\ Holds(x, u, p) \in SUBSET (Requests \cup {None})
                            /\ req[x].held \subseteq Holds(x, u, p)
    BY DEF Types, Holds, Request
  <1>2. \A x \in Requests : req[x] \in Request /\ P(x) \in Places
    BY DEF Types, Request
  <1>3. \A x \in Requests : req'[x] = [req[x] EXCEPT !.held = Holds(x, u, p), !.at = P(x)]
    BY DEF Ends
  <1>4. ASSUME NEW x \in Requests
        PROVE  /\ req'[x] \in Request /\ Same(x) /\ req'[x].at = P(x) /\ req'[x].took = req[x].took
               /\ req'[x].clean = req[x].clean /\ req'[x].held = Holds(x, u, p)
    <2> DEFINE h == Holds(x, u, p)
               q == req[x]
               to == P(x)
    <2>1. q \in Request /\ h \in SUBSET (Requests \cup {None}) /\ q.held \subseteq h /\ to \in Places
      BY <1>1, <1>2
    <2>2. req'[x] = [q EXCEPT !.held = h, !.at = to]
      BY <1>3
    <2> HIDE DEF h, q, to
    <2>3. [q EXCEPT !.held = h, !.at = to] \in Request
      BY <2>1, RequestUpdates
    <2>4. /\ req'[x].at = to /\ req'[x].held = h
          /\ req'[x].op = q.op /\ req'[x].user = q.user /\ req'[x].given = q.given
          /\ req'[x].wants = q.wants /\ req'[x].open = q.open /\ req'[x].earlier = q.earlier
          /\ req'[x].took = q.took /\ req'[x].clean = q.clean
      BY <2>1, <2>2 DEF Request
    <2>5. QED
      BY <2>1, <2>2, <2>3, <2>4 DEF Same, h, q, to
  <1>5. req' \in [Requests -> Request]
    BY <1>4 DEF Ends
  <1>6. QED
    BY <1>4, <1>5 DEF MovesTo, Moves, Holds

\* Invites and codes stay, and a used one stays used.
Kept(q, s) ==
    /\ Len(q) <= Len(s)
    /\ \A i \in DOMAIN q : /\ i \in DOMAIN s
                           /\ s[i].user = q[i].user
                           /\ q[i].used => s[i].used

\* Accounts stay, in their roles.
Grown ==
    /\ \A u \in Users : Exists(u) => account'[u] # None /\ account'[u].role = account[u].role
    /\ Kept(invites, invites') /\ Kept(resets, resets')

\* The keys after a step of r: some of those there were, or one that r has made.
KeysAfter(r) ==
    \A k \in keys' : \/ k \in keys
                     \/ /\ k \in Key /\ k.id = r /\ Exists(k.user)
                        /\ k.scopes \subseteq Within(account[k.user].role)
                        /\ At(r, "key", "begun") /\ At(r, "key", "done")'

\* The names and the invites refer to accounts.
OwnersAfter ==
    /\ \A i \in DOMAIN invites' : account'[invites'[i].user] # None
    /\ \A i \in DOMAIN resets' : account'[resets'[i].user] # None

\* What has to hold of r at the place it has come to.
Arrived(r) ==
    /\ At(r, "invite", "token")' \/ At(r, "forgot", "insert")' => account'[req[r].user] # None
    /\ At(r, "accept", "set")' => req[r].given \in req[r].open
    /\ At(r, "accept", "begun")' => req'[r].took = None
    /\ At(r, "reset", "set")' => req[r].given \in req[r].open
    /\ At(r, "change", "set")' => req[r].given \in req[r].held
    /\ At(r, "forgot", "insert")' \/ At(r, "forgot", "done")' => (req'[r].clean => EarlierUsed(r)')
    /\ At(r, "reset", "done")' /\ req'[r].clean => resets'[req[r].given].used
    /\ At(r, "call", "owner")' \/ At(r, "call", "done")' => req[r].given \in req[r].open
    /\ At(r, "call", "done")' =>
          req[r].wants.scopes \cap Within(account[req[r].given.user].role) # {}
    /\ req[r].op # None /\ req[r].at # "done"

\* A step of a request keeps the invariant, when it leaves what has been recorded and comes to
\* a place it may come to.
LEMMA Preserves ==
    ASSUME IInv, NEW r \in Requests, Moves(r), Types', Remembered', Grown, KeysAfter(r), OwnersAfter,
           Arrived(r)
    PROVE  IInv'
  <1> USE DEF IInv
  <1>1. ASSUME NEW x \in Requests, x # r
        PROVE  req'[x].at = req[x].at /\ req'[x].took = req[x].took /\ req'[x].clean = req[x].clean
    BY <1>1 DEF Moves
  <1>2. \A x \in Requests : Same(x)
    BY DEF Moves
  <1>3. Owners'
    <2>1. ASSUME NEW x \in Requests,
                 \/ req[x].op \in {"accept", "reset", "change", "key"}
                 \/ At(x, "invite", "token")' \/ At(x, "forgot", "insert")'
          PROVE  account'[req[x].user] # None
      <3>1. \/ x = r /\ (At(x, "invite", "token")' \/ At(x, "forgot", "insert")')
            \/ Exists(req[x].user)
        BY <1>1, <1>2, <2>1 DEF Owners, At, Same
      <3>2. req[x].user \in Users
        <4>1. req[x].op # None
          BY <1>2, <2>1, AccountsAssumption DEF At, Same, Operations
        <4>2. QED
          BY <4>1 DEF Types
      <3>3. QED
        BY <3>1, <3>2 DEF Arrived, Grown
    <2>2. QED
      BY <1>2, <2>1 DEF Owners, OwnersAfter, Exists, Same
  <1>4. Proven'
    <2>1. \A x \in Requests : Shows(invites, req[x].given, x) => Shows(invites, req[x].given, x)'
      BY <1>2 DEF Shows, Same, Grown, Kept
    <2>2. \A x \in Requests : Shows(resets, req[x].given, x) => Shows(resets, req[x].given, x)'
      BY <1>2 DEF Shows, Same, Grown, Kept
    <2>3. \A x \in Requests : At(x, "accept", "set")' \/ At(x, "reset", "set")' => req[x].given \in req[x].open
      BY <1>1, <1>2 DEF Proven, Arrived, Same, At
    <2>4. \A x \in Requests : At(x, "change", "set")' => req[x].given \in req'[x].held
      BY <1>1, <1>2 DEF Proven, Arrived, Same, At
    <2>5. QED
      BY <1>2, <2>1, <2>2, <2>3, <2>4 DEF Proven, Same, At
  <1>5. Answered' /\ CodesEnd'
    <2>1. ASSUME NEW x \in Requests
          PROVE  req[x].earlier <= Len(resets') /\ (EarlierUsed(x) => EarlierUsed(x)')
      <3>1. req[x].earlier \in Nat /\ Len(resets) \in Nat /\ Len(resets') \in Nat
        BY DEF Types, Request
      <3>2. DOMAIN resets = 1 .. Len(resets)
        BY DEF Types
      <3>3. req[x].earlier <= Len(resets) /\ Len(resets) <= Len(resets')
        BY DEF Answered, Grown, Kept
      <3>4. QED
        BY <1>2, <3>1, <3>2, <3>3 DEF EarlierUsed, Same, Grown, Kept
    <2>2. Answered'
      BY <1>1, <1>2, <2>1 DEF Answered, Arrived, Same, At
    <2>3. ASSUME NEW x \in Requests PROVE At(x, "forgot", "done")' /\ req'[x].clean => EarlierUsed(x)'
      BY <1>1, <1>2, <2>1, <2>3 DEF CodesEnd, EarlierUsed, Arrived, Same, At
    <2>4. ASSUME NEW x \in Requests
          PROVE  At(x, "reset", "done")' /\ req'[x].clean => resets'[req[x].given].used
      BY <1>1, <1>2, <2>4 DEF CodesEnd, Arrived, Same, At, Grown, Kept, Proven, Shows
    <2>5. CodesEnd'
      BY <1>2, <2>3, <2>4 DEF CodesEnd, EarlierUsed, Same, At
    <2>6. QED
      BY <2>2, <2>5
  <1>6. \A k \in Known : k \in keys' => k \in keys
    BY DEF KeysKnown, KeysAfter, At
  <1>7. KeysKnown'
    <2>1. \A k \in Known' : k \in Known \/ k \in keys' \ keys
      BY <1>2 DEF Known, Same
    <2>2. ASSUME NEW k \in Known
          PROVE  /\ k \in Key /\ At(k.id, "key", "done")'
                 /\ account'[k.user] # None /\ k.scopes \subseteq Within(account'[k.user].role)
      <3>1. k \in Key /\ At(k.id, "key", "done") /\ k.id # r
        BY DEF KeysKnown, Arrived, At
      <3>2. At(k.id, "key", "done")'
        BY <1>1, <1>2, <3>1 DEF At, Same, Key
      <3>3. k.user \in Users /\ Exists(k.user) /\ k.scopes \subseteq Within(account[k.user].role)
        BY <3>1 DEF KeysKnown, Key
      <3>4. QED
        BY <3>1, <3>2, <3>3 DEF Grown
    <2>3. ASSUME NEW k \in keys' \ keys
          PROVE  /\ k \in Key /\ At(k.id, "key", "done")'
                 /\ account'[k.user] # None /\ k.scopes \subseteq Within(account'[k.user].role)
      BY DEF KeysAfter, Grown, Key
    <2>4. \A k \in Known' : /\ k \in Key /\ Exists(k.user)'
                            /\ At(k.id, "key", "done")'
                            /\ k.scopes \subseteq Within(account'[k.user].role)
      BY <2>1, <2>2, <2>3 DEF Exists
    <2>5. ASSUME NEW x \in Requests, req[x].op = "call"
          PROVE  /\ req'[x].wants \in Routes
                 /\ req[x].given \in keys' => req[x].given \in req[x].open
                 /\ req'[x].at = "owner" => req[x].given \in req[x].open
      <3>1. req[x].given \in Known
        BY <2>5 DEF Known
      <3>2. QED
        BY <1>1, <1>2, <1>6, <2>5, <3>1 DEF KeysKnown, Arrived, Same, At
    <2>6. QED
      BY <1>2, <2>4, <2>5 DEF KeysKnown, Same
  <1>8. KeysBounded'
    <2>1. \A k \in keys' : k.scopes \subseteq Within(account'[k.user].role)
      BY <1>7 DEF KeysKnown, Known
    <2>2. ASSUME NEW x \in Requests, At(x, "call", "done")'
          PROVE  /\ req[x].given \in req[x].open
                 /\ req[x].wants.scopes \cap Within(account'[req[x].given.user].role) # {}
      <3>1. req[x].given \in Known
        BY <1>2, <2>2 DEF Known, At, Same
      <3>2. req[x].given.user \in Users /\ Exists(req[x].given.user)
        BY <3>1 DEF KeysKnown, Key
      <3>3. account'[req[x].given.user].role = account[req[x].given.user].role
        BY <3>2 DEF Grown
      <3>4. QED
        BY <1>1, <1>2, <2>2, <3>3 DEF KeysBounded, Arrived, Same, At
    <2>3. QED
      BY <1>2, <2>1, <2>2 DEF KeysBounded, Same, At
  <1>9. TakesOne'
    BY <1>1, <1>2 DEF TakesOne, Arrived, Same, At
  <1>10. QED
    BY <1>3, <1>4, <1>5, <1>7, <1>8, <1>9

\* Requests keep their types.
LEMMA RequestTypes ==
    ASSUME IInv, NEW r \in Requests, Moves(r),
           account' \in [Users -> Account \cup {None}],
           invites' \in Seq(Token), resets' \in Seq(Token), keys' \subseteq Key
    PROVE  Types'
  BY DEF IInv, Types, Moves, Same

\* Nothing recorded is lost in a step that records nothing.
LEMMA Unchanged ==
    ASSUME IInv, NEW r \in Requests, Moves(r)
    PROVE  /\ account' = account => Remembered' /\ \A u \in Users : Exists(u) =>
                    account'[u] # None /\ account'[u].role = account[u].role
           /\ invites' = invites => Kept(invites, invites')
           /\ resets' = resets => Kept(resets, resets')
           /\ keys' = keys => KeysAfter(r)
           /\ account' = account /\ invites' = invites /\ resets' = resets => OwnersAfter
  <1>1. Len(invites) \in Nat /\ Len(resets) \in Nat
    BY DEF IInv, Types
  <1>2. QED
    BY <1>1 DEF IInv, Remembered, Exists, Moves, Same, Kept, KeysAfter, OwnersAfter, Owners

\* So a step that only brings a request to another place keeps the invariant.
LEMMA Quiet ==
    ASSUME IInv, NEW r \in Requests, Moves(r), Arrived(r), UNCHANGED <<account, invites, resets, keys>>
    PROVE  IInv'
  <1>1. Types'
    BY RequestTypes DEF IInv, Types
  <1>2. QED
    BY <1>1, Unchanged, Preserves DEF Grown

\* All is well at the start.
LEMMA InitInv == Init => IInv
  <1> SUFFICES ASSUME Init PROVE IInv
    OBVIOUS
  <1> USE AccountsAssumption, StartsAssumption DEF Init
  <1>1. Types
    <2>1. NewRequest \in Request
      BY DEF NewRequest, Request, Places, Given
    <2>2. QED
      BY <2>1 DEF Types, NewRequest, Operations
  <1>2. \A r \in Requests : req[r].op = None /\ req[r].took = None /\ req[r].earlier = 0
    BY DEF NewRequest
  <1>3. Owners
    BY <1>2 DEF Owners, Exists, At, Operations
  <1>4. Remembered /\ TakesOne
    BY <1>2 DEF Remembered, TakesOne
  <1>5. Proven
    BY <1>2 DEF Proven, At, Operations
  <1>6. Answered /\ CodesEnd
    <2>1. Len(resets) \in Nat
      BY <1>1 DEF Types
    <2>2. QED
      BY <1>2, <2>1 DEF Answered, CodesEnd, At, Operations
  <1>7. Known = {}
    BY <1>2 DEF Known, Operations
  <1>8. KeysKnown /\ KeysBounded
    BY <1>2, <1>7 DEF KeysKnown, KeysBounded, At, Operations
  <1>9. QED
    BY <1>1, <1>3, <1>4, <1>5, <1>6, <1>8 DEF IInv

\* A request begins with what may be shown, and remembers what there is.
LEMMA BeginStep ==
    ASSUME IInv, NEW r \in Requests, Begin(r)
    PROVE  IInv'
  <1> USE AccountsAssumption DEF IInv
  <1>1. PICK op \in Ops, u \in Users :
          /\ Signed(op, u)
          /\ \E g \in Shown(op, u), w \in Wanted(op) :
                Becomes(r, [op |-> op, at |-> "begun", user |-> u, given |-> g, wants |-> w, took |-> None,
                            open |-> Usable(op),
                            held |-> IF Exists(u) THEN {account[u].password} ELSE {},
                            earlier |-> Len(resets), clean |-> TRUE])
    BY DEF Begin
  <1>1a. PICK g \in Shown(op, u), w \in Wanted(op) :
                Becomes(r, [op |-> op, at |-> "begun", user |-> u, given |-> g, wants |-> w, took |-> None,
                            open |-> Usable(op),
                            held |-> IF Exists(u) THEN {account[u].password} ELSE {},
                            earlier |-> Len(resets), clean |-> TRUE])
    BY <1>1
  <1>2. /\ req[r].op = None
        /\ UNCHANGED <<account, team, invites, resets, keys>>
    BY DEF Begin
  <1> DEFINE held == IF Exists(u) THEN {account[u].password} ELSE {}
             q == [op |-> op, at |-> "begun", user |-> u, given |-> g, wants |-> w, took |-> None,
                   open |-> Usable(op), held |-> held, earlier |-> Len(resets), clean |-> TRUE]
  <1>3. req' = [req EXCEPT ![r] = q]
    BY <1>1a DEF Becomes
  <1>4. Types'
    <2>1. held \in SUBSET (Requests \cup {None})
      BY DEF Types, Account, Exists
    <2>2. Usable(op) \in SUBSET (Nat \cup Key)
      BY DEF Usable, Unused, Types
    <2>3. g \in Given
      <3>1. DOMAIN invites \subseteq Nat /\ DOMAIN resets \subseteq Nat
        BY DEF Types
      <3>2. \A x \in Users : Exists(x) => account[x].password \in Requests \cup {None}
        BY DEF Types, Account, Exists
      <3>3. \A x \in Requests : req[x].given \in Given
        BY DEF Types, Request
      <3>4. keys \subseteq Given /\ Asked \subseteq Given /\ None \in Given
        BY DEF Types, Given
      <3>5. QED
        BY <3>1, <3>2, <3>3, <3>4 DEF Shown, Given
    <2>4. w \in Roles \cup Routes \cup {None} /\ (op \in {"register", "invite"} => w \in Roles)
      BY DEF Wanted
    <2>5. q \in Request
      <3>1. Len(resets) \in Nat
        BY DEF Types
      <3>2. QED
        BY <2>1, <2>2, <2>3, <2>4, <3>1 DEF Request, Places
    <2>6. QED
      <3> HIDE DEF q
      <3>1. req' \in [Requests -> Request]
        BY <1>3, <2>5 DEF Types
      <3>2. q.user \in Users /\ (q.op \in {"register", "invite"} => q.wants \in Roles)
        BY <2>4 DEF q
      <3>3. QED
        BY <1>2, <1>3, <3>1, <3>2 DEF Types
  <1>5. /\ req'[r] = q
        /\ \A x \in Requests : x # r => req'[x] = req[x]
    BY <1>3 DEF Types
  <1> HIDE DEF q
  <1>6. /\ q.op = op /\ q.op # None /\ q.at = "begun" /\ q.user = u /\ q.given = g /\ q.wants = w
        /\ q.took = None /\ q.open = Usable(op) /\ q.held = held /\ q.earlier = Len(resets)
    BY DEF q, Operations
  <1>7. Owners'
    <2>1. q.op \in {"accept", "reset", "change", "key"} => Exists(u)
      BY <1>1, <1>6 DEF Owners, Shown, Signed
    <2>2. QED
      BY <1>2, <1>5, <1>6, <2>1 DEF Owners, Exists, At
  <1>8. Remembered'
    BY <1>2, <1>5, <1>6 DEF Remembered, Exists
  <1>9. Proven'
    <2>1. /\ q.op = "accept" => g \in DOMAIN invites /\ invites[g].user = u /\ q.open = Unused(invites)
          /\ q.op = "reset" => g \in DOMAIN resets /\ resets[g].user = u /\ q.open = Unused(resets)
      BY <1>6 DEF Shown, Usable
    <2>2. QED
      BY <1>2, <1>5, <1>6, <2>1 DEF Proven, Shows, Unused, At
  <1>10. Answered' /\ CodesEnd'
    <2>1. Len(resets) \in Nat
      BY DEF Types
    <2>2. QED
      BY <1>2, <1>5, <1>6, <2>1 DEF Answered, CodesEnd, EarlierUsed, At
  <1>11. \A k \in Known' : k \in Known
    <2>1. q.op \in {"revoke", "call"} => g \in Known
      BY <1>6 DEF Shown, Known
    <2>2. QED
      BY <1>2, <1>5, <1>6, <2>1 DEF Known
  <1>12. KeysKnown' /\ KeysBounded'
    <2>1. \A x \in Requests : At(x, "key", "done") => At(x, "key", "done")'
      BY <1>2, <1>5 DEF At, Operations
    <2>2. \A k \in Known' : /\ k \in Key /\ Exists(k.user)' /\ At(k.id, "key", "done")'
                            /\ k.scopes \subseteq Within(account'[k.user].role)
      BY <1>2, <1>11, <2>1 DEF KeysKnown, Exists, Key
    <2>3. op = "call" => w \in Routes /\ q.open = keys
      BY <1>6 DEF Wanted, Usable
    <2>4. QED
      BY <1>2, <1>5, <1>6, <2>2, <2>3 DEF KeysKnown, KeysBounded, At, Known
  <1>13. TakesOne'
    BY <1>5, <1>6 DEF TakesOne, At
  <1>14. QED
    BY <1>4, <1>7, <1>8, <1>9, <1>10, <1>12, <1>13

-----------------------------------------------------------------------------
(* Handlers *)

\* An account is made where there is none.
LEMMA CreateUserKeeps ==
    ASSUME IInv, NEW r \in Requests, NEW role \in Roles, NEW next \in Places, req[r].op # None,
           CreateUser(r, role, next)
    PROVE  /\ Moves(r) /\ req'[r].at \in {next, "failed"} /\ req'[r].took = req[r].took
           /\ req'[r].at = "failed" \/ account'[req[r].user] # None
           /\ account' \in [Users -> Account \cup {None}] /\ Remembered'
           /\ \A u \in Users : Exists(u) => account'[u] = account[u]
  <1> DEFINE u == req[r].user
             a == [role |-> role, password |-> r]
  <1> USE DEF IInv
  <1>1. u \in Users
    BY DEF Types
  <1>2. a \in Account /\ a # None
    BY StartsAssumption DEF Account
  <1>3. CASE ~Exists(u) /\ account' = [account EXCEPT ![u] = a] /\ Ends(r, u, r, next)
    <2> HIDE DEF u, a
    <2>1. MovesTo(r, next) /\ \A x \in Requests : req[x].user = u => r \in req'[x].held
      BY <1>1, <1>3, GoesOnWith
    <2>2. Remembered'
      <3>1. a.password = r
        BY DEF a
      <3>2. ASSUME NEW x \in Requests, req[x].op # None, account'[req[x].user] # None
            PROVE  account'[req[x].user].password \in req'[x].held
        BY <1>1, <1>3, <2>1, <3>1, <3>2 DEF Remembered, Types, Exists, MovesTo, Moves, Same
      <3>3. QED
        BY <2>1, <3>2 DEF Remembered, Exists, MovesTo, Moves, Same
    <2>3. QED
      BY <1>1, <1>2, <1>3, <2>1, <2>2 DEF Types, Exists, MovesTo, u
  <1>4. CASE (Becomes(r, Place(r, "failed")) \/ Fails(r, "failed")) /\ account' = account
    <2>1. MovesTo(r, "failed")
      BY <1>4, Goes, GoesOnFailing DEF Places
    <2>2. QED
      BY <1>4, <2>1, Unchanged DEF MovesTo, Types
  <1>5. QED
    BY <1>3, <1>4 DEF CreateUser

\* A password is set in an account that there is.
LEMMA UpdatePasswordKeeps ==
    ASSUME IInv, NEW r \in Requests, NEW next \in Places, req[r].op # None, Exists(req[r].user),
           UpdatePassword(r, next)
    PROVE  /\ Moves(r) /\ req'[r].at \in {next, "failed"} /\ req'[r].took = req[r].took
           /\ account' \in [Users -> Account \cup {None}] /\ Remembered'
           /\ \A u \in Users : Exists(u) => account'[u] # None /\ account'[u].role = account[u].role
           /\ \A u \in Users : account'[u] # account[u] => /\ u = req[r].user
                                                            /\ account'[u].password = r
                                                            /\ req'[r].at = next
           /\ UNCHANGED <<invites, resets, keys>>
  <1> DEFINE u == req[r].user
             a == [account[u] EXCEPT !.password = r]
  <1> USE DEF IInv
  <1>1. u \in Users /\ account[u] \in Account
    BY DEF Types, Exists
  <1>2. a \in Account /\ a # None /\ a.role = account[u].role /\ a.password = r
    BY <1>1, StartsAssumption DEF Account
  <1>3. CASE account' = [account EXCEPT ![u].password = r] /\ Ends(r, u, r, next)
    <2>1. account' = [account EXCEPT ![u] = a]
      BY <1>3
    <2> HIDE DEF u, a
    <2>2. MovesTo(r, next) /\ \A x \in Requests : req[x].user = u => r \in req'[x].held
      BY <1>1, <1>3, GoesOnWith
    <2>3. Remembered'
      <3>1. ASSUME NEW x \in Requests, req[x].op # None, account'[req[x].user] # None
            PROVE  account'[req[x].user].password \in req'[x].held
        BY <1>1, <1>2, <2>1, <2>2, <3>1 DEF Remembered, Types, Exists, MovesTo, Moves, Same
      <3>2. QED
        BY <2>2, <3>1 DEF Remembered, Exists, MovesTo, Moves, Same
    <2>4. QED
      BY <1>1, <1>2, <2>1, <2>2, <2>3 DEF Types, Exists, MovesTo, u, UpdatePassword
  <1>4. CASE Fails(r, "failed") /\ account' = account
    <2>1. MovesTo(r, "failed")
      BY <1>4, GoesOnFailing DEF Places
    <2>2. QED
      BY <1>4, <2>1, Unchanged DEF MovesTo, Types, UpdatePassword
  <1>5. QED
    BY <1>3, <1>4 DEF UpdatePassword

\* Owners stay when accounts do.
LEMMA OwnersStay ==
    ASSUME IInv, UNCHANGED <<invites, resets>>,
           \A u \in Users : Exists(u) => account'[u] # None
    PROVE  OwnersAfter
  <1>1. /\ \A i \in DOMAIN invites : invites[i].user \in Users
        /\ \A i \in DOMAIN resets : resets[i].user \in Users
    <2>1. \A i \in DOMAIN invites : invites[i] \in Token
      BY DEF IInv, Types
    <2>2. \A i \in DOMAIN resets : resets[i] \in Token
      BY DEF IInv, Types
    <2>3. QED
      BY <2>1, <2>2 DEF Token
  <1>2. QED
    BY <1>1 DEF IInv, Owners, OwnersAfter

\* An invite or a code is added.
LEMMA AddedKept ==
    ASSUME NEW q \in Seq(Token), NEW t \in Token, NEW s, s = Append(q, t)
    PROVE  /\ s \in Seq(Token) /\ Kept(q, s) /\ Len(s) = Len(q) + 1
           /\ \A i \in DOMAIN s : (i \in DOMAIN q /\ s[i] = q[i]) \/ (i = Len(q) + 1 /\ s[i] = t)
  BY DEF Kept

\* Setup.
LEMMA SetupStep ==
    ASSUME IInv, NEW r \in Requests, Setup(r)
    PROVE  IInv'
  <1> USE DEF IInv
  <1>1. /\ req[r].op = "setup" /\ req[r].op # None /\ req[r].at # "done"
        /\ UNCHANGED <<invites, resets, keys>>
    BY AccountsAssumption DEF Setup, CountUsers, SetupUser, SetupTeam, SetupMember, At, Operations
  <1>2. CASE SetupUser(r)
    <2>1. CreateUser(r, "admin", "team")
      BY <1>2 DEF SetupUser
    <2>2. /\ Moves(r) /\ account' \in [Users -> Account \cup {None}] /\ Remembered'
          /\ \A u \in Users : Exists(u) => account'[u] = account[u]
      BY <1>1, <2>1, CreateUserKeeps DEF Roles, Places
    <2>3. Types'
      BY <1>1, <2>2, RequestTypes DEF Types
    <2>4. Grown /\ KeysAfter(r)
      BY <1>1, <2>2, Unchanged DEF Grown, Exists
    <2>5. OwnersAfter
      BY <1>1, <2>2, OwnersStay DEF Exists
    <2>6. Arrived(r)
      BY <1>1, <2>2 DEF Arrived, At, Moves, Same
    <2>7. QED
      BY <2>2, <2>3, <2>4, <2>5, <2>6, Preserves
  <1>3. CASE CountUsers(r) \/ SetupTeam(r) \/ SetupMember(r)
    <2>1. Moves(r) /\ UNCHANGED account
      BY <1>3, Goes, GoesOnFailing DEF CountUsers, SetupTeam, SetupMember, MovesTo, Places
    <2>2. Arrived(r)
      BY <1>1, <2>1 DEF Arrived, At, Moves, Same
    <2>3. QED
      BY <1>1, <2>1, <2>2, Quiet
  <1>4. QED
    BY <1>2, <1>3 DEF Setup

\* An account is made by an administrator.
LEMMA RegisterStep ==
    ASSUME IInv, NEW r \in Requests, Register(r)
    PROVE  IInv'
  <1> USE DEF IInv
  <1>1. /\ req[r].op \in {"register", "invite"} /\ req[r].op # None /\ req[r].at # "done"
        /\ UNCHANGED <<invites, resets, keys>>
    BY AccountsAssumption DEF Register, At, Operations
  <1> DEFINE next == IF req[r].op = "invite" THEN "token" ELSE "done"
  <1>2. next \in Places /\ req[r].wants \in Roles /\ CreateUser(r, req[r].wants, next)
    BY <1>1 DEF Places, Types, Register
  <1> HIDE DEF next
  <1>3. /\ Moves(r) /\ account' \in [Users -> Account \cup {None}] /\ Remembered'
        /\ req'[r].at = "failed" \/ account'[req[r].user] # None
        /\ \A u \in Users : Exists(u) => account'[u] = account[u]
    BY <1>1, <1>2, CreateUserKeeps
  <1>4. Types'
    BY <1>1, <1>3, RequestTypes DEF Types
  <1>5. Grown /\ KeysAfter(r)
    BY <1>1, <1>3, Unchanged DEF Grown, Exists
  <1>6. OwnersAfter
    BY <1>1, <1>3, OwnersStay DEF Exists
  <1>7. Arrived(r)
    BY <1>1, <1>3 DEF Arrived, At, Moves, Same
  <1>8. QED
    BY <1>3, <1>4, <1>5, <1>6, <1>7, Preserves

\* The invite of an account is stored.
LEMMA InviteStep ==
    ASSUME IInv, NEW r \in Requests, CreateInvite(r)
    PROVE  IInv'
  <1> USE DEF IInv
  <1> DEFINE t == [user |-> req[r].user, used |-> FALSE]
  <1>1. /\ req[r].op = "invite" /\ req[r].op # None /\ req[r].at # "done" /\ Exists(req[r].user)
        /\ UNCHANGED <<account, resets, keys>>
    BY AccountsAssumption DEF CreateInvite, At, Operations, Owners
  <1>2. t \in Token /\ t.user = req[r].user
    BY <1>1 DEF Types, Token
  <1> HIDE DEF t
  <1>3. Moves(r) /\ (invites' = Append(invites, t) \/ invites' = invites)
    BY Goes, GoesOnFailing DEF CreateInvite, MovesTo, Places, t
  <1>4. Len(invites) \in Nat
    BY DEF Types
  <1>5. /\ invites' \in Seq(Token) /\ Kept(invites, invites')
        /\ \A i \in DOMAIN invites' : Exists(invites'[i].user)
    <2>1. CASE invites' = invites
      BY <1>4, <2>1 DEF Types, Kept, Owners
    <2>2. CASE invites' = Append(invites, t)
      <3>1. \A i \in DOMAIN invites' : \/ i \in DOMAIN invites /\ invites'[i] = invites[i]
                                       \/ invites'[i] = t
        BY <1>2, <2>2, AddedKept DEF Types
      <3>2. \A i \in DOMAIN invites : Exists(invites[i].user)
        BY DEF Owners
      <3>3. QED
        BY <1>1, <1>2, <2>2, <3>1, <3>2, AddedKept DEF Types
    <2>3. QED
      BY <1>3, <2>1, <2>2
  <1>6. Types'
    BY <1>1, <1>3, <1>5, RequestTypes DEF Types
  <1>7. Grown /\ KeysAfter(r) /\ Remembered'
    BY <1>1, <1>3, <1>5, Unchanged DEF Grown
  <1>8. OwnersAfter
    BY <1>1, <1>5 DEF Owners, OwnersAfter, Exists
  <1>9. Arrived(r)
    BY <1>1, <1>3 DEF Arrived, At, Moves, Same, Exists
  <1>10. QED
    BY <1>3, <1>6, <1>7, <1>8, <1>9, Preserves

\* An invite or a code is marked as used.
Marked(q, g) == [q EXCEPT ![g].used = TRUE]

LEMMA MarkedKept ==
    ASSUME NEW q \in Seq(Token), NEW g \in DOMAIN q
    PROVE  /\ Marked(q, g) \in Seq(Token) /\ Kept(q, Marked(q, g)) /\ Marked(q, g)[g].used
           /\ DOMAIN Marked(q, g) = DOMAIN q
           /\ \A i \in DOMAIN q : /\ Marked(q, g)[i].user = q[i].user
                                  /\ i # g => Marked(q, g)[i] = q[i]
  <1> DEFINE t == [q[g] EXCEPT !.used = TRUE]
             s == Marked(q, g)
  <1>1. q[g] \in Token /\ Len(q) \in Nat /\ DOMAIN q = 1 .. Len(q) /\ q \in [1 .. Len(q) -> Token]
    OBVIOUS
  <1>2. t \in Token /\ t.user = q[g].user /\ t.used
    BY <1>1 DEF Token
  <1>3. s = [q EXCEPT ![g] = t]
    BY DEF Marked
  <1> HIDE DEF t, s
  <1>4. /\ s \in [1 .. Len(q) -> Token] /\ DOMAIN s = DOMAIN q
        /\ \A i \in DOMAIN q : s[i] = IF i = g THEN t ELSE q[i]
    BY <1>1, <1>2, <1>3
  <1>5. s \in Seq(Token) /\ Len(s) = Len(q)
    BY <1>1, <1>4
  <1>6. QED
    BY <1>1, <1>2, <1>4, <1>5 DEF Kept, s

\* A request takes an invite.
LEMMA GoesTaking ==
    ASSUME Types, NEW r \in Requests, NEW place \in Places, NEW i \in Nat,
           \/ Becomes(r, [Place(r, place) EXCEPT !.took = i])
           \/ Becomes(r, [Place(r, place) EXCEPT !.took = i, !.clean = FALSE])
    PROVE  Moves(r) /\ req'[r].at = place /\ req'[r].took = i
  <1>1. req[r] \in Request
    BY DEF Types
  <1>2. PICK x : /\ req' = [req EXCEPT ![r] = x]
                 /\ \/ x = [Place(r, place) EXCEPT !.took = i]
                    \/ x = [Place(r, place) EXCEPT !.took = i, !.clean = FALSE]
    BY DEF Becomes
  <1>3. Place(r, place) \in Request
    BY <1>1 DEF Place, Request
  <1>4. /\ x \in Request /\ x.took = i /\ x.at = place /\ x.held = req[r].held
        /\ x.op = req[r].op /\ x.user = req[r].user /\ x.given = req[r].given
        /\ x.wants = req[r].wants /\ x.open = req[r].open /\ x.earlier = req[r].earlier
        /\ x.clean => req[r].clean
    BY <1>1, <1>2, <1>3 DEF Request, Place
  <1>5. QED
    BY <1>2, <1>4 DEF Types, Moves, Same

\* An invite is accepted: it is taken while it can be used, and the password set.
LEMMA AcceptStep ==
    ASSUME IInv, NEW r \in Requests, Accept(r)
    PROVE  IInv'
  <1> USE DEF IInv
  <1> DEFINE g == req[r].given
  <1>1. /\ req[r].op = "accept" /\ req[r].op # None /\ req[r].at # "done" /\ Exists(req[r].user)
        /\ Shows(invites, g, r) /\ UNCHANGED <<resets, keys>>
    BY AccountsAssumption
       DEF Accept, TakeInvite, AcceptInvite, UpdatePassword, At, Operations, Owners, Proven
  <1>2. CASE AcceptInvite(r)
    <2>1. UpdatePassword(r, "done")
      BY <1>2 DEF AcceptInvite
    <2>2. /\ Moves(r) /\ req'[r].at \in {"done", "failed"}
          /\ account' \in [Users -> Account \cup {None}] /\ Remembered'
          /\ \A u \in Users : Exists(u) => account'[u] # None /\ account'[u].role = account[u].role
          /\ UNCHANGED <<invites, resets, keys>>
      BY <1>1, <2>1, UpdatePasswordKeeps DEF Places
    <2>3. Types' /\ Grown /\ KeysAfter(r) /\ OwnersAfter
      BY <2>2, RequestTypes, Unchanged, OwnersStay DEF Types, Grown
    <2>4. Arrived(r)
      BY <1>1, <2>2 DEF Arrived, At, Moves, Same
    <2>5. QED
      BY <2>2, <2>3, <2>4, Preserves
  <1>3. CASE TakeInvite(r)
    <2>1. UNCHANGED account
      BY <1>3 DEF TakeInvite
    <2>2. CASE Becomes(r, Place(r, "failed")) /\ UNCHANGED invites
      <3>1. Moves(r) /\ req'[r].at = "failed"
        BY <2>2, Goes DEF MovesTo, Places
      <3>2. Arrived(r)
        BY <1>1, <3>1 DEF Arrived, At, Moves, Same
      <3>3. QED
        BY <1>1, <2>1, <2>2, <3>1, <3>2, Quiet
    <2>3. CASE /\ ~invites[g].used /\ invites' = [invites EXCEPT ![g].used = TRUE]
               /\ \/ Becomes(r, [Place(r, "set") EXCEPT !.took = g])
                  \/ Becomes(r, [Place(r, "failed") EXCEPT !.took = g, !.clean = FALSE])
      <3>1. g \in DOMAIN invites /\ g \in Nat /\ g \in req[r].open
        BY <1>1, <2>3 DEF Shows, Types
      <3>2. Moves(r) /\ req'[r].at \in {"set", "failed"}
        BY <2>3, <3>1, GoesTaking DEF Places
      <3>3. /\ invites' \in Seq(Token) /\ Kept(invites, invites')
            /\ \A i \in DOMAIN invites' : Exists(invites'[i].user)
        <4>1. \A i \in DOMAIN invites : Exists(invites[i].user)
          BY DEF Owners
        <4>2. invites \in Seq(Token) /\ invites' = Marked(invites, g)
          BY <2>3 DEF Types, Marked
        <4>3. /\ invites' \in Seq(Token) /\ Kept(invites, invites')
              /\ \A i \in DOMAIN invites' : i \in DOMAIN invites /\ invites'[i].user = invites[i].user
          BY <3>1, <4>2, MarkedKept
        <4>4. QED
          BY <4>1, <4>3
      <3>4. Types' /\ Grown /\ KeysAfter(r) /\ Remembered'
        BY <1>1, <2>1, <3>2, <3>3, RequestTypes, Unchanged DEF Types, Grown
      <3>5. OwnersAfter
        BY <1>1, <2>1, <3>3 DEF Owners, OwnersAfter, Exists
      <3>6. Arrived(r)
        BY <1>1, <3>1, <3>2 DEF Arrived, At, Moves, Same
      <3>7. QED
        BY <3>2, <3>4, <3>5, <3>6, Preserves
    <2>4. QED
      BY <1>3, <2>2, <2>3 DEF TakeInvite, TakesInvite
  <1>4. QED
    BY <1>2, <1>3 DEF Accept

\* A password is changed by its user.
LEMMA ChangeStep ==
    ASSUME IInv, NEW r \in Requests, Change(r)
    PROVE  IInv'
  <1> USE DEF IInv
  <1>1. /\ req[r].op = "change" /\ req[r].op # None /\ req[r].at # "done" /\ Exists(req[r].user)
        /\ UNCHANGED <<invites, resets, keys>>
    BY AccountsAssumption DEF Change, CheckPassword, ChangePassword, UpdatePassword, At, Operations, Owners
  <1>2. CASE ChangePassword(r)
    <2>1. UpdatePassword(r, "done")
      BY <1>2 DEF ChangePassword
    <2>2. /\ Moves(r) /\ req'[r].at \in {"done", "failed"}
          /\ account' \in [Users -> Account \cup {None}] /\ Remembered'
          /\ \A u \in Users : Exists(u) => account'[u] # None /\ account'[u].role = account[u].role
      BY <1>1, <2>1, UpdatePasswordKeeps DEF Places
    <2>3. Types' /\ Grown /\ KeysAfter(r) /\ OwnersAfter
      BY <1>1, <2>2, RequestTypes, Unchanged, OwnersStay DEF Types, Grown
    <2>4. Arrived(r)
      BY <1>1, <2>2 DEF Arrived, At, Moves, Same
    <2>5. QED
      BY <2>2, <2>3, <2>4, Preserves
  <1>3. CASE CheckPassword(r)
    <2>1. /\ Moves(r) /\ UNCHANGED account
          /\ req'[r].at = "set" => req[r].given = account[req[r].user].password
      BY <1>3, Goes, GoesOnFailing DEF CheckPassword, MovesTo, Places
    <2>2. req'[r].at = "set" => req[r].given \in req[r].held
      BY <1>1, <2>1 DEF Remembered
    <2>3. Arrived(r)
      BY <1>1, <1>3, <2>1, <2>2, Goes, GoesOnFailing DEF Arrived, At, Moves, Same
    <2>4. QED
      BY <1>1, <2>1, <2>3, Quiet
  <1>4. QED
    BY <1>2, <1>3 DEF Change

\* The codes of a user are withdrawn.
LEMMA WithdrawnKept ==
    ASSUME Types, NEW u \in Users
    PROVE  /\ Withdrawn(u) \in Seq(Token) /\ Kept(resets, Withdrawn(u))
           /\ \A i \in DOMAIN resets : /\ Withdrawn(u)[i].user = resets[i].user
                                       /\ resets[i].user = u => Withdrawn(u)[i].used
           /\ DOMAIN Withdrawn(u) = DOMAIN resets
  <1> DEFINE t(i) == [resets[i] EXCEPT !.used = @ \/ resets[i].user = u]
             s == Withdrawn(u)
  <1>1. \A i \in DOMAIN resets : resets[i] \in Token
    BY DEF Types
  <1>2. \A i \in DOMAIN resets : /\ t(i) \in Token /\ t(i).user = resets[i].user
                                 /\ resets[i].used => t(i).used
                                 /\ resets[i].user = u => t(i).used
    BY <1>1 DEF Token
  <1>3. Len(resets) \in Nat /\ DOMAIN resets = 1 .. Len(resets)
    BY DEF Types
  <1>4. DOMAIN s = 1 .. Len(resets) /\ \A i \in DOMAIN resets : s[i] = t(i)
    BY <1>3 DEF Withdrawn
  <1>5. s \in [1 .. Len(resets) -> Token]
    BY <1>2, <1>3 DEF Withdrawn
  <1> HIDE DEF t, s
  <1>6. s \in Seq(Token) /\ Len(s) = Len(resets)
    BY <1>3, <1>5
  <1>7. QED
    BY <1>2, <1>3, <1>4, <1>6 DEF Kept, s

\* A reset code is asked for: the earlier ones are withdrawn, and another is made.
LEMMA ForgotStep ==
    ASSUME IInv, NEW r \in Requests, Forgot(r)
    PROVE  IInv'
  <1> USE DEF IInv
  <1>1. /\ req[r].op = "forgot" /\ req[r].op # None /\ req[r].at # "done" /\ req[r].user \in Users
        /\ UNCHANGED <<account, invites, keys>>
    BY AccountsAssumption DEF Forgot, WithdrawCodes, InsertCode, At, Operations, Types
  <1>2. /\ Len(resets) \in Nat /\ DOMAIN resets = 1 .. Len(resets)
        /\ req[r].earlier \in Nat /\ req[r].earlier <= Len(resets)
    BY DEF Types, Request, Answered
  <1>3. \A i \in DOMAIN resets : Exists(resets[i].user)
    BY DEF Owners
  <1>4. CASE WithdrawCodes(r)
    <2>1. CASE ~Exists(req[r].user) /\ Becomes(r, Place(r, "done")) /\ UNCHANGED resets
      <3>1. Moves(r) /\ req'[r].at = "done"
        BY <2>1, Goes DEF MovesTo, Places
      <3>2. EarlierUsed(r)'
        BY <1>2, <1>3, <2>1, <3>1 DEF EarlierUsed, Moves, Same
      <3>3. Arrived(r)
        BY <1>1, <3>1, <3>2 DEF Arrived, At, Moves, Same
      <3>4. QED
        BY <1>1, <2>1, <3>1, <3>3, Quiet
    <2>2. CASE Exists(req[r].user) /\ Fails(r, "insert") /\ UNCHANGED resets
      <3>1. Moves(r) /\ req'[r].at = "insert" /\ ~req'[r].clean
        BY <2>2, GoesOnFailing DEF MovesTo, Places
      <3>2. Arrived(r)
        BY <1>1, <2>2, <3>1 DEF Arrived, At, Moves, Same, Exists
      <3>3. QED
        BY <1>1, <2>2, <3>1, <3>2, Quiet
    <2>3. CASE /\ Exists(req[r].user) /\ resets' = Withdrawn(req[r].user)
               /\ Becomes(r, Place(r, "insert"))
      <3>1. Moves(r) /\ req'[r].at = "insert"
        BY <2>3, Goes DEF MovesTo, Places
      <3>2. /\ resets' \in Seq(Token) /\ Kept(resets, resets') /\ DOMAIN resets' = DOMAIN resets
            /\ \A i \in DOMAIN resets : /\ resets'[i].user = resets[i].user
                                        /\ resets[i].user = req[r].user => resets'[i].used
        BY <1>1, <2>3, WithdrawnKept
      <3>3. EarlierUsed(r)'
        BY <1>2, <3>1, <3>2 DEF EarlierUsed, Moves, Same
      <3>4. OwnersAfter
        <4>1. \A i \in DOMAIN resets' : account'[resets'[i].user] # None
          BY <1>1, <1>3, <3>2 DEF Exists
        <4>2. QED
          BY <1>1, <4>1 DEF OwnersAfter, Owners, Exists
      <3>5. Types' /\ Grown /\ KeysAfter(r) /\ Remembered'
        BY <1>1, <3>1, <3>2, RequestTypes, Unchanged DEF Types, Grown
      <3>6. Arrived(r)
        BY <1>1, <2>3, <3>1, <3>3 DEF Arrived, At, Moves, Same, Exists
      <3>7. QED
        BY <3>1, <3>4, <3>5, <3>6, Preserves
    <2>4. QED
      BY <1>4, <2>1, <2>2, <2>3 DEF WithdrawCodes
  <1>5. CASE InsertCode(r)
    <2> DEFINE t == [user |-> req[r].user, used |-> FALSE]
    <2>1. t \in Token /\ t.user = req[r].user /\ Exists(req[r].user)
      BY <1>1, <1>5 DEF Token, Owners, InsertCode
    <2> HIDE DEF t
    <2>2. /\ Moves(r) /\ req'[r].at = "done"
          /\ \/ resets' = Append(resets, t)
             \/ resets' = resets /\ ~req'[r].clean
      BY <1>5, Goes, GoesOnFailing DEF InsertCode, MovesTo, Places, t
    <2>3. /\ resets' \in Seq(Token) /\ Kept(resets, resets')
          /\ \A i \in DOMAIN resets' : (i \in DOMAIN resets /\ resets'[i] = resets[i]) \/ resets'[i] = t
      BY <1>2, <2>1, <2>2, AddedKept DEF Types, Kept
    <2>4. OwnersAfter
      <3>1. \A i \in DOMAIN resets' : account'[resets'[i].user] # None
        BY <1>1, <1>3, <2>1, <2>3 DEF Exists
      <3>2. QED
        BY <1>1, <3>1 DEF OwnersAfter, Owners, Exists
    <2>5. Types' /\ Grown /\ KeysAfter(r) /\ Remembered'
      BY <1>1, <2>2, <2>3, RequestTypes, Unchanged DEF Types, Grown
    <2>6. req'[r].clean => EarlierUsed(r)'
      <3>1. req'[r].clean => req[r].clean
        BY <2>2 DEF Moves, Same
      <3>2. req'[r].clean => EarlierUsed(r)
        BY <1>5, <3>1 DEF Answered, InsertCode
      <3>3. EarlierUsed(r) => EarlierUsed(r)'
        BY <1>2, <2>2, <2>3 DEF EarlierUsed, Moves, Same, Kept
      <3>4. QED
        BY <3>2, <3>3
    <2>7. Arrived(r)
      BY <1>1, <2>2, <2>6 DEF Arrived, At, Moves, Same
    <2>8. QED
      BY <2>2, <2>4, <2>5, <2>7, Preserves
  <1>6. QED
    BY <1>4, <1>5 DEF Forgot

\* A password is reset: the code is found good, the password is set, the code is used up.
LEMMA ResetStep ==
    ASSUME IInv, NEW r \in Requests, Reset(r)
    PROVE  IInv'
  <1> USE DEF IInv
  <1> DEFINE g == req[r].given
  <1>1. /\ req[r].op = "reset" /\ req[r].op # None /\ req[r].at # "done" /\ Exists(req[r].user)
        /\ Shows(resets, g, r) /\ UNCHANGED <<invites, keys>>
    BY AccountsAssumption
       DEF Reset, ValidateCode, ResetPassword, UseCode, UpdatePassword, At, Operations, Owners, Proven
  <1>2. CASE ValidateCode(r)
    <2>1. /\ Moves(r) /\ UNCHANGED <<account, resets>>
          /\ (req'[r].at = "set" /\ IsGood(g)) \/ req'[r].at = "failed"
      BY <1>2, Goes DEF ValidateCode, MovesTo, Places
    <2>2. IsGood(g) => g \in req[r].open
      BY <1>1 DEF IsGood, Unused, Shows
    <2>3. Arrived(r)
      BY <1>1, <2>1, <2>2 DEF Arrived, At, Moves, Same
    <2>4. QED
      BY <1>1, <2>1, <2>3, Quiet
  <1>3. CASE ResetPassword(r)
    <2>1. UpdatePassword(r, "use")
      BY <1>3 DEF ResetPassword
    <2>2. /\ Moves(r) /\ req'[r].at \in {"use", "failed"}
          /\ account' \in [Users -> Account \cup {None}] /\ Remembered'
          /\ \A u \in Users : Exists(u) => account'[u] # None /\ account'[u].role = account[u].role
          /\ UNCHANGED <<invites, resets, keys>>
      BY <1>1, <2>1, UpdatePasswordKeeps DEF Places
    <2>3. Types' /\ Grown /\ KeysAfter(r) /\ OwnersAfter
      BY <2>2, RequestTypes, Unchanged, OwnersStay DEF Types, Grown
    <2>4. Arrived(r)
      BY <1>1, <2>2 DEF Arrived, At, Moves, Same
    <2>5. QED
      BY <2>2, <2>3, <2>4, Preserves
  <1>4. CASE UseCode(r)
    <2>1. UNCHANGED account
      BY <1>4 DEF UseCode
    <2>2. CASE Fails(r, "done") /\ UNCHANGED resets
      <3>1. Moves(r) /\ req'[r].at = "done" /\ ~req'[r].clean
        BY <2>2, GoesOnFailing DEF MovesTo, Places
      <3>2. Arrived(r)
        BY <1>1, <3>1 DEF Arrived, At, Moves, Same
      <3>3. QED
        BY <1>1, <2>1, <2>2, <3>1, <3>2, Quiet
    <2>3. CASE resets' = [resets EXCEPT ![g].used = TRUE] /\ Becomes(r, Place(r, "done"))
      <3>1. Moves(r) /\ req'[r].at = "done"
        BY <2>3, Goes DEF MovesTo, Places
      <3>2. g \in DOMAIN resets /\ resets \in Seq(Token)
        BY <1>1 DEF Shows, Types
      <3>3. /\ resets' \in Seq(Token) /\ Kept(resets, resets') /\ resets'[g].used
            /\ \A i \in DOMAIN resets' : i \in DOMAIN resets /\ resets'[i].user = resets[i].user
        <4>1. resets' = Marked(resets, g)
          BY <2>3 DEF Marked
        <4>2. QED
          BY <3>2, <4>1, MarkedKept
      <3>4. OwnersAfter
        <4>1. \A i \in DOMAIN resets' : account'[resets'[i].user] # None
          BY <2>1, <3>3 DEF Owners, Exists
        <4>2. QED
          BY <1>1, <2>1, <4>1 DEF OwnersAfter, Owners, Exists
      <3>5. Types' /\ Grown /\ KeysAfter(r) /\ Remembered'
        BY <1>1, <2>1, <3>1, <3>3, RequestTypes, Unchanged DEF Types, Grown
      <3>6. Arrived(r)
        BY <1>1, <3>1, <3>3 DEF Arrived, At, Moves, Same
      <3>7. QED
        BY <3>1, <3>4, <3>5, <3>6, Preserves
    <2>4. QED
      BY <1>4, <2>2, <2>3 DEF UseCode
  <1>5. QED
    BY <1>2, <1>3, <1>4 DEF Reset

\* However scopes are spelled, those granted are within the role.
LEMMA GrantedWithin ==
    ASSUME NEW asked, NEW role \in Roles, Grantable(asked, role)
    PROVE  ScopesOf(asked, role) \subseteq Within(role) /\ Within(role) \subseteq Scopes
  <1>1. ScopesOf(asked, role) \subseteq Within(role)
    BY DEF ScopesOf, Grantable
  <1>2. Within(role) \subseteq Scopes
    BY DEF Within, Scopes, Roles
  <1>3. QED
    BY <1>1, <1>2

\* A key is made, within the role of its owner.
LEMMA KeyStep ==
    ASSUME IInv, NEW r \in Requests, CreateKey(r)
    PROVE  IInv'
  <1> USE DEF IInv
  <1> DEFINE u    == req[r].user
             role == account[u].role
             s    == ScopesOf(req[r].given, role)
             k    == [id |-> r, user |-> u, scopes |-> s]
  <1>1. /\ req[r].op = "key" /\ At(r, "key", "begun") /\ req[r].op # None /\ req[r].at # "done"
        /\ Exists(u) /\ UNCHANGED <<account, invites, resets>>
    BY AccountsAssumption DEF CreateKey, At, Operations, Owners
  <1>2. u \in Users /\ role \in Roles
    BY <1>1 DEF Types, Exists, Account
  <1>3. CASE /\ Grantable(req[r].given, role) /\ keys' = keys \cup {k}
             /\ Becomes(r, Place(r, "done"))
    <2>1. Moves(r) /\ req'[r].at = "done"
      BY <1>3, Goes DEF MovesTo, Places
    <2>2. s \subseteq Within(role) /\ s \subseteq Scopes
      BY <1>2, <1>3, GrantedWithin
    <2> HIDE DEF s
    <2>3. k \in Key /\ k.id = r /\ k.user = u /\ k.scopes = s
      BY <1>2, <2>2 DEF Key
    <2>4. KeysAfter(r)
      <3> HIDE DEF k
      <3>1. At(r, "key", "done")'
        BY <1>1, <2>1 DEF At, Moves, Same
      <3>2. QED
        BY <1>1, <1>3, <2>2, <2>3, <3>1 DEF KeysAfter
    <2>5. keys' \subseteq Key
      BY <1>3, <2>3 DEF Types
    <2>6. Types' /\ Grown /\ OwnersAfter /\ Remembered'
      BY <1>1, <2>1, <2>5, RequestTypes, Unchanged DEF Types, Grown
    <2>7. Arrived(r)
      BY <1>1, <2>1 DEF Arrived, At, Moves, Same
    <2>8. QED
      BY <2>1, <2>4, <2>6, <2>7, Preserves
  <1>4. CASE (Becomes(r, Place(r, "failed")) \/ Fails(r, "failed")) /\ UNCHANGED keys
    <2>1. Moves(r) /\ req'[r].at = "failed"
      BY <1>4, Goes, GoesOnFailing DEF MovesTo, Places
    <2>2. Arrived(r)
      BY <1>1, <2>1 DEF Arrived, At, Moves, Same
    <2>3. QED
      BY <1>1, <1>4, <2>1, <2>2, Quiet
  <1>5. QED
    BY <1>3, <1>4 DEF CreateKey

\* A key is revoked.
LEMMA RevokeStep ==
    ASSUME IInv, NEW r \in Requests, RevokeKey(r)
    PROVE  IInv'
  <1> USE DEF IInv
  <1>1. /\ req[r].op = "revoke" /\ req[r].op # None /\ req[r].at # "done"
        /\ UNCHANGED <<account, invites, resets>>
    BY AccountsAssumption DEF RevokeKey, At, Operations
  <1>2. Moves(r) /\ keys' \subseteq keys
    <2>1. (IF req[r].given \in keys THEN "done" ELSE "failed") \in Places
      BY DEF Places
    <2>2. QED
      BY <2>1, Goes, GoesOnFailing DEF RevokeKey, MovesTo, Places
  <1>3. KeysAfter(r) /\ keys' \subseteq Key
    BY <1>2 DEF KeysAfter, Types
  <1>4. Types' /\ Grown /\ OwnersAfter /\ Remembered'
    BY <1>1, <1>2, <1>3, RequestTypes, Unchanged DEF Types, Grown
  <1>5. Arrived(r)
    BY <1>1, <1>2 DEF Arrived, At, Moves, Same
  <1>6. QED
    BY <1>2, <1>3, <1>4, <1>5, Preserves

\* Every route takes some scope, and "admin" is the scope of those who have all.
LEMMA RoutesTaken ==
    ASSUME NEW role \in Roles, NEW route \in Routes, NEW key \in Key,
           key.scopes \subseteq Within(role), InScope(key, route)
    PROVE  route.scopes \cap Within(role) # {}
  <1>1. PICK s \in key.scopes : s \in route.scopes \/ s = "admin"
    BY DEF InScope
  <1>2. CASE s \in route.scopes
    BY <1>1, <1>2
  <1>3. CASE s = "admin"
    <2>1. role = "admin"
      BY <1>1, <1>3 DEF Within, Scopes, Roles
    <2>2. QED
      BY <2>1 DEF Within, Scopes, Routes
  <1>4. QED
    BY <1>1, <1>2, <1>3

\* A key is called.
LEMMA CallStep ==
    ASSUME IInv, NEW r \in Requests, Call(r)
    PROVE  IInv'
  <1> USE DEF IInv
  <1> DEFINE g == req[r].given
  <1>1. /\ req[r].op = "call" /\ req[r].op # None /\ req[r].at # "done"
        /\ UNCHANGED <<account, invites, resets, keys>>
    BY AccountsAssumption DEF Call, FindKey, LetThrough, At, Operations
  <1>2. /\ g \in Key /\ Exists(g.user) /\ g.scopes \subseteq Within(account[g.user].role)
        /\ req[r].wants \in Routes /\ (g \in keys => g \in req[r].open)
        /\ req[r].at = "owner" => g \in req[r].open
    <2>1. g \in Known
      BY <1>1 DEF Known
    <2>2. QED
      BY <1>1, <2>1 DEF KeysKnown
  <1>3. CASE FindKey(r)
    <2>1. Moves(r) /\ ((req'[r].at = "owner" /\ g \in keys) \/ req'[r].at = "failed")
      BY <1>3, Goes DEF FindKey, MovesTo, Places
    <2>2. Arrived(r)
      BY <1>1, <1>2, <2>1 DEF Arrived, At, Moves, Same
    <2>3. QED
      BY <1>1, <2>1, <2>2, Quiet
  <1>4. CASE LetThrough(r)
    <2>1. /\ Moves(r) /\ req'[r].at \in {"done", "failed"}
          /\ req'[r].at = "done" => InScope(g, req[r].wants)
      BY <1>4, Goes, GoesOnFailing DEF LetThrough, MovesTo, Places
    <2>2. account[g.user].role \in Roles
      BY <1>2 DEF Types, Exists, Account, Key
    <2>3. req'[r].at = "done" => req[r].wants.scopes \cap Within(account[g.user].role) # {}
      BY <1>2, <2>1, <2>2, RoutesTaken
    <2>4. g \in req[r].open
      BY <1>2, <1>4 DEF LetThrough, At
    <2>5. Arrived(r)
      BY <1>1, <2>1, <2>3, <2>4 DEF Arrived, At, Moves, Same
    <2>6. QED
      BY <1>1, <2>1, <2>5, Quiet
  <1>5. QED
    BY <1>3, <1>4 DEF Call

-----------------------------------------------------------------------------
(* Every step *)

LEMMA NextInv == IInv /\ [Next]_vars => IInv'
  <1> SUFFICES ASSUME IInv, [Next]_vars PROVE IInv'
    OBVIOUS
  <1>1. CASE Next
    <2>1. PICK r \in Requests :
             \/ Begin(r) \/ Setup(r) \/ Register(r) \/ CreateInvite(r) \/ Accept(r) \/ Change(r)
             \/ Forgot(r) \/ Reset(r) \/ CreateKey(r) \/ RevokeKey(r) \/ Call(r)
      BY <1>1 DEF Next
    <2>2. QED
      BY <2>1, BeginStep, SetupStep, RegisterStep, InviteStep, AcceptStep, ChangeStep, ForgotStep,
         ResetStep, KeyStep, RevokeStep, CallStep
  <1>2. CASE UNCHANGED vars
    <2>1. /\ UNCHANGED account /\ UNCHANGED invites /\ UNCHANGED resets /\ UNCHANGED keys
          /\ UNCHANGED req
      BY <1>2 DEF vars
    <2>2. /\ Types' /\ Owners' /\ Remembered' /\ Proven' /\ Answered'
      BY <2>1 DEF IInv, Types, Owners, Remembered, Proven, Answered, Exists, At, Shows, EarlierUsed
    <2>3. CodesEnd' /\ KeysKnown' /\ KeysBounded' /\ TakesOne'
      BY <2>1 DEF IInv, CodesEnd, KeysKnown, KeysBounded, TakesOne, Known, At, Exists
    <2>4. QED
      BY <2>2, <2>3 DEF IInv
  <1>3. QED
    BY <1>1, <1>2

LEMMA Invariant == Spec => []IInv
  <1>1. QED
    BY InitInv, NextInv, PTL DEF Spec

\* The team of the setup is there before its members.
TeamHolds ==
    /\ team \in (SUBSET Users) \cup {None}
    /\ \A r \in Requests : req[r].at = "member" => team \in SUBSET Users

\* A request is made a member only where the setup has made the team.
LEMMA NoMembers ==
    ASSUME Types, NEW r \in Requests,
           \/ Begin(r) \/ CountUsers(r) \/ SetupUser(r) \/ Register(r) \/ CreateInvite(r)
           \/ Accept(r) \/ Change(r) \/ Forgot(r) \/ Reset(r)
           \/ CreateKey(r) \/ RevokeKey(r) \/ Call(r)
    PROVE  team' = team /\ \A x \in Requests : req'[x].at = "member" => req[x].at = "member"
  <1>1. req \in [Requests -> Request] /\ \A x \in Requests : "at" \in DOMAIN req[x]
    BY DEF Types, Request
  <1>2. ASSUME NEW y, Becomes(r, y), y.at # "member"
        PROVE  \A x \in Requests : req'[x].at = "member" => req[x].at = "member"
    BY <1>1, <1>2 DEF Becomes
  <1>3. ASSUME NEW place, place # "member",
               \/ Becomes(r, Place(r, place)) \/ Fails(r, place)
               \/ \E u, p : Ends(r, u, p, place)
               \/ \E t : \/ Becomes(r, [Place(r, place) EXCEPT !.took = t])
                         \/ Becomes(r, [Place(r, place) EXCEPT !.took = t, !.clean = FALSE])
        PROVE  \A x \in Requests : req'[x].at = "member" => req[x].at = "member"
    BY <1>1, <1>3 DEF Becomes, Fails, Place, Ends
  <1>4. ASSUME NEW next, next # "member", \/ \E role : CreateUser(r, role, next) \/ UpdatePassword(r, next)
        PROVE  \A x \in Requests : req'[x].at = "member" => req[x].at = "member"
    BY <1>3, <1>4 DEF CreateUser, UpdatePassword
  <1>5. CASE Begin(r)
    BY <1>2, <1>5 DEF Begin
  <1>6. CASE CountUsers(r) \/ SetupUser(r)
    BY <1>3, <1>4, <1>6 DEF CountUsers, SetupUser
  <1>7. CASE Register(r) \/ CreateInvite(r)
    BY <1>3, <1>4, <1>7 DEF Register, CreateInvite
  <1>8. CASE Accept(r) \/ Change(r)
    BY <1>3, <1>4, <1>8 DEF Accept, Change, TakeInvite, AcceptInvite, CheckPassword, ChangePassword,
       UpdatePassword
  <1>9. CASE Forgot(r) \/ Reset(r)
    BY <1>3, <1>4, <1>9 DEF Forgot, Reset, WithdrawCodes, InsertCode, ValidateCode, ResetPassword, UseCode,
       UpdatePassword
  <1>10. CASE CreateKey(r) \/ RevokeKey(r) \/ Call(r)
    BY <1>3, <1>10 DEF CreateKey, RevokeKey, Call, FindKey, LetThrough
  <1>11. QED
    BY <1>5, <1>6, <1>7, <1>8, <1>9, <1>10

LEMMA TeamStep == ASSUME IInv, TeamHolds, [Next]_vars PROVE TeamHolds'
  <1>1. CASE UNCHANGED vars
    BY <1>1 DEF vars, TeamHolds
  <1>2. ASSUME NEW r \in Requests, SetupTeam(r) \/ SetupMember(r) PROVE TeamHolds'
    <2>1. req \in [Requests -> Request] /\ req[r].user \in Users
      BY <1>2, AccountsAssumption DEF IInv, Types, SetupTeam, SetupMember, At, Operations
    <2>2. \A x \in Requests : x # r => req'[x] = req[x]
      BY <1>2, <2>1 DEF SetupTeam, SetupMember, Becomes, Fails
    <2>3. CASE team' = team
      <3>1. "at" \in DOMAIN req[r]
        BY <2>1 DEF Request
      <3>2. req'[r].at # "member" \/ (team = None /\ team' = {})
        BY <1>2, <2>1, <3>1 DEF SetupTeam, SetupMember, Becomes, Fails, Place
      <3>3. QED
        BY <2>2, <2>3, <3>2 DEF TeamHolds
    <2>4. CASE SetupTeam(r) /\ team' = {}
      BY <2>4 DEF TeamHolds
    <2>5. CASE SetupMember(r) /\ team' = team \cup {req[r].user}
      BY <2>1, <2>5 DEF TeamHolds, SetupMember, At
    <2>6. QED
      BY <1>2, <2>3, <2>4, <2>5 DEF SetupTeam, SetupMember
  <1>3. QED
    BY <1>1, <1>2, NoMembers DEF Next, Setup, IInv, TeamHolds

\* However requests meet and statements fail, accounts, invites, codes, keys and requests are what
\* they may be, and so is the team that the setup makes, in a statement of its own, before it
\* enters a member (SetupTeam, SetupMember).
THEOREM AccountsTyped == Spec => []TypeOK
  <1>1. Init => TeamHolds
    BY DEF Init, TeamHolds, NewRequest
  <1>2. IInv /\ TeamHolds /\ [Next]_vars => TeamHolds'
    BY TeamStep
  <1>3. IInv /\ TeamHolds => TypeOK
    BY DEF IInv, Types, TeamHolds, TypeOK
  <1>4. QED
    BY <1>1, <1>2, <1>3, Invariant, PTL DEF Spec

\* A reset code ends: a request for a code ends those sent before (CreatePasswordResetToken), and
\* resetting the password ends the one that was shown (ConsumePasswordResetToken), whatever other
\* requests are under way.
THEOREM ResetCodesEnd == Spec => []CodesEnd
  <1>1. IInv => CodesEnd
    BY DEF IInv
  <1>2. QED
    BY <1>1, Invariant, PTL

\* No key goes beyond the role of its owner (validateTokenScopes), and none that was revoked
\* before a call lets it through (authenticateAPIKey, RequireScope).
THEOREM KeysStayBounded == Spec => []KeysBounded
  <1>1. IInv => KeysBounded
    BY DEF IInv
  <1>2. QED
    BY <1>1, Invariant, PTL

-----------------------------------------------------------------------------
(* Passwords *)

\* Of the handlers that make accounts none changes an account that there is.
LEMMA MadeOnly ==
    ASSUME IInv, NEW r \in Requests, Setup(r) \/ Register(r)
    PROVE  \A u \in Users : Exists(u) => account'[u] = account[u]
  <1>1. CASE SetupUser(r)
    <2>1. CreateUser(r, "admin", "team")
      BY <1>1 DEF SetupUser
    <2>2. QED
      BY <2>1 DEF CreateUser, IInv, Types, Exists
  <1>2. CASE Register(r)
    <2>1. PICK role, next : CreateUser(r, role, next)
      BY <1>2 DEF Register
    <2>2. QED
      BY <2>1 DEF CreateUser, IInv, Types, Exists
  <1>3. CASE CountUsers(r) \/ SetupTeam(r) \/ SetupMember(r)
    BY <1>3 DEF CountUsers, SetupTeam, SetupMember
  <1>4. QED
    BY <1>1, <1>2, <1>3 DEF Setup

\* Whoever is at the place where passwords are set has shown what it takes.
LEMMA SetProven ==
    ASSUME IInv, NEW r \in Requests, AcceptInvite(r) \/ ChangePassword(r) \/ ResetPassword(r),
           NEW u \in Users, account'[u] # account[u]
    PROVE  /\ req'[r].at # req[r].at
           /\ account'[u].password = r
           /\ Proof(r, u)
  <1>1. /\ req[r].op \in {"accept", "reset", "change"} /\ req[r].at = "set"
        /\ \E next \in {"done", "use"} : UpdatePassword(r, next)
    BY DEF AcceptInvite, ChangePassword, ResetPassword, At
  <1>2. req[r].op # None /\ Exists(req[r].user)
    BY <1>1, AccountsAssumption DEF IInv, Owners, Operations
  <1>3. PICK next \in {"done", "use"} : UpdatePassword(r, next)
    BY <1>1
  <1>4. u = req[r].user /\ account'[u].password = r /\ req'[r].at = next
    BY <1>2, <1>3, UpdatePasswordKeeps DEF Places
  <1>5. Proof(r, u)
    BY <1>1, <1>4 DEF IInv, Proven, Proof, Shows, At
  <1>6. QED
    BY <1>1, <1>4, <1>5

\* A password is set only by a request that shows an invite or a code of that user which could be
\* used when it began, or a password that the user had since (AcceptInvite, ResetPassword,
\* ChangePassword).
THEOREM PasswordsAreProven == Spec => PasswordsProven
  <1>1. IInv /\ [Next]_vars =>
          [\A u \in Users :
              Exists(u) /\ account'[u].password # account[u].password =>
                  \E r \in Requests : /\ req'[r].at # req[r].at
                                      /\ account'[u].password = r
                                      /\ Proof(r, u)]_vars
    <2> SUFFICES ASSUME IInv, Next, NEW u \in Users, Exists(u),
                        account'[u].password # account[u].password
                 PROVE  \E r \in Requests : /\ req'[r].at # req[r].at
                                            /\ account'[u].password = r
                                            /\ Proof(r, u)
      OBVIOUS
    <2>1. PICK r \in Requests :
             \/ Begin(r) \/ Setup(r) \/ Register(r) \/ CreateInvite(r) \/ Accept(r) \/ Change(r)
             \/ Forgot(r) \/ Reset(r) \/ CreateKey(r) \/ RevokeKey(r) \/ Call(r)
      BY DEF Next
    <2>2. ~Setup(r) /\ ~Register(r)
      BY MadeOnly
    <2>3. AcceptInvite(r) \/ ChangePassword(r) \/ ResetPassword(r)
      BY <2>1, <2>2 DEF Begin, CreateInvite, Accept, TakeInvite, Change, CheckPassword, Forgot,
         WithdrawCodes, InsertCode, Reset, ValidateCode, UseCode, CreateKey, RevokeKey, Call, FindKey,
         LetThrough
    <2>4. QED
      BY <2>3, SetProven
  <1>2. QED
    BY <1>1, Invariant, PTL DEF Spec, PasswordsProven

-----------------------------------------------------------------------------
(* Invites *)

\* The steps that neither begin a request nor take an invite leave what requests took.
LEMMA TookStays ==
    ASSUME IInv, NEW r \in Requests,
           \/ Setup(r) \/ Register(r) \/ CreateInvite(r) \/ AcceptInvite(r) \/ Change(r)
           \/ Forgot(r) \/ Reset(r) \/ CreateKey(r) \/ RevokeKey(r) \/ Call(r)
    PROVE  \A x \in Requests : req'[x].op = req[x].op /\ req'[x].took = req[x].took
  <1> USE DEF IInv
  <1>1. SUFFICES Moves(r) /\ req'[r].took = req[r].took
    BY DEF Moves, Same
  <1>2. req[r].op # None
    BY AccountsAssumption
       DEF Setup, CountUsers, SetupUser, SetupTeam, SetupMember, Register, CreateInvite, AcceptInvite,
           Change, CheckPassword, ChangePassword, Forgot, WithdrawCodes, InsertCode, Reset,
           ValidateCode, ResetPassword, UseCode, CreateKey, RevokeKey, Call, FindKey, LetThrough, At,
           Operations
  <1>3. CASE SetupUser(r) \/ Register(r)
    <2>1. req[r].op \in {"register", "invite"} => req[r].wants \in Roles
      BY DEF Types
    <2>2. \E role \in Roles, next \in Places : CreateUser(r, role, next)
      BY <1>3, <2>1 DEF SetupUser, Register, Roles, Places, At
    <2>3. QED
      BY <1>2, <2>2, CreateUserKeeps
  <1>4. CASE AcceptInvite(r) \/ ChangePassword(r) \/ ResetPassword(r)
    <2>1. Exists(req[r].user) /\ \E next \in Places : UpdatePassword(r, next)
      BY <1>4 DEF AcceptInvite, ChangePassword, ResetPassword, At, Owners, Places
    <2>2. QED
      BY <1>2, <2>1, UpdatePasswordKeeps
  <1>5. CASE \E place \in Places : Becomes(r, Place(r, place)) \/ Fails(r, place)
    BY <1>5, Goes, GoesOnFailing DEF MovesTo
  <1>6. CASE CountUsers(r) \/ SetupTeam(r) \/ SetupMember(r) \/ CreateInvite(r) \/ CheckPassword(r)
    BY <1>5, <1>6 DEF CountUsers, SetupTeam, SetupMember, CreateInvite, CheckPassword, Places
  <1>7. CASE Forgot(r) \/ ValidateCode(r) \/ UseCode(r)
    BY <1>5, <1>7 DEF Forgot, WithdrawCodes, InsertCode, ValidateCode, UseCode, Places
  <1>8. CASE CreateKey(r) \/ RevokeKey(r) \/ Call(r)
    BY <1>5, <1>8 DEF CreateKey, RevokeKey, Call, FindKey, LetThrough, Places
  <1>9. QED
    BY <1>3, <1>4, <1>6, <1>7, <1>8 DEF Setup, Change, Reset

LEMMA OnceInit == Init => Once!Init
  <1> SUFFICES ASSUME Init PROVE Once!Init
    OBVIOUS
  <1>1. \A r \in Requests : req[r].op = None /\ req[r].took = None /\ None # "accept"
    BY AccountsAssumption DEF Init, NewRequest, Operations
  <1>2. DOMAIN invites \subseteq Nat \ {0}
    BY StartsAssumption DEF Init
  <1>3. QED
    BY <1>1, <1>2 DEF Once!Init, Once!Tickets, Ticket, Unused

\* Each step takes an invite that nobody took, hands out others, is that of someone who comes for
\* one, or changes nothing about them.
LEMMA OnceStep == IInv /\ [Next]_vars => [Once!Next]_(Once!vars)
  <1> SUFFICES ASSUME IInv, [Next]_vars PROVE Once!Next \/ UNCHANGED Once!vars
    OBVIOUS
  <1> DEFINE Came  == [r \in Requests |-> IF req[r].op = "accept" THEN "invite" ELSE None]
             Taken == [r \in Requests |-> IF req[r].took = None THEN None ELSE Ticket(req[r].took)]
  <1>1. CASE UNCHANGED <<invites, req>>
    BY <1>1 DEF Once!vars, Unused
  <1>2. ASSUME NEW r \in Requests, Begin(r) PROVE Once!Next \/ UNCHANGED Once!vars
    <2>1. req[r].op = None /\ UNCHANGED invites
      BY <1>2 DEF Begin
    <2>2. PICK q : req' = [req EXCEPT ![r] = q] /\ q.took = None
      <3>1. PICK op \in Ops, u \in Users :
               \E g \in Shown(op, u), w \in Wanted(op) :
                  Becomes(r, [op |-> op, at |-> "begun", user |-> u, given |-> g, wants |-> w, took |-> None,
                              open |-> Usable(op),
                              held |-> IF Exists(u) THEN {account[u].password} ELSE {},
                              earlier |-> Len(resets), clean |-> TRUE])
        BY <1>2 DEF Begin
      <3>2. PICK g \in Shown(op, u), w \in Wanted(op) :
               Becomes(r, [op |-> op, at |-> "begun", user |-> u, given |-> g, wants |-> w, took |-> None,
                           open |-> Usable(op),
                           held |-> IF Exists(u) THEN {account[u].password} ELSE {},
                           earlier |-> Len(resets), clean |-> TRUE])
        BY <3>1
      <3> DEFINE q == [op |-> op, at |-> "begun", user |-> u, given |-> g, wants |-> w, took |-> None,
                       open |-> Usable(op),
                       held |-> IF Exists(u) THEN {account[u].password} ELSE {},
                       earlier |-> Len(resets), clean |-> TRUE]
      <3>3. req' = [req EXCEPT ![r] = q] /\ q.took = None
        BY <3>2 DEF Becomes
      <3> HIDE DEF q
      <3>4. QED
        BY <3>3
    <2>3. /\ req'[r].took = None /\ req[r].took = None
          /\ \A x \in Requests : x # r => req'[x] = req[x]
      BY <2>1, <2>2 DEF IInv, Types, TakesOne
    <2>4. Taken' = Taken
      BY <2>3
    <2>5. CASE req'[r].op = "accept"
      <3>1. Came' = [Came EXCEPT ![r] = "invite"] /\ Came[r] = None
        BY <2>1, <2>3, <2>5, AccountsAssumption DEF Operations
      <3>2. Once!Arrive(r)
        BY <2>1, <2>4, <3>1 DEF Once!Arrive, Unused
      <3>3. QED
        BY <3>2 DEF Once!Next
    <2>6. CASE req'[r].op # "accept"
      <3>1. Came' = Came
        BY <2>1, <2>3, <2>6, AccountsAssumption DEF Operations
      <3>2. QED
        BY <2>1, <2>4, <3>1 DEF Once!vars, Unused
    <2>7. QED
      BY <2>5, <2>6
  <1>3. ASSUME NEW r \in Requests, TakeInvite(r), invites' # invites
        PROVE  Once!Next
    <2> DEFINE g == req[r].given
    <2>1. /\ At(r, "accept", "begun") /\ ~invites[g].used
          /\ invites' = [invites EXCEPT ![g].used = TRUE]
          /\ \E place \in Places :
                \/ Becomes(r, [Place(r, place) EXCEPT !.took = g])
                \/ Becomes(r, [Place(r, place) EXCEPT !.took = g, !.clean = FALSE])
      BY <1>3 DEF TakeInvite, TakesInvite, Places
    <2>2. g \in DOMAIN invites /\ g \in Nat /\ req[r].took = None
      BY <2>1 DEF IInv, Proven, Shows, At, Types, TakesOne
    <2>3. Moves(r) /\ req'[r].took = g
      BY <2>1, <2>2, GoesTaking DEF IInv
    <2>4. Came' = Came /\ Came[r] = "invite"
      BY <2>1, <2>3 DEF Moves, Same, At
    <2>5. Taken' = [Taken EXCEPT ![r] = Ticket(g)] /\ Taken[r] = None
      <3>1. g # None
        BY <2>2, StartsAssumption
      <3>2. QED
        BY <2>2, <2>3, <3>1 DEF Moves
    <2>6. DOMAIN invites' = DOMAIN invites /\ Unused(invites)' = Unused(invites) \ {g}
      <3>1. invites \in Seq(Token) /\ invites' = Marked(invites, g)
        BY <2>1 DEF IInv, Types, Marked
      <3>2. /\ DOMAIN invites' = DOMAIN invites /\ invites'[g].used
            /\ \A i \in DOMAIN invites : i # g => invites'[i] = invites[i]
        BY <2>2, <3>1, MarkedKept
      <3>3. QED
        BY <3>2 DEF Unused
    <2>7. {Ticket(i) : i \in Unused(invites)}' = {Ticket(i) : i \in Unused(invites)} \ {Ticket(g)}
      <3>1. \A i, j : Ticket(i) = Ticket(j) => i = j
        BY DEF Ticket
      <3>2. \A i : Ticket(i)' = Ticket(i)
        BY DEF Ticket
      <3>3. QED
        BY <2>6, <3>1, <3>2
    <2>8. Ticket(g) \in {Ticket(i) : i \in Unused(invites)} /\ Ticket(g).kind = "invite"
      BY <2>1, <2>2 DEF Unused, Ticket
    <2>9. Once!Take(r)
      BY <2>4, <2>5, <2>6, <2>7, <2>8 DEF Once!Take
    <2>10. QED
      BY <2>9 DEF Once!Next
  <1>4. ASSUME NEW r \in Requests,
               \A x \in Requests : req'[x].op = req[x].op /\ req'[x].took = req[x].took
        PROVE  Came' = Came /\ Taken' = Taken
    BY <1>4
  <1>5. ASSUME NEW r \in Requests, CreateInvite(r), invites' # invites
        PROVE  Once!Next
    <2> DEFINE t == [user |-> req[r].user, used |-> FALSE]
    <2>1. invites' = Append(invites, t) /\ invites \in Seq(Token) /\ t \in Token
      BY <1>5, AccountsAssumption DEF CreateInvite, IInv, Types, At, Token, Operations
    <2>2. Came' = Came /\ Taken' = Taken
      BY <1>4, <1>5, TookStays
    <2> HIDE DEF t
    <2>3. /\ DOMAIN invites \subseteq DOMAIN invites' /\ DOMAIN invites' \subseteq Nat \ {0}
          /\ \A i \in DOMAIN invites : invites'[i] = invites[i]
      BY <2>1
    <2>4. Unused(invites)' \ Unused(invites) \subseteq DOMAIN invites' \ DOMAIN invites
      BY <2>3 DEF Unused
    <2>5. Once!Reissue
      <3>1. \A i, j : Ticket(i) = Ticket(j) => i = j
        BY DEF Ticket
      <3>2. \A i \in Nat \ {0} : Ticket(i) \in Once!Tickets
        BY DEF Ticket, Once!Tickets
      <3>3. QED
        BY <2>2, <2>3, <2>4, <3>1, <3>2 DEF Once!Reissue
    <2>6. QED
      BY <2>5 DEF Once!Next
  <1>6. CASE Next
    <2>1. PICK r \in Requests :
             \/ Begin(r) \/ Setup(r) \/ Register(r) \/ CreateInvite(r) \/ Accept(r) \/ Change(r)
             \/ Forgot(r) \/ Reset(r) \/ CreateKey(r) \/ RevokeKey(r) \/ Call(r)
      BY <1>6 DEF Next
    <2>2. CASE Begin(r)
      BY <1>2, <2>2
    <2>3. CASE TakeInvite(r) /\ UNCHANGED invites
      <3>1. Becomes(r, Place(r, "failed"))
        <4>1. req[r].given \in DOMAIN invites /\ invites \in Seq(Token)
          BY <2>3 DEF TakeInvite, IInv, Proven, Shows, At, Types
        <4>2. Marked(invites, req[r].given)[req[r].given].used
          BY <4>1, MarkedKept
        <4>3. QED
          BY <2>3, <4>2 DEF TakeInvite, TakesInvite, Marked
      <3>2. MovesTo(r, "failed")
        BY <3>1, Goes DEF IInv, Places
      <3>3. Came' = Came /\ Taken' = Taken
        BY <3>2 DEF MovesTo, Moves, Same
      <3>4. QED
        BY <2>3, <3>3 DEF Once!vars, Unused
    <2>4. CASE \/ Setup(r) \/ Register(r) \/ AcceptInvite(r) \/ Change(r)
               \/ Forgot(r) \/ Reset(r) \/ CreateKey(r) \/ RevokeKey(r) \/ Call(r)
      <3>1. Came' = Came /\ Taken' = Taken
        BY <1>4, <2>4, TookStays
      <3>2. UNCHANGED invites
        BY <2>4 DEF Setup, CountUsers, SetupUser, SetupTeam, SetupMember, Register, AcceptInvite,
           UpdatePassword, Change, CheckPassword, ChangePassword, Forgot, WithdrawCodes, InsertCode,
           Reset, ValidateCode, ResetPassword, UseCode, CreateKey, RevokeKey, Call, FindKey, LetThrough
      <3>3. QED
        BY <3>1, <3>2 DEF Once!vars, Unused
    <2>5. CASE CreateInvite(r) /\ UNCHANGED invites
      <3>1. Came' = Came /\ Taken' = Taken
        BY <1>4, <2>5, TookStays
      <3>2. QED
        BY <2>5, <3>1 DEF Once!vars, Unused
    <2>6. QED
      BY <1>3, <1>5, <2>1, <2>2, <2>3, <2>4, <2>5 DEF Accept
  <1>7. QED
    BY <1>1, <1>6 DEF vars

\* An invite is taken once (ConsumeInviteToken): whatever requests do and whatever fails, the
\* invites of an installation are tickets for a single use.
THEOREM InvitesAreSingleUse == Spec => InvitesOnce
  <1>1. QED
    BY OnceInit, OnceStep, Invariant, PTL DEF Spec, InvitesOnce, Once!Spec

-----------------------------------------------------------------------------
(* Upgrades of Vesta itself *)

States == {"absent", "active", "complete", "failed"}
Upgrade   == [pc : {"idle", "record", "job"}, pod : Pods \cup {Missing}, name : Names \cup {Missing}]

\* A request that has begun has a server and a name.
CallsNamed ==
    \A r \in Upgrades : upgrade[r].pc # "idle" => upgrade[r].name \in Names /\ upgrade[r].pod \in Pods

\* What Jobs that completed have upgraded stays upgraded.
CompleteIsDone == \A n \in Names : job[n] = "complete" => n \in done

UpdatesInv == UpdatesTypeOK /\ CallsNamed /\ CompleteIsDone /\ SuccessIsReal

-----------------------------------------------------------------------------
(* The table *)

\* What closing a record leaves: others as they were, and closed ones.
LEMMA Finishes ==
  ASSUME records \in Seq(Record), NEW n \in Names, NEW status \in Outcome, Finish(n, status)
  PROVE  /\ records' \in Seq(Record)
         /\ DOMAIN records' = DOMAIN records
         /\ \A i \in DOMAIN records :
               /\ records'[i].name = records[i].name
               /\ records[i].status # "running" => records'[i] = records[i]
               /\ records'[i] # records[i] => records[i].name = n /\ records'[i].status = status
<1> DEFINE new(i) == IF records[i].name = n /\ i \in Running
                     THEN [records[i] EXCEPT !.status = status] ELSE records[i]
<1>1. records' = [i \in DOMAIN records |-> new(i)]  BY DEF Finish
<1>2. ASSUME NEW i \in DOMAIN records
      PROVE  /\ new(i) \in Record
             /\ new(i).name = records[i].name
             /\ records[i].status # "running" => new(i) = records[i]
             /\ new(i) # records[i] => records[i].name = n /\ new(i).status = status
  <2>1. records[i] \in Record  OBVIOUS
  <2> QED  BY <2>1 DEF Record, Running
<1>3. DOMAIN records = 1 .. Len(records) /\ Len(records) \in Nat  OBVIOUS
<1> HIDE DEF new
<1>4. records' \in Seq(Record)  BY <1>1, <1>2, <1>3, IsASeq
<1> QED  BY <1>1, <1>2, <1>4

\* A record that is closed as a success is one of a Job that is done.
LEMMA FinishKeepsSuccess ==
  ASSUME UpdatesInv, NEW n \in Names, NEW status \in Outcome, Finish(n, status),
         status = "succeeded" => n \in done, done \subseteq done'
  PROVE  SuccessIsReal' /\ records' \in Seq(Record)
<1>1. records \in Seq(Record)  BY DEF UpdatesInv, UpdatesTypeOK
<1>2. ASSUME NEW i \in DOMAIN records', records'[i].status = "succeeded"
      PROVE  records'[i].name \in done'
  <2>1. /\ i \in DOMAIN records /\ records'[i].name = records[i].name
        /\ records'[i] # records[i] => records[i].name = n /\ records'[i].status = status
    BY <1>1, Finishes
  <2> QED  BY <1>2, <2>1 DEF UpdatesInv, SuccessIsReal
<1> QED  BY <1>1, <1>2, Finishes DEF SuccessIsReal

-----------------------------------------------------------------------------
(* The invariant by its parts *)

Jobs   == job \in [Names -> States] /\ done \in SUBSET Names /\ CompleteIsDone
Calls  == upgrade \in [Upgrades -> Upgrade] /\ CallsNamed
Servers == /\ pod \in [Pods -> {"down", "boot", "up"}]
          /\ found \in [Pods -> Names \cup {Missing}]
          /\ \A p \in Pods : pod[p] = "boot" <=> found[p] # Missing
Watch  == watched \in [Pods -> SUBSET Names]
Chance == /\ now \in 0 .. MaxTime
          /\ spoilt \in SUBSET {"double", "lost", "hangup"} /\ mishaps \in 0 .. MaxMishaps
Table  == records \in Seq(Record) /\ SuccessIsReal

LEMMA Parts ==
  /\ UpdatesInv <=> Jobs /\ Calls /\ Servers /\ Watch /\ Chance /\ Table
  /\ UpdatesInv' <=> Jobs' /\ Calls' /\ Servers' /\ Watch' /\ Chance' /\ Table'
BY DEF UpdatesInv, UpdatesTypeOK, Jobs, Calls, Servers, Watch, Chance, Table, States, Upgrade

LEMMA Mishaps ==
  ASSUME Chance, Mishap
  PROVE  mishaps' \in 0 .. MaxMishaps
BY UpdateAssumption DEF Chance, Mishap

\* What is left alone stays as it should be.
LEMMA SameTable == ASSUME Table, UNCHANGED records, done \subseteq done' PROVE Table'
BY DEF Table, SuccessIsReal

LEMMA SamePods == ASSUME Servers, UNCHANGED <<pod, found>> PROVE Servers'
BY DEF Servers

LEMMA SameCalls == ASSUME Calls, UNCHANGED upgrade PROVE Calls'
BY DEF Calls, CallsNamed

LEMMA SameJobs == ASSUME Jobs, UNCHANGED <<job, done>> PROVE Jobs'
BY DEF Jobs, CompleteIsDone

LEMMA SameChance == ASSUME Chance, UNCHANGED <<now, luck>> PROVE Chance'
BY DEF Chance, luck

LEMMA SameWatch == ASSUME Watch, UNCHANGED watched PROVE Watch'
BY DEF Watch

\* Closing a record of a Job as what became of it.
LEMMA ClosesWell ==
  ASSUME UpdatesInv, NEW n \in Names, NEW status \in Outcome, Finish(n, status),
         status = "succeeded" => job[n] = "complete", UNCHANGED done
  PROVE  Table'
BY FinishKeepsSuccess DEF UpdatesInv, CompleteIsDone, Table

LEMMA EndsCall ==
  ASSUME Calls, NEW r \in Upgrades, End(r)
  PROVE  Calls'
<1>1. NoCall \in Upgrade /\ NoCall.pc = "idle"  BY DEF NoCall, Upgrade
<1>2. upgrade' = [upgrade EXCEPT ![r] = NoCall]  BY DEF End
<1> HIDE DEF NoCall
<1> QED  BY <1>1, <1>2 DEF Calls, CallsNamed

LEMMA CreatesJob ==
  ASSUME Jobs, NEW n \in Names, Create(n), UNCHANGED done
  PROVE  Jobs'
BY DEF Jobs, CompleteIsDone, Create, States

-----------------------------------------------------------------------------
(* One step for each action *)

LEMMA RequestSteps ==
  ASSUME UpdatesInv, NEW r \in Upgrades,
         Check(r) \/ CreateRecord(r) \/ CreateJob(r) \/ CreateFails(r) \/ HangUp(r)
  PROVE  UpdatesInv'
<1> Jobs /\ Calls /\ Servers /\ Watch /\ Chance /\ Table  BY Parts
<1> DEFINE n == upgrade[r].name
<1>1. upgrade[r].pc # "idle" => n \in Names /\ upgrade[r].pod \in Pods
  BY DEF Calls, CallsNamed
<1>2. CASE Check(r)
  <2>1. UNCHANGED <<now, records, job, done, pod, found, watched>>
    BY <1>2 DEF Check
  <2>2. PICK p \in Pods, v \in Versions :
           upgrade' = [upgrade EXCEPT ![r] = [pc |-> "record", pod |-> p, name |-> <<v, now>>]]
    BY <1>2 DEF Check
  <2>3. Calls'
    <3> DEFINE c == [pc |-> "record", pod |-> p, name |-> <<v, now>>]
    <3>1. c \in Upgrade /\ c.pod \in Pods /\ c.name \in Names
      BY DEF Upgrade, Names, Chance
    <3>2. upgrade' = [upgrade EXCEPT ![r] = c]  BY <2>2
    <3> HIDE DEF c
    <3> QED  BY <3>1, <3>2 DEF Calls, CallsNamed
  <2>4. Chance'
    <3>1. CASE UNCHANGED luck  BY <2>1, <3>1, SameChance
    <3>2. CASE Lost
      <4>1. mishaps' \in 0 .. MaxMishaps  BY <3>2, Mishaps DEF Lost
      <4> QED  BY <2>1, <3>2, <4>1 DEF Lost, Chance
    <3> QED  BY <1>2, <3>1, <3>2 DEF Check
  <2> QED  BY <2>1, <2>3, <2>4, Parts, SameTable, SamePods, SameJobs, SameWatch
<1>3. CASE CreateRecord(r)
  <2>1. UNCHANGED <<now, job, done, pod, found, watched, mishaps>>
    BY <1>3 DEF CreateRecord
  <2>2. n \in Names /\ upgrade' = [upgrade EXCEPT ![r].pc = "job"]
    BY <1>1, <1>3 DEF CreateRecord
  <2>3. Calls'
    BY <1>1, <1>3, <2>2 DEF Calls, CallsNamed, Upgrade, CreateRecord
  <2>4. Table'
    <3> DEFINE x == [name |-> n, status |-> "running"]
    <3>1. x \in Record /\ x.status # "succeeded"  BY <2>2 DEF Record, Outcome
    <3>2. records' = Append(records, x) /\ records \in Seq(Record)
      BY <1>3 DEF CreateRecord, Table
    <3> HIDE DEF x
    <3>3. records' \in Seq(Record)  BY <3>1, <3>2
    <3>4. ASSUME NEW i \in DOMAIN records', records'[i].status = "succeeded"
          PROVE  records'[i].name \in done
      <4>1. i \in DOMAIN records /\ records'[i] = records[i]
        BY <3>1, <3>2, <3>4
      <4> QED  BY <3>4, <4>1 DEF Table, SuccessIsReal
    <3> QED  BY <2>1, <3>3, <3>4 DEF Table, SuccessIsReal
  <2>5. Chance'  BY <1>3, <2>1 DEF Chance, CreateRecord
  <2> QED  BY <2>1, <2>3, <2>4, <2>5, Parts, SamePods, SameJobs, SameWatch
<1>4. CASE CreateJob(r)
  <2>1. UNCHANGED <<now, done, pod, found, luck>> /\ End(r) /\ n \in Names /\ upgrade[r].pod \in Pods
    BY <1>1, <1>4 DEF CreateJob
  <2>2. Calls'  BY <2>1, EndsCall
  <2>3. Jobs' /\ Watch' /\ Table'
    <3>1. CASE job[n] = "absent"
      <4>1. /\ Create(n) /\ UNCHANGED records
            /\ watched' = [watched EXCEPT ![upgrade[r].pod] = @ \cup {n}]
        BY <1>4, <3>1 DEF CreateJob
      <4>2. Watch'  BY <2>1, <4>1 DEF Watch
      <4> QED  BY <2>1, <4>1, <4>2, CreatesJob, SameTable
    <3>2. CASE job[n] # "absent"
      <4>1. Finish(n, "failed") /\ UNCHANGED <<job, watched>>
        BY <1>4, <3>2 DEF CreateJob
      <4> QED  BY <2>1, <4>1, ClosesWell, SameJobs, SameWatch DEF Outcome
    <3> QED  BY <3>1, <3>2
  <2> QED  BY <2>1, <2>2, <2>3, Parts, SamePods, SameChance
<1>5. CASE CreateFails(r) \/ HangUp(r)
  <2>1. /\ UNCHANGED <<now, done, pod, found, watched>> /\ End(r) /\ n \in Names
        /\ Create(n) \/ UNCHANGED job
    BY <1>1, <1>5 DEF CreateFails, HangUp
  <2>2. Jobs'  BY <2>1, CreatesJob, SameJobs
  <2>3. Table'
    BY <1>5, <2>1, ClosesWell, SameTable DEF CreateFails, HangUp, Outcome
  <2>4. Chance'
    <3>1. mishaps' \in 0 .. MaxMishaps  BY <1>5, Mishaps DEF CreateFails, HangUp, Fault
    <3> QED  BY <1>5, <2>1, <3>1 DEF CreateFails, HangUp, Fault, Chance
  <2> QED  BY <2>1, <2>2, <2>3, <2>4, EndsCall, Parts, SamePods, SameWatch
<1> QED  BY <1>2, <1>3, <1>4, <1>5

LEMMA JobSteps ==
  ASSUME UpdatesInv, NEW n \in Names, JobEnds(n) \/ JobExpires(n)
  PROVE  UpdatesInv'
<1> Jobs /\ Calls /\ Servers /\ Watch /\ Chance /\ Table  BY Parts
<1>1. UNCHANGED <<now, records, upgrade, pod, found, watched, luck>> /\ done \subseteq done'
  BY DEF JobEnds, JobExpires
<1>2. Jobs'
  BY DEF JobEnds, JobExpires, Jobs, CompleteIsDone, States
<1> QED
  BY <1>1, <1>2, Parts, SameTable, SamePods, SameCalls, SameChance, SameWatch

LEMMA Outcomes ==
  ASSUME NEW state \in States
  PROVE  /\ JobOutcome(state) = "succeeded" => state = "complete"
         /\ state \in {"complete", "failed"} => JobOutcome(state) \in Outcome
         /\ state \in {"absent", "active"} => JobOutcome(state) = Missing
BY NamesAssumption DEF JobOutcome, Outcome, States

LEMMA WatchSteps ==
  ASSUME UpdatesInv, NEW p \in Pods, NEW n \in Names,
         Observe(p, n) \/ GiveUp(p, n) \/ CloseFails(p, n)
  PROVE  UpdatesInv'
<1> Jobs /\ Calls /\ Servers /\ Watch /\ Chance /\ Table  BY Parts
<1>1. UNCHANGED <<now, job, done, upgrade, pod, found>> /\ Unwatch(p, n)
  BY DEF Observe, GiveUp, CloseFails
<1>2. Watch'  BY <1>1 DEF Watch, Unwatch
<1>3. Table'
  <2>1. CASE Observe(p, n)
    <3>1. job[n] \in States /\ JobOutcome(job[n]) # Missing /\ Finish(n, JobOutcome(job[n]))
      BY <2>1 DEF Observe, Jobs
    <3>2. JobOutcome(job[n]) \in Outcome  BY <3>1, Outcomes DEF States
    <3>3. JobOutcome(job[n]) = "succeeded" => job[n] = "complete"  BY <3>1, Outcomes
    <3> QED  BY <1>1, <3>1, <3>2, <3>3, ClosesWell
  <2>2. CASE GiveUp(p, n)
    BY <1>1, <2>2, ClosesWell DEF GiveUp, Outcome
  <2>3. CASE CloseFails(p, n)
    BY <1>1, <2>3, SameTable DEF CloseFails
  <2> QED  BY <2>1, <2>2, <2>3
<1>4. Chance'
  <2>1. CASE UNCHANGED luck  BY <1>1, <2>1, SameChance
  <2>2. CASE Lost
    <3>1. mishaps' \in 0 .. MaxMishaps  BY <2>2, Mishaps DEF Lost
    <3> QED  BY <1>1, <2>2, <3>1 DEF Lost, Chance
  <2> QED  BY <2>1, <2>2 DEF Observe, GiveUp, CloseFails
<1> QED  BY <1>1, <1>2, <1>3, <1>4, Parts, SamePods, SameCalls, SameJobs

LEMMA ServerSteps ==
  ASSUME UpdatesInv, NEW p \in Pods,
         Boot(p) \/ BootBlind(p) \/ Reconcile(p) \/ ReconcileFails(p) \/ Crash(p)
  PROVE  UpdatesInv'
<1> Jobs /\ Calls /\ Servers /\ Watch /\ Chance /\ Table  BY Parts
<1>1. UNCHANGED <<now, job, done>>
  BY DEF Boot, BootBlind, Reconcile, ReconcileFails, Crash
<1>2. ASSUME Lost \/ Fault PROVE Chance'
  <2>1. mishaps' \in 0 .. MaxMishaps  BY <1>2, Mishaps DEF Lost, Fault
  <2> QED  BY <1>1, <1>2, <2>1 DEF Lost, Fault, Chance
<1>3. ASSUME Up(p) PROVE Servers'
  BY <1>3 DEF Up, Servers
<1>4. CASE Boot(p)
  <2>1. UNCHANGED <<records, upgrade, watched, luck>>  BY <1>4 DEF Boot
  <2>2. Servers'
    <3>1. CASE Running = {} /\ Up(p)
      BY <1>3, <3>1
    <3>2. ASSUME NEW i \in NewestRunning,
                 pod' = [pod EXCEPT ![p] = "boot"], found' = [found EXCEPT ![p] = records[i].name]
          PROVE  Servers'
      <4>1. records[i] \in Record  BY DEF NewestRunning, Running, Table
      <4>2. records[i].name \in Names /\ records[i].name # Missing
        BY <4>1, NamesAssumption DEF Record
      <4> QED  BY <3>2, <4>2 DEF Servers
    <3> QED  BY <1>4, <3>1, <3>2 DEF Boot
  <2> QED
    BY <1>1, <2>1, <2>2, Parts, SameTable, SameCalls, SameChance, SameWatch, SameJobs
<1>5. CASE BootBlind(p)
  <2>1. UNCHANGED <<records, upgrade, watched, found>> /\ Lost  BY <1>5 DEF BootBlind
  <2>2. Servers'  BY <1>5, <2>1 DEF BootBlind, Servers
  <2> QED  BY <1>1, <1>2, <2>1, <2>2, Parts, SameTable, SameCalls, SameWatch, SameJobs
<1>6. CASE Reconcile(p)
  <2> DEFINE n == found[p]
  <2>1. n \in Names /\ job[n] \in States  BY <1>6 DEF Reconcile, Servers, Jobs
  <2>2. UNCHANGED <<upgrade, luck>> /\ Up(p)  BY <1>6 DEF Reconcile
  <2>3. Table' /\ Watch'
    <3>1. CASE job[n] = "absent"
      <4>1. Finish(n, "unknown") /\ UNCHANGED watched  BY <1>6, <3>1 DEF Reconcile
      <4> QED  BY <1>1, <2>1, <4>1, ClosesWell, SameWatch DEF Outcome
    <3>2. CASE job[n] = "active"
      <4>1. Resume(p, n) /\ UNCHANGED records  BY <1>6, <3>2 DEF Reconcile
      <4> QED  BY <1>1, <2>1, <4>1, SameTable DEF Resume, Watch
    <3>3. CASE job[n] \in {"complete", "failed"}
      <4>1. Finish(n, JobOutcome(job[n])) /\ UNCHANGED watched
        BY <1>6, <3>3 DEF Reconcile
      <4>2. /\ JobOutcome(job[n]) \in Outcome
            /\ JobOutcome(job[n]) = "succeeded" => job[n] = "complete"
        BY <2>1, <3>3, Outcomes
      <4> QED  BY <1>1, <2>1, <4>1, <4>2, ClosesWell, SameWatch
    <3> QED  BY <2>1, <3>1, <3>2, <3>3 DEF States
  <2> QED  BY <1>1, <1>3, <2>2, <2>3, Parts, SameCalls, SameChance, SameJobs
<1>7. CASE ReconcileFails(p)
  <2>1. /\ found[p] \in Names /\ Finish(found[p], "unknown") /\ Up(p) /\ Fault
        /\ UNCHANGED <<upgrade, watched>>
    BY <1>7 DEF ReconcileFails, Servers
  <2>2. Table'  BY <1>1, <2>1, ClosesWell DEF Outcome
  <2> QED  BY <1>1, <1>2, <1>3, <2>1, <2>2, Parts, SameCalls, SameWatch, SameJobs
<1>8. CASE Crash(p)
  <2>1. UNCHANGED records /\ Fault  BY <1>8 DEF Crash
  <2>2. Servers' /\ Watch'  BY <1>8 DEF Crash, Servers, Watch
  <2>3. Calls'
    <3>1. NoCall \in Upgrade /\ NoCall.pc = "idle"  BY DEF NoCall, Upgrade
    <3>2. upgrade' = [r \in Upgrades |-> IF upgrade[r].pod = p THEN NoCall ELSE upgrade[r]]
      BY <1>8 DEF Crash
    <3> HIDE DEF NoCall
    <3> QED  BY <3>1, <3>2 DEF Calls, CallsNamed
  <2> QED  BY <1>1, <1>2, <2>1, <2>2, <2>3, Parts, SameTable, SameJobs
<1> QED  BY <1>4, <1>5, <1>6, <1>7, <1>8

-----------------------------------------------------------------------------
(* The theorems *)

LEMMA InitKeeps == InitUpdates => UpdatesInv
<1> SUFFICES ASSUME InitUpdates PROVE UpdatesInv
  OBVIOUS
<1>1. Jobs /\ Watch /\ Table /\ Servers
  BY DEF InitUpdates, Jobs, Watch, Table, Servers, CompleteIsDone, SuccessIsReal, States
<1>2. Calls
  <2>1. NoCall \in Upgrade /\ NoCall.pc = "idle"  BY DEF NoCall, Upgrade
  <2> HIDE DEF NoCall
  <2> QED  BY <2>1 DEF InitUpdates, Calls, CallsNamed
<1>3. Chance  BY UpdateAssumption DEF InitUpdates, Chance
<1> QED  BY <1>1, <1>2, <1>3, Parts

LEMMA NextKeeps == UpdatesInv /\ [NextUpdates]_updateVars => UpdatesInv'
<1> SUFFICES ASSUME UpdatesInv, [NextUpdates]_updateVars PROVE UpdatesInv'
  OBVIOUS
<1> Jobs /\ Calls /\ Servers /\ Watch /\ Chance /\ Table  BY Parts
<1>1. CASE Tick
  <2>1. UNCHANGED <<records, job, done, upgrade, pod, found, watched, luck>>  BY <1>1 DEF Tick
  <2>2. Chance'  BY <1>1, UpdateAssumption DEF Tick, Chance, luck
  <2> QED
    BY <2>1, <2>2, Parts, SameTable, SamePods, SameCalls, SameJobs, SameWatch
<1>2. CASE UNCHANGED updateVars
  <2>1. UNCHANGED <<now, records, job, done, upgrade, pod, found, watched, luck>>
    BY <1>2 DEF updateVars, luck
  <2> QED
    BY <2>1, Parts, SameTable, SamePods, SameCalls, SameJobs, SameWatch, SameChance
<1> QED
  BY <1>1, <1>2, RequestSteps, JobSteps, WatchSteps, ServerSteps DEF NextUpdates, Start, Serve

\* An upgrade is called a success only when its Job has completed, whichever server saw it
\* and however often it was taken up again (SuccessIsReal; watch, ReconcileOnStartup).
THEOREM SuccessHolds == SpecUpdates => []SuccessIsReal
<1>1. SpecUpdates => []UpdatesInv  BY InitKeeps, NextKeeps, PTL DEF SpecUpdates
<1>2. UpdatesInv => SuccessIsReal  BY DEF UpdatesInv
<1> QED  BY <1>1, <1>2, PTL

\* Servers, calls, Jobs and records are what they may be, and a server has an open record in hand
\* exactly while it starts, through deaths and failures (ReconcileOnStartup).
THEOREM UpdatesTyped == SpecUpdates => []UpdatesTypeOK
<1>1. SpecUpdates => []UpdatesInv  BY InitKeeps, NextKeeps, PTL DEF SpecUpdates
<1>2. UpdatesInv => UpdatesTypeOK  BY DEF UpdatesInv
<1> QED  BY <1>1, <1>2, PTL

\* A step closes a record at most once, and rewrites none that is closed.
LEMMA ClosedStays ==
  ASSUME UpdatesInv, [NextUpdates]_updateVars, NEW i \in DOMAIN records, records[i].status # "running"
  PROVE  records'[i] = records[i]
<1> Jobs /\ Calls /\ Servers /\ Watch /\ Chance /\ Table  BY Parts
<1>1. ASSUME NEW n \in Names, NEW status \in Outcome, Finish(n, status)
      PROVE  records'[i] = records[i]
  BY <1>1, Finishes DEF Table
<1>2. ASSUME NEW r \in Upgrades, CreateRecord(r) \/ CreateJob(r) \/ CreateFails(r)
      PROVE  records'[i] = records[i]
  <2>1. upgrade[r].name \in Names  BY <1>2 DEF CreateRecord, CreateJob, CreateFails, Calls, CallsNamed
  <2>2. CASE CreateRecord(r)
    <3> DEFINE x == [name |-> upgrade[r].name, status |-> "running"]
    <3>1. records' = Append(records, x) /\ records \in Seq(Record)
      BY <2>2 DEF CreateRecord, Table
    <3>2. x \in Record  BY <2>1 DEF Record
    <3> HIDE DEF x
    <3> QED  BY <3>1, <3>2
  <2>3. CASE CreateJob(r) \/ CreateFails(r)
    BY <1>1, <2>1, <2>3 DEF CreateJob, CreateFails, Outcome
  <2> QED  BY <1>2, <2>2, <2>3
<1>3. ASSUME NEW p \in Pods, Reconcile(p) \/ ReconcileFails(p)
      PROVE  records'[i] = records[i]
  <2>1. found[p] \in Names  BY <1>3 DEF Reconcile, ReconcileFails, Servers
  <2>2. CASE ReconcileFails(p)  BY <1>1, <2>1, <2>2 DEF ReconcileFails, Outcome
  <2>3. CASE Reconcile(p)
    <3>1. job[found[p]] \in States  BY <2>1 DEF Jobs
    <3>2. job[found[p]] \in {"complete", "failed"} => JobOutcome(job[found[p]]) \in Outcome
      BY <3>1, Outcomes
    <3>3. "unknown" \in Outcome  BY DEF Outcome
    <3> QED  BY <1>1, <2>1, <2>3, <3>1, <3>2, <3>3 DEF Reconcile, States
  <2> QED  BY <1>3, <2>2, <2>3
<1>4. ASSUME NEW p \in Pods, NEW n \in Names, Observe(p, n) \/ GiveUp(p, n)
      PROVE  records'[i] = records[i]
  <2>1. job[n] \in States  BY DEF Jobs
  <2>2. JobOutcome(job[n]) # Missing => JobOutcome(job[n]) \in Outcome
    BY <2>1, Outcomes DEF States
  <2> QED  BY <1>1, <1>4, <2>2 DEF Observe, GiveUp, Outcome
<1>5. CASE UNCHANGED records  BY <1>5
<1> QED
  BY <1>2, <1>3, <1>4, <1>5
     DEF NextUpdates, Start, Serve, updateVars, Tick, Check, HangUp, JobEnds, JobExpires, Boot, BootBlind,
         Crash, CloseFails

\* A record is closed once, whoever comes later (FinishedOnce; FinishUpdateRecord).
THEOREM ClosedOnce == SpecUpdates => FinishedOnce
<1>1. SpecUpdates => []UpdatesInv  BY InitKeeps, NextKeeps, PTL DEF SpecUpdates
<1>2. UpdatesInv /\ [NextUpdates]_updateVars =>
        [\A i \in DOMAIN records :
           records[i].status # "running" => records'[i] = records[i]]_updateVars
  BY ClosedStays
<1> QED  BY <1>1, <1>2, PTL DEF SpecUpdates, FinishedOnce
=============================================================================
