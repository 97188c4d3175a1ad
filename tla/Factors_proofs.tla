--------------------------- MODULE Factors_proofs ---------------------------
(***************************************************************************)
(* Proofs about Factors: a factor is not overlooked by a sign-in, changes  *)
(* to the factors are paid for, and tickets are used once, for every       *)
(* number of requests, codes and passkeys.                                 *)
(*                                                                         *)
(* A request is followed through its statements: what it is about bounds   *)
(* where it can be, it has spent nothing before it takes a ticket, and     *)
(* what it has read of the account misses no factor that was there since   *)
(* before it read (Sound).                                                 *)
(***************************************************************************)
EXTENDS Factors, TLAPS

-----------------------------------------------------------------------------
(* The inductive invariant *)

Listers == {"login", "enroll", "register", "disable", "delete", "regenerate"}
Payers  == Listers \ {"login"}

\* Where a request can be, by what it is about.
OnItsWay(r) ==
    /\ req[r].at \in {"list", "keys"} => req[r].op \in Listers
    /\ req[r].at = "grant" => req[r].op \in Payers
    /\ req[r].at = "lock" => req[r].op \in {"verify", "password", "authenticated", "presented"}
    /\ req[r].at = "take" => req[r].op \in {"registered", "authenticated", "presented"}

\* What a request knows at the statements that use it.
Knows(r) ==
    /\ req[r].at = "save" => req[r].next \in Lockout
    /\ req[r].at \in {"confirm", "advance"} => req[r].has \in Nat

\* Nothing is spent before a ticket is taken.
Unspent(r) ==
    req[r].op = None \/ req[r].at \in {"list", "keys", "policy", "grant", "lock", "check", "take"}
    => req[r].spent = None

\* Between the two reads the app is not missed; after them a sign-in misses nothing.
Complete(r) ==
    /\ req[r].at = "keys" /\ TOTP \in since[r] => TOTP \in req[r].seen
    /\ At(r, "policy", {"login"}) => since[r] = {}

Paid(r) ==
    /\ req[r].at = "apply"
    /\ req[r].op \in Removals \cup {"regenerate"} \/ since[r] # {}
    => req[r].spent # None

Sound(r) == OnItsWay(r) /\ Knows(r) /\ Unspent(r) /\ Complete(r) /\ Paid(r)

\* Tickets are of the kind their table is for, and were handed out.
TicketsNumbered ==
    /\ \A t \in grants     : t \in Numbered({"grant"}, serial)
    /\ \A t \in ceremonies : t \in Numbered(Purposes, serial)
    /\ \A t \in codes      : t \in Numbered({"code"}, serial)

\* The parts of TypeOK that are not about what was begun.
Typed ==
    /\ totp \in Enrollment \cup {None}
    /\ passkeys \in SUBSET Nat
    /\ codes \in SUBSET Ticket
    /\ grants \in SUBSET Ticket
    /\ ceremonies \in SUBSET Ticket
    /\ lockout \in Lockout
    /\ policy \in BOOLEAN
    /\ tokens \in SUBSET DOMAIN AllowedForChallenge
    /\ req \in [Requests -> Request]
    /\ serial \in [Things -> Nat]
    /\ since \in [Requests -> SUBSET (Nat \cup {TOTP})]

IInv ==
    /\ Typed
    /\ TicketsNumbered
    /\ \A r \in Requests : since[r] \subseteq Held
    /\ \A r \in Requests : Sound(r)

-----------------------------------------------------------------------------
(* The constants *)

LEMMA OpsAre ==
    /\ Ops = {"login", "verify", "authenticate", "authenticated", "password", "present",
              "presented", "enroll", "confirm", "disable", "register", "registered",
              "delete", "regenerate"}
    /\ None \notin Ops
BY AccountsAssumption DEF Ops, Wants

LEMMA WantsAre ==
    /\ \A op \in Ops : Wants[op] \in Kinds \cup {None}
    /\ \A op \in Payers : Wants[op] = "grant"
    /\ Wants["verify"] = "code"
    /\ \A op \in {"registered", "authenticated", "presented"} : Wants[op] \in Ceremonies
<1>1. /\ Wants["login"] = None /\ Wants["verify"] = "code" /\ Wants["authenticate"] = None
      /\ Wants["authenticated"] = "authenticate" /\ Wants["password"] = None
      /\ Wants["present"] = None /\ Wants["presented"] = "reauth"
      /\ Wants["enroll"] = "grant" /\ Wants["confirm"] = None /\ Wants["disable"] = "grant"
      /\ Wants["register"] = "grant" /\ Wants["registered"] = "register"
      /\ Wants["delete"] = "grant" /\ Wants["regenerate"] = "grant"
  BY DEF Wants
<1> HIDE DEF Wants
<1> QED  BY <1>1, OpsAre DEF Payers, Listers, Ceremonies, Kinds, Purposes

-----------------------------------------------------------------------------
(* One request moves *)

\* Request r goes on, to a place, and no other request does; what it is about stays.
Moved(r, place) ==
    /\ req' \in [Requests -> Request]
    /\ \A q \in Requests \ {r} : req'[q] = req[q]
    /\ req'[r].op = req[r].op
    /\ req'[r].at = place

LEMMA Becomes ==
  ASSUME Typed, NEW r \in Requests, NEW x \in Request, Set(r, x)
  PROVE  /\ req' \in [Requests -> Request]
         /\ \A q \in Requests \ {r} : req'[q] = req[q]
         /\ req'[r] = x
BY DEF Typed, Set

LEMMA GoMoves ==
  ASSUME Typed, NEW r \in Requests, NEW place \in Places, Go(r, place)
  PROVE  /\ Moved(r, place)
         /\ req'[r].has = req[r].has /\ req'[r].next = req[r].next
         /\ req'[r].seen = req[r].seen /\ req'[r].spent = req[r].spent
         /\ req'[r].secret = req[r].secret
<1> DEFINE x == req[r]
           z == [x EXCEPT !.at = place]
<1>1. x \in Request  BY DEF Typed
<1>2. /\ z \in Request /\ z.at = place /\ z.op = x.op /\ z.has = x.has
      /\ z.next = x.next /\ z.seen = x.seen /\ z.spent = x.spent /\ z.secret = x.secret
  BY <1>1 DEF Request
<1>3. Set(r, z)  BY DEF Go
<1> HIDE DEF z
<1> QED  BY <1>2, <1>3, Becomes DEF Moved

LEMMA GoWithMoves ==
  ASSUME Typed, NEW r \in Requests, NEW place \in Places, NEW y \in Nat \cup {None},
         GoWith(r, place, y)
  PROVE  Moved(r, place) /\ req'[r].has = y /\ req'[r].spent = req[r].spent
<1> DEFINE x == req[r]
           z == [x EXCEPT !.at = place, !.has = y]
<1>1. x \in Request  BY DEF Typed
<1>2. /\ z \in Request /\ z.at = place /\ z.op = x.op /\ z.has = y
      /\ z.spent = x.spent
  BY <1>1 DEF Request
<1>3. Set(r, z)  BY DEF GoWith
<1> HIDE DEF z
<1> QED  BY <1>2, <1>3, Becomes DEF Moved

LEMMA GoKnowingMoves ==
  ASSUME Typed, NEW r \in Requests, NEW place \in Places,
         NEW S \in SUBSET (Nat \cup {TOTP}), GoKnowing(r, place, S)
  PROVE  Moved(r, place) /\ req'[r].seen = S /\ req'[r].spent = req[r].spent
<1> DEFINE x == req[r]
           z == [x EXCEPT !.at = place, !.seen = S]
<1>1. x \in Request  BY DEF Typed
<1>2. /\ z \in Request /\ z.at = place /\ z.op = x.op /\ z.seen = S
      /\ z.spent = x.spent
  BY <1>1 DEF Request
<1>3. Set(r, z)  BY DEF GoKnowing
<1> HIDE DEF z
<1> QED  BY <1>2, <1>3, Becomes DEF Moved

LEMMA GoSpendingMoves ==
  ASSUME Typed, NEW r \in Requests, NEW place \in Places, NEW t \in Ticket,
         GoSpending(r, place, t)
  PROVE  Moved(r, place) /\ req'[r].spent = t
<1> DEFINE x == req[r]
           z == [x EXCEPT !.at = place, !.spent = t]
<1>1. x \in Request  BY DEF Typed
<1>2. z \in Request /\ z.at = place /\ z.op = x.op /\ z.spent = t
  BY <1>1 DEF Request
<1>3. Set(r, z)  BY DEF GoSpending
<1> HIDE DEF z
<1> QED  BY <1>2, <1>3, Becomes DEF Moved

LEMMA CheckingMoves ==
  ASSUME Typed, NEW r \in Requests, NEW step \in Steps, totp # None,
         Set(r, [req[r] EXCEPT !.at = "confirm", !.has = step, !.secret = totp.secret])
  PROVE  /\ Moved(r, "confirm")
         /\ req'[r].has = step /\ req'[r].spent = req[r].spent
         /\ req'[r].secret = totp.secret
<1> DEFINE x == req[r]
           n == totp.secret
           z == [x EXCEPT !.at = "confirm", !.has = step, !.secret = n]
<1>1. x \in Request /\ n \in Nat /\ step \in Nat
  BY FactorsAssumption DEF Typed, Enrollment
<1>2. Set(r, z)  OBVIOUS
<1> HIDE DEF n
<1>3. /\ z \in Request /\ z.at = "confirm" /\ z.op = x.op /\ z.has = step
      /\ z.secret = n /\ z.spent = x.spent
  BY <1>1 DEF Request, Places
<1> HIDE DEF z
<1> QED  BY <1>2, <1>3, Becomes DEF Moved, n

LEMMA DoneMoves ==
  ASSUME Typed, NEW r \in Requests, Done(r)
  PROVE  Moved(r, "done") /\ req'[r].spent = req[r].spent
<1> DEFINE n == NoRequest
           x == req[r]
           z == [n EXCEPT !.op = x.op, !.spent = x.spent]
<1>1. n \in Request /\ n.at = "done"  BY DEF NoRequest, Request, Places
<1>2. x \in Request  BY DEF Typed
<1>3. x.op \in Ops \cup {None} /\ x.spent \in Ticket \cup {None}  BY <1>2 DEF Request
<1>4. Set(r, z)  BY DEF Done
<1> HIDE DEF n, x
<1>5. z \in Request /\ z.at = "done" /\ z.op = x.op /\ z.spent = x.spent
  BY <1>1, <1>3 DEF Request
<1> HIDE DEF z
<1> QED  BY <1>4, <1>5, Becomes DEF Moved, x

-----------------------------------------------------------------------------
(* What a step has to show *)

TablesOK ==
    /\ totp \in Enrollment \cup {None}
    /\ passkeys \in SUBSET Nat
    /\ codes \in SUBSET Ticket
    /\ grants \in SUBSET Ticket
    /\ ceremonies \in SUBSET Ticket
    /\ lockout \in Lockout
    /\ policy \in BOOLEAN
    /\ tokens \in SUBSET DOMAIN AllowedForChallenge
    /\ serial \in [Things -> Nat]

\* No request is taken to have held a factor for longer than it has.
StillHeld ==
    /\ since' \in [Requests -> SUBSET (Nat \cup {TOTP})]
    /\ \A q \in Requests : since'[q] \subseteq since[q] /\ since'[q] \subseteq Held'

\* A request that stays where it is stays sound while factors go.
LEMMA OthersStaySound ==
  ASSUME NEW q \in Requests, Sound(q), req'[q] = req[q], since'[q] \subseteq since[q]
  PROVE  Sound(q)'
<1>1. OnItsWay(q)' /\ Knows(q)' /\ Unspent(q)'
  BY DEF Sound, OnItsWay, Knows, Unspent
<1>2. Complete(q)' /\ Paid(q)'
  BY DEF Sound, Complete, Paid, At
<1> QED  BY <1>1, <1>2 DEF Sound

LEMMA OneMoves ==
  ASSUME IInv, NEW r \in Requests, NEW place \in Places, Moved(r, place),
         TablesOK', TicketsNumbered', StillHeld, Sound(r)'
  PROVE  IInv'
<1>1. Typed'  BY DEF Typed, TablesOK, StillHeld, Moved
<1>2. \A q \in Requests : since'[q] \subseteq Held'  BY DEF StillHeld
<1>3. ASSUME NEW q \in Requests PROVE Sound(q)'
  <2>1. CASE q = r  BY <2>1
  <2>2. CASE q # r
    <3>1. Sound(q) /\ req'[q] = req[q] /\ since'[q] \subseteq since[q]
      BY <2>2 DEF IInv, StillHeld, Moved
    <3> QED  BY <3>1, OthersStaySound
  <2> QED  BY <2>1, <2>2
<1> QED  BY <1>1, <1>2, <1>3 DEF IInv

\* The factors, the tickets and the times since they are held stay.
SameFactors == UNCHANGED <<totp, passkeys, codes, grants, ceremonies, serial, since>>

LEMMA SameStaysHeld ==
  ASSUME IInv, UNCHANGED <<totp, passkeys, since>>
  PROVE  StillHeld
BY DEF IInv, StillHeld, Typed, Held, Confirmed

LEMMA SameNumbers ==
  ASSUME IInv, UNCHANGED <<codes, grants, ceremonies, serial>>
  PROVE  TicketsNumbered'
BY DEF IInv, TicketsNumbered, Numbered

LEMMA Quiet ==
  ASSUME IInv, NEW r \in Requests, NEW place \in Places, Moved(r, place), SameFactors,
         lockout' \in Lockout, UNCHANGED policy,
         tokens' \in SUBSET DOMAIN AllowedForChallenge, Sound(r)'
  PROVE  IInv'
<1>1. TablesOK'  BY DEF TablesOK, IInv, Typed, SameFactors
<1> QED  BY <1>1, SameStaysHeld, SameNumbers, OneMoves DEF SameFactors

\* Places where nothing has to be known of a request.
Free == Places \ {"list", "keys", "policy", "grant", "lock", "take", "check", "apply",
                  "confirm", "advance", "save"}

LEMMA FreeIsSound ==
  ASSUME IInv, NEW r \in Requests, NEW place \in Free, Moved(r, place),
         req'[r].spent = req[r].spent \/ req[r].op # None
  PROVE  Sound(r)' /\ place \in Places
<1>1. Unspent(r)  BY DEF IInv, Sound
<1> QED  BY <1>1 DEF Moved, Sound, OnItsWay, Knows, Unspent, Complete, Paid, At, Free

\* Quiet steps to a free place.
Quietly ==
    /\ SameFactors
    /\ lockout' \in Lockout
    /\ policy' = policy
    /\ tokens' \in SUBSET DOMAIN AllowedForChallenge

LEMMA QuietFree ==
  ASSUME IInv, NEW r \in Requests, NEW place \in Free, Moved(r, place), Quietly,
         req'[r].spent = req[r].spent
  PROVE  IInv'
BY FreeIsSound, Quiet DEF Quietly

LEMMA QuietDone ==
  ASSUME IInv, NEW r \in Requests, Done(r), Quietly
  PROVE  IInv'
<1>1. Typed /\ "done" \in Free  BY DEF IInv, Free, Places
<1> QED  BY <1>1, DoneMoves, QuietFree

LEMMA QuietGo ==
  ASSUME IInv, NEW r \in Requests, NEW place \in Free, Go(r, place), Quietly
  PROVE  IInv'
<1>1. Typed /\ place \in Places  BY DEF IInv, Free
<1> QED  BY <1>1, GoMoves, QuietFree

\* Steps that leave all but the request as it is.
OnlyRequests ==
    UNCHANGED <<totp, passkeys, codes, grants, ceremonies, lockout, policy, tokens,
                serial, since>>

LEMMA OnlyRequestsIsQuiet ==
  ASSUME IInv, OnlyRequests
  PROVE  Quietly
BY DEF IInv, Typed, OnlyRequests, Quietly, SameFactors

-----------------------------------------------------------------------------
(* Statements that only read *)

LEMMA PlainSteps ==
  ASSUME IInv, NEW r \in Requests,
         \/ CountUnusedBackupCodes(r) \/ CheckPassword(r) \/ FinishLogin(r) \/ WrongAnswer(r)
         \/ Relist(r)
  PROVE  IInv'
<1> USE DEF Free, Places
<1>1. CASE CountUnusedBackupCodes(r)
  BY <1>1, OnlyRequestsIsQuiet, QuietDone, QuietGo DEF CountUnusedBackupCodes, OnlyRequests
<1>2. CASE CheckPassword(r)
  BY <1>2, OnlyRequestsIsQuiet, QuietGo DEF CheckPassword, OnlyRequests
<1>3. CASE FinishLogin(r)
  BY <1>3, OnlyRequestsIsQuiet, QuietGo DEF FinishLogin, OnlyRequests
<1>4. CASE WrongAnswer(r)
  BY <1>4, OnlyRequestsIsQuiet, QuietGo DEF WrongAnswer, OnlyRequests
<1>5. CASE Relist(r)
  <2>1. Quietly  BY <1>5, OnlyRequestsIsQuiet DEF Relist, OnlyRequests
  <2>2. CASE Done(r)  BY <2>1, <2>2, QuietDone
  <2>3. CASE GoKnowing(r, "clear", {})
    <3>1. Typed /\ "clear" \in Places /\ {} \in SUBSET (Nat \cup {TOTP})  BY DEF IInv
    <3>2. Moved(r, "clear") /\ req'[r].spent = req[r].spent
      BY <3>1, <2>3, GoKnowingMoves
    <3> QED  BY <3>2, <2>1, QuietFree
  <2> QED  BY <1>5, <2>2, <2>3 DEF Relist
<1> QED  BY <1>1, <1>2, <1>3, <1>4, <1>5

LEMMA ReadingKeeps ==
  ASSUME IInv, NEW r \in Requests,
         ListTOTP(r) \/ GuardLastFactor(r) \/ CheckPending(r) \/ VerifyTOTP(r) \/ ReadLockout(r)
  PROVE  IInv'
<1> Typed /\ Sound(r) /\ req[r] \in Request  BY DEF IInv, Typed
<1> USE FactorsAssumption
<1>1. Quietly
  BY OnlyRequestsIsQuiet
     DEF OnlyRequests, ListTOTP, GuardLastFactor, CheckPending, VerifyTOTP, ReadLockout
<1>2. ASSUME NEW place \in Places, Moved(r, place), Sound(r)'
      PROVE  IInv'
  BY <1>1, <1>2, Quiet DEF Quietly
<1>3. CASE ListTOTP(r)
  <2> DEFINE found == IF Confirmed THEN {TOTP} ELSE {}
  <2>1. found \in SUBSET (Nat \cup {TOTP})  OBVIOUS
  <2>2. TOTP \in since[r] => TOTP \in found
    BY DEF IInv, Typed, Held
  <2> HIDE DEF found
  <2>3. CASE req[r].at = "list"
    <3>1. GoKnowing(r, "keys", found) /\ "keys" \in Places /\ req[r].op \in Listers
      BY <1>3, <2>3 DEF ListTOTP, found, Places, Sound, OnItsWay
    <3>2. Moved(r, "keys") /\ req'[r].seen = found /\ req'[r].spent = req[r].spent
      BY <3>1, <2>1, GoKnowingMoves
    <3>3. req[r].spent = None /\ since' = since  BY <2>3, <1>3 DEF Sound, Unspent, ListTOTP
    <3>4. Sound(r)'
      BY <3>1, <3>2, <3>3, <2>2
         DEF Moved, Sound, OnItsWay, Knows, Unspent, Complete, Paid, At
    <3> QED  BY <3>1, <3>2, <3>4, <1>2
  <2>4. CASE req[r].at = "relist"
    <3>1. GoKnowing(r, "rekeys", found) /\ "rekeys" \in Free
      BY <1>3, <2>4 DEF ListTOTP, found, Free, Places
    <3>2. Moved(r, "rekeys") /\ req'[r].spent = req[r].spent
      BY <3>1, <2>1, GoKnowingMoves DEF Free
    <3> QED  BY <3>1, <3>2, <1>1, QuietFree
  <2> QED  BY <1>3, <2>3, <2>4 DEF ListTOTP
<1>4. CASE GuardLastFactor(r)
  <2>1. CASE Done(r)  BY <2>1, <1>1, QuietDone
  <2>2. CASE GoKnowing(r, "grant", {})
    <3>1. Moved(r, "grant") /\ req'[r].spent = req[r].spent
      BY <2>2, GoKnowingMoves DEF Places
    <3>2. req[r].spent = None /\ req[r].op \in Payers
      BY <1>4 DEF GuardLastFactor, Sound, Unspent, At, Payers, Listers, Removals
    <3>3. Sound(r)'
      BY <3>1, <3>2 DEF Moved, Sound, OnItsWay, Knows, Unspent, Complete, Paid, At
    <3> QED  BY <3>1, <3>3, <1>2 DEF Places
  <2> QED  BY <1>4, <2>1, <2>2 DEF GuardLastFactor
<1>5. CASE CheckPending(r)
  <2>1. CASE Done(r)  BY <2>1, <1>1, QuietDone
  <2>2. ASSUME NEW step \in Steps, totp # None,
               Set(r, [req[r] EXCEPT !.at = "confirm", !.has = step, !.secret = totp.secret])
        PROVE  IInv'
    <3>1. Moved(r, "confirm") /\ req'[r].has = step /\ req'[r].spent = req[r].spent
      BY <2>2, CheckingMoves
    <3>2. step \in Nat  OBVIOUS
    <3>3. Sound(r)'
      BY <3>1, <3>2 DEF Moved, Sound, OnItsWay, Knows, Unspent, Complete, Paid, At
    <3> QED  BY <3>1, <3>3, <1>2 DEF Places
  <2> QED  BY <1>5, <2>1, <2>2 DEF CheckPending
<1>6. CASE VerifyTOTP(r)
  <2>1. PICK step \in Steps : GoWith(r, "advance", step)  BY <1>6 DEF VerifyTOTP
  <2>2. Moved(r, "advance") /\ req'[r].has = step /\ req'[r].spent = req[r].spent
    BY <2>1, GoWithMoves DEF Places
  <2>3. step \in Nat  OBVIOUS
  <2>4. req[r].op # None  BY <1>6, OpsAre DEF VerifyTOTP, At
  <2>5. Sound(r)'
    BY <2>2, <2>3, <2>4 DEF Moved, Sound, OnItsWay, Knows, Unspent, Complete, Paid, At
  <2> QED  BY <2>2, <2>5, <1>2 DEF Places
<1>7. CASE ReadLockout(r)
  <2>1. CASE Done(r)  BY <2>1, <1>1, QuietDone
  <2>2. CASE ~Done(r)
    <3> DEFINE place == IF req[r].op \in {"verify", "password"} THEN "check" ELSE "take"
    <3>1. Go(r, place) /\ place \in Places  BY <2>2, <1>7 DEF ReadLockout, Places
    <3>2. /\ req[r].spent = None
          /\ req[r].op \in {"verify", "password", "authenticated", "presented"}
      BY <1>7 DEF ReadLockout, Sound, Unspent, OnItsWay
    <3>3. \/ place = "check"
          \/ place = "take" /\ req[r].op \in {"authenticated", "presented"}
      BY <3>2
    <3> HIDE DEF place
    <3>4. Moved(r, place) /\ req'[r].spent = req[r].spent  BY <3>1, GoMoves
    <3>5. Sound(r)'
      BY <3>2, <3>3, <3>4 DEF Moved, Sound, OnItsWay, Knows, Unspent, Complete, Paid, At
    <3> QED  BY <3>1, <3>4, <3>5, <1>2
  <2> QED  BY <2>1, <2>2
<1> QED  BY <1>3, <1>4, <1>5, <1>6, <1>7

LEMMA ListPasskeysKeeps ==
  ASSUME IInv, NEW r \in Requests, ListPasskeys(r)
  PROVE  IInv'
<1> Typed /\ Sound(r) /\ req[r] \in Request  BY DEF IInv, Typed
<1> DEFINE found == Enrollments(r)
<1>1. found \in SUBSET (Nat \cup {TOTP})
  BY DEF Enrollments, Typed, Request
<1>2. found = {} => since[r] = {}
  <2>1. since[r] \subseteq Held  BY DEF IInv
  <2>2. Held \subseteq {TOTP} \cup passkeys  BY DEF Held
  <2>3. TOTP \in since[r] => TOTP \in req[r].seen
    BY DEF ListPasskeys, Sound, Complete
  <2> QED  BY <2>1, <2>2, <2>3 DEF Enrollments
<1>3. /\ req[r].spent = None /\ req[r].op \in Listers
      /\ since' = since
  BY DEF ListPasskeys, Sound, Unspent, OnItsWay
<1>4. SameFactors /\ lockout' \in Lockout /\ policy' = policy
  BY DEF ListPasskeys, SameFactors, Typed
<1>5. Quietly
  BY <1>3, <1>4 DEF ListPasskeys, Quietly, Typed, Listers, Removals, AllowedForChallenge
<1>6. ASSUME NEW place \in Places, Moved(r, place), Sound(r)'
      PROVE  IInv'
  BY <1>5, <1>6, Quiet DEF Quietly
<1>7. CASE Done(r)  BY <1>5, <1>7, QuietDone
<1>8. CASE req[r].op = "login" /\ found = {} /\ Go(r, "policy")
  <2>1. Moved(r, "policy") /\ req'[r].spent = req[r].spent  BY <1>8, GoMoves DEF Places
  <2>2. Sound(r)'
    BY <2>1, <1>2, <1>3, <1>8 DEF Moved, Sound, OnItsWay, Knows, Unspent, Complete, Paid, At
  <2> QED  BY <2>1, <2>2, <1>6 DEF Places
<1>9. CASE req[r].op \in Removals /\ GoKnowing(r, "policy", found)
  <2>1. Moved(r, "policy") /\ req'[r].spent = req[r].spent
    BY <1>9, <1>1, GoKnowingMoves DEF Places
  <2>2. Sound(r)'
    BY <2>1, <1>3, <1>9
       DEF Moved, Sound, OnItsWay, Knows, Unspent, Complete, Paid, At, Removals
  <2> QED  BY <2>1, <2>2, <1>6 DEF Places
<1>10. CASE req[r].op \in {"enroll", "register"} /\ found = {} /\ GoKnowing(r, "apply", {})
  <2>1. Moved(r, "apply") /\ req'[r].spent = req[r].spent
    BY <1>10, GoKnowingMoves DEF Places
  <2>2. req[r].op # None  BY <1>10, OpsAre
  <2>3. Sound(r)'
    BY <2>1, <2>2, <1>2, <1>3, <1>10
       DEF Moved, Sound, OnItsWay, Knows, Unspent, Complete, Paid, At, Removals
  <2> QED  BY <2>1, <2>3, <1>6 DEF Places
<1>11. CASE req[r].op \in {"enroll", "register", "regenerate"} /\ GoKnowing(r, "grant", {})
  <2>1. Moved(r, "grant") /\ req'[r].spent = req[r].spent
    BY <1>11, GoKnowingMoves DEF Places
  <2>2. Sound(r)'
    BY <2>1, <1>3, <1>11
       DEF Moved, Sound, OnItsWay, Knows, Unspent, Complete, Paid, At, Payers, Listers
  <2> QED  BY <2>1, <2>2, <1>6 DEF Places
<1> QED
  BY <1>3, <1>7, <1>8, <1>9, <1>10, <1>11 DEF ListPasskeys, Listers, Removals

\* A grant that is taken pays for the change.
LEMMA RequireReauthKeeps ==
  ASSUME IInv, NEW r \in Requests, RequireReauth(r)
  PROVE  IInv'
<1> Typed /\ Sound(r)  BY DEF IInv
<1>1. UNCHANGED <<totp, passkeys, codes, ceremonies, lockout, policy, tokens, serial, since>>
  BY DEF RequireReauth
<1>2. CASE Refused(r)
  BY <1>1, <1>2, QuietDone DEF Refused, Quietly, SameFactors, Typed
<1>3. CASE TakeReauthGrant(r)
  <2>1. PICK g \in grants : grants' = grants \ {g} /\ GoSpending(r, "apply", g)
    BY <1>3 DEF TakeReauthGrant
  <2>2. g \in Ticket /\ g # None  BY AccountsAssumption DEF Typed
  <2>3. Moved(r, "apply") /\ req'[r].spent = g
    BY <2>1, <2>2, GoSpendingMoves DEF Places
  <2>4. TablesOK'  BY <1>1, <2>1 DEF TablesOK, Typed
  <2>5. TicketsNumbered'
    BY <1>1, <2>1 DEF IInv, TicketsNumbered, Numbered
  <2>6. req[r].op # None  BY OpsAre DEF RequireReauth, Sound, OnItsWay, Payers, Listers
  <2>7. Sound(r)'
    BY <2>2, <2>3, <2>6 DEF Moved, Sound, OnItsWay, Knows, Unspent, Complete, Paid, At
  <2> QED  BY <1>1, <2>3, <2>4, <2>5, <2>7, SameStaysHeld, OneMoves DEF Places
<1> QED  BY <1>2, <1>3 DEF RequireReauth

-----------------------------------------------------------------------------
(* Statements that write *)

LEMMA Arrives ==
  ASSUME IInv, NEW r \in Requests, Begin(r)
  PROVE  /\ IInv'
         /\ req[r].op = None /\ req[r].spent = None /\ req'[r].spent = None
         /\ req'[r].op \in Ops /\ \A q \in Requests \ {r} : req'[q] = req[q]
         /\ req' \in [Requests -> Request]
<1> Typed /\ Sound(r)  BY DEF IInv
<1>1. req[r].op = None /\ req[r].spent = None  BY DEF Begin, Sound, Unspent
<1>2. PICK op \in Reachable, p \in passkeys \cup {None} :
             Set(r, [NoRequest EXCEPT !.op = op, !.at = Entry(op), !.has = p])
  BY DEF Begin
<1>3. op \in Ops
  BY OpsAre DEF Reachable, AllowedForChallenge, Typed
<1>4. Entry(op) \in Places
  BY <1>3, OpsAre DEF Entry, Places
<1> DEFINE e == Entry(op)
           n == NoRequest
           x == [n EXCEPT !.op = op, !.at = e, !.has = p]
<1>5. n \in Request /\ n.spent = None  BY DEF NoRequest, Request, Places
<1>6. p \in Nat \cup {None}  BY DEF Typed
<1>7. Set(r, x)  BY <1>2
<1> HIDE DEF n, e
<1>8. x \in Request /\ x.op = op /\ x.at = e /\ x.spent = None
  BY <1>3, <1>4, <1>5, <1>6 DEF Request, e
<1> HIDE DEF x
<1>9. /\ req' \in [Requests -> Request]
      /\ \A q \in Requests \ {r} : req'[q] = req[q]
      /\ req'[r] = x
  BY <1>7, <1>8, Becomes
<1>10. Sound(r)'
  <2>1. CASE e \in {"read", "begin"}
    BY <1>8, <1>9, <2>1 DEF Sound, OnItsWay, Knows, Unspent, Complete, Paid, At
  <2>2. CASE e = "list" /\ op \in Listers
    BY <1>8, <1>9, <2>2 DEF Sound, OnItsWay, Knows, Unspent, Complete, Paid, At
  <2>3. CASE e = "take" /\ op = "registered"
    BY <1>8, <1>9, <2>3 DEF Sound, OnItsWay, Knows, Unspent, Complete, Paid, At
  <2>4. CASE e = "lock" /\ op \in {"verify", "authenticated", "password", "presented"}
    BY <1>8, <1>9, <2>4 DEF Sound, OnItsWay, Knows, Unspent, Complete, Paid, At
  <2> QED  BY <1>3, <2>1, <2>2, <2>3, <2>4, OpsAre DEF e, Entry, Listers
<1>11. since' = [since EXCEPT ![r] = Held]
       /\ UNCHANGED <<totp, passkeys, codes, grants, ceremonies, lockout, policy, tokens, serial>>
  BY DEF Begin
<1>12. Typed' /\ Held' = Held
  <2>1. Held \in SUBSET (Nat \cup {TOTP}) /\ Held' = Held
    BY <1>11 DEF Held, Confirmed, Typed
  <2>2. since' \in [Requests -> SUBSET (Nat \cup {TOTP})]
    BY <1>11, <2>1 DEF Typed
  <2> QED  BY <1>9, <1>11, <2>1, <2>2 DEF Typed
<1>13. \A q \in Requests : since'[q] \subseteq Held'
  BY <1>11, <1>12 DEF IInv, Typed
<1>14. ASSUME NEW q \in Requests PROVE Sound(q)'
  <2>1. CASE q = r  BY <2>1, <1>10
  <2>2. CASE q # r
    BY <2>2, <1>9, <1>11, OthersStaySound DEF IInv, Typed
  <2> QED  BY <2>1, <2>2
<1>15. TicketsNumbered'  BY <1>11, SameNumbers
<1>16. IInv'  BY <1>12, <1>13, <1>14, <1>15 DEF IInv
<1> QED  BY <1>1, <1>3, <1>8, <1>9, <1>16

LEMMA IssuingKeeps ==
  ASSUME IInv, NEW r \in Requests, IssueWithoutFactor(r) \/ IssueSessionAfterMFA(r)
  PROVE  IInv'
<1>1. Done(r)  BY DEF IssueWithoutFactor, IssueSessionAfterMFA
<1>2. Quietly
  BY DEF IssueWithoutFactor, IssueSessionAfterMFA, Quietly, SameFactors, IInv, Typed,
         AllowedForChallenge
<1> QED  BY <1>1, <1>2, QuietDone

LEMMA LockoutIsOne ==
  /\ NoLockout \in Lockout /\ ClearLockout \in Lockout
  /\ \A s \in Lockout : NextLockout(s) \in Lockout
<1>1. NoLockout \in Lockout /\ ClearLockout \in Lockout
  BY FactorsAssumption DEF Lockout, NoLockout, ClearLockout
<1>2. ASSUME NEW s \in Lockout PROVE NextLockout(s) \in Lockout
  <2> DEFINE failed == IF s.old THEN 1
                       ELSE IF s.failed = LockoutThreshold THEN s.failed ELSE s.failed + 1
  <2>1. failed \in 0..LockoutThreshold
    BY FactorsAssumption DEF Lockout
  <2>2. NextLockout(s) = [failed |-> failed, old |-> FALSE, locked |-> failed = LockoutThreshold]
    BY DEF NextLockout
  <2> HIDE DEF failed
  <2> QED  BY <2>1, <2>2 DEF Lockout
<1> QED  BY <1>1, <1>2

LEMMA LockoutSteps ==
  ASSUME IInv, NEW r \in Requests,
         CountFailure(r) \/ SaveLockout(r) \/ ClearMFAFailures(r)
  PROVE  IInv'
<1> Typed /\ Sound(r) /\ req[r] \in Request  BY DEF IInv, Typed
<1>1. CASE SaveLockout(r)
  <2>1. req[r].next \in Lockout  BY <1>1 DEF SaveLockout, Sound, Knows
  <2> QED  BY <1>1, <2>1, QuietDone DEF SaveLockout, Quietly, SameFactors, Typed
<1>2. CASE ClearMFAFailures(r)
  BY <1>2, LockoutIsOne, QuietGo DEF ClearMFAFailures, Quietly, SameFactors, Typed, Free, Places
<1>3. CASE CountFailure(r)
  <2> DEFINE n == NextLockout(lockout)
             x == req[r]
             z == [x EXCEPT !.at = "save", !.next = n]
  <2>1. n \in Lockout  BY LockoutIsOne DEF Typed
  <2>2. Set(r, z) /\ Quietly
    BY <1>3, OnlyRequestsIsQuiet DEF CountFailure, OnlyRequests
  <2> HIDE DEF n
  <2>3. z \in Request /\ z.at = "save" /\ z.next = n /\ z.op = x.op /\ z.spent = x.spent
    BY <2>1 DEF Request, Places
  <2> HIDE DEF z
  <2>4. Moved(r, "save") /\ req'[r].next = n /\ req'[r].spent = req[r].spent
    BY <2>2, <2>3, Becomes DEF Moved
  <2>5. Sound(r)'
    BY <2>1, <2>4 DEF Moved, Sound, OnItsWay, Knows, Unspent, Complete, Paid, At
  <2> QED  BY <2>2, <2>4, <2>5, Quiet DEF Places, Quietly
<1> QED  BY <1>1, <1>2, <1>3

\* Steps of the request alone, to a free place, that write tables.
LEMMA WritesFree ==
  ASSUME IInv, NEW r \in Requests, NEW place \in Free, Moved(r, place),
         req'[r].spent = req[r].spent \/ req[r].op # None,
         TablesOK', TicketsNumbered', StillHeld
  PROVE  IInv'
BY FreeIsSound, OneMoves

-----------------------------------------------------------------------------
(* The authenticator app *)

\* An app that is held stays held, or since forgets it.
LEMMA AppKept ==
  ASSUME IInv, UNCHANGED <<passkeys, since>>, Confirmed => Confirmed'
  PROVE  StillHeld
BY DEF IInv, Typed, StillHeld, Held

LEMMA AppSteps ==
  ASSUME IInv, NEW r \in Requests,
         EnrollTOTP(r) \/ ConfirmTOTP(r) \/ AdvanceTOTPCounter(r) \/ DisableTOTP(r)
  PROVE  IInv'
<1> Typed /\ Sound(r) /\ req[r] \in Request  BY DEF IInv, Typed
<1> USE FactorsAssumption, AccountsAssumption DEF Free, Places
<1>1. CASE EnrollTOTP(r)
  <2>1. Moved(r, "done") /\ req'[r].spent = req[r].spent
    BY <1>1, DoneMoves DEF EnrollTOTP
  <2>2. /\ UNCHANGED <<passkeys, codes, grants, ceremonies, lockout, policy, tokens, since>>
        /\ totp' \in Enrollment \cup {None} /\ serial' \in [Things -> Nat]
        /\ \A k \in Kinds : serial'[k] = serial[k]
        /\ Confirmed => Confirmed'
    <3>1. CASE Confirmed
      BY <1>1, <3>1 DEF EnrollTOTP, Typed, Things, Kinds, Ceremonies, Purposes, Confirmed
    <3>2. CASE ~Confirmed
      <4>1. /\ totp' = [secret |-> Fresh("secret"), confirmed |-> FALSE, last |-> 0]
            /\ serial' = [serial EXCEPT !["secret"] = @ + 1]
        BY <1>1, <3>2 DEF EnrollTOTP, Count
      <4>2. Fresh("secret") \in Nat /\ serial' \in [Things -> Nat]
        BY <4>1 DEF Typed, Fresh, Things
      <4>3. totp' \in Enrollment  BY <4>1, <4>2 DEF Enrollment
      <4>4. \A k \in Kinds : serial'[k] = serial[k]
        BY <4>1 DEF Typed, Things, Kinds, Ceremonies, Purposes
      <4> QED  BY <1>1, <3>2, <4>2, <4>3, <4>4 DEF EnrollTOTP
    <3> QED  BY <3>1, <3>2
  <2>3. TicketsNumbered'
    BY <2>2 DEF IInv, TicketsNumbered, Numbered, Ticket
  <2>4. TablesOK'  BY <2>2 DEF TablesOK, Typed
  <2> QED  BY <2>1, <2>2, <2>3, <2>4, AppKept, WritesFree
<1>2. CASE ConfirmTOTP(r)
  <2>1. Moved(r, "rows") /\ req'[r].spent = req[r].spent
    BY <1>2, GoMoves DEF ConfirmTOTP
  <2>2. req[r].has \in Nat  BY <1>2 DEF ConfirmTOTP, Sound, Knows
  <2>3. totp' \in Enrollment \cup {None} /\ (Confirmed => Confirmed')
    <3>1. CASE totp = None  BY <1>2, <3>1 DEF ConfirmTOTP, Confirmed
    <3>2. CASE totp # None
      <4>1. totp \in Enrollment  BY <3>2 DEF Typed
      <4>2. totp' = [totp EXCEPT !.confirmed = TRUE, !.last = req[r].has]
        BY <1>2, <3>2 DEF ConfirmTOTP
      <4>3. totp' \in Enrollment /\ totp'.confirmed  BY <2>2, <4>1, <4>2 DEF Enrollment
      <4> QED  BY <4>3 DEF Confirmed
    <3> QED  BY <3>1, <3>2
  <2>4. UNCHANGED <<passkeys, codes, grants, ceremonies, lockout, policy, tokens, serial, since>>
    BY <1>2 DEF ConfirmTOTP
  <2>5. TablesOK'  BY <2>3, <2>4 DEF TablesOK, Typed
  <2> QED  BY <2>1, <2>3, <2>4, <2>5, AppKept, SameNumbers, WritesFree
<1>3. CASE AdvanceTOTPCounter(r)
  <2>1. Moved(r, "success") /\ req'[r].spent = req[r].spent
    BY <1>3, GoWithMoves DEF AdvanceTOTPCounter
  <2>2. req[r].has \in Nat  BY <1>3 DEF AdvanceTOTPCounter, Sound, Knows
  <2>3. totp' \in Enrollment \cup {None} /\ (Confirmed => Confirmed')
    <3>1. CASE totp' = totp  BY <3>1 DEF Typed, Confirmed
    <3>2. CASE totp' # totp
      <4>1. totp # None /\ totp' = [totp EXCEPT !.last = req[r].has]
        BY <1>3, <3>2 DEF AdvanceTOTPCounter
      <4>2. totp \in Enrollment  BY <4>1 DEF Typed
      <4>3. totp' \in Enrollment /\ totp'.confirmed = totp.confirmed
        BY <2>2, <4>1, <4>2 DEF Enrollment
      <4> QED  BY <4>3 DEF Confirmed
    <3> QED  BY <3>1, <3>2
  <2>4. UNCHANGED <<passkeys, codes, grants, ceremonies, lockout, policy, tokens, serial, since>>
    BY <1>3 DEF AdvanceTOTPCounter
  <2>5. TablesOK'  BY <2>3, <2>4 DEF TablesOK, Typed
  <2> QED  BY <2>1, <2>3, <2>4, <2>5, AppKept, SameNumbers, WritesFree
<1>4. CASE DisableTOTP(r)
  <2>1. Moved(r, "relist") /\ req'[r].spent = req[r].spent
    BY <1>4, GoMoves DEF DisableTOTP
  <2>2. /\ totp' = None /\ since' = [q \in Requests |-> since[q] \ {TOTP}]
        /\ UNCHANGED <<passkeys, codes, grants, ceremonies, lockout, policy, tokens, serial>>
    BY <1>4 DEF DisableTOTP, Forget
  <2>3. StillHeld
    <3>1. Held' = passkeys  BY <2>2 DEF Held, Confirmed
    <3>2. ASSUME NEW q \in Requests PROVE since[q] \ {TOTP} \subseteq passkeys
      BY DEF IInv, Held
    <3> QED  BY <2>2, <3>1, <3>2 DEF StillHeld, Typed
  <2>4. TablesOK'  BY <2>2 DEF TablesOK, Typed
  <2> QED  BY <2>1, <2>2, <2>3, <2>4, SameNumbers, WritesFree
<1> QED  BY <1>1, <1>2, <1>3, <1>4

-----------------------------------------------------------------------------
(* Tickets *)

\* Tickets that were handed out stay counted.
LEMMA NumbersGrow ==
  ASSUME Typed, TicketsNumbered, serial' \in [Things -> Nat],
         \A k \in Kinds : serial[k] =< serial'[k],
         \A t \in grants' \ grants         : t \in Numbered({"grant"}, serial'),
         \A t \in ceremonies' \ ceremonies : t \in Numbered(Purposes, serial'),
         \A t \in codes' \ codes           : t \in Numbered({"code"}, serial')
  PROVE  /\ TicketsNumbered'
         /\ grants' \in SUBSET Ticket /\ ceremonies' \in SUBSET Ticket
         /\ codes' \in SUBSET Ticket
<1>1. ASSUME NEW K, NEW t \in Numbered(K, serial) PROVE t \in Numbered(K, serial')
  <2>1. t \in Ticket /\ t.kind \in Kinds /\ t.id \in Nat /\ t.id =< serial[t.kind]
    BY DEF Numbered, Ticket
  <2>2. serial[t.kind] \in Nat /\ serial'[t.kind] \in Nat
    BY <2>1 DEF Typed, Things
  <2> QED  BY <1>1, <2>1, <2>2 DEF Numbered
<1>2. TicketsNumbered'  BY <1>1 DEF TicketsNumbered
<1> QED  BY <1>2 DEF TicketsNumbered, Numbered

LEMMA NewIsNumbered ==
  ASSUME Typed, NEW k \in Kinds, Count(k)
  PROVE  /\ New(k) \in Numbered({k}, serial')
         /\ New(k).id > serial[k]
         /\ serial' \in [Things -> Nat]
         /\ \A j \in Kinds : serial[j] =< serial'[j]
<1>1. k \in Things /\ Kinds \subseteq Things  BY DEF Things
<1>2. serial' = [serial EXCEPT ![k] = serial[k] + 1]  BY DEF Count
<1>3. serial \in [Things -> Nat]  BY DEF Typed
<1>4. /\ serial'[k] = serial[k] + 1 /\ serial[k] \in Nat
      /\ serial' \in [Things -> Nat]
      /\ \A j \in Kinds : serial[j] =< serial'[j]
  BY <1>1, <1>2, <1>3
<1>5. New(k) \in Ticket /\ New(k).kind = k /\ New(k).id = serial[k] + 1
  BY <1>4 DEF New, Fresh, Ticket
<1> QED  BY <1>4, <1>5 DEF Numbered

\* A ticket of a kind K is one of a set K is in.
LEMMA NumberedIn ==
  ASSUME NEW s, NEW K, NEW k \in K, NEW t \in Numbered({k}, s)
  PROVE  t \in Numbered(K, s)
BY DEF Numbered

LEMMA IssuingTickets ==
  ASSUME IInv, NEW r \in Requests,
         \/ BeginWebAuthnRegistration(r) \/ BeginWebAuthnAuthentication(r) \/ IssueReauthGrant(r)
  PROVE  /\ IInv'
         /\ req'[r].op = req[r].op /\ req'[r].spent = req[r].spent
<1> Typed /\ TicketsNumbered  BY DEF IInv
<1> USE DEF Free, Places
<1>1. Moved(r, "done") /\ req'[r].spent = req[r].spent
  BY DoneMoves DEF BeginWebAuthnRegistration, BeginWebAuthnAuthentication, IssueReauthGrant
<1>2. UNCHANGED <<totp, passkeys, codes, lockout, policy, tokens, since>>
  BY DEF BeginWebAuthnRegistration, BeginWebAuthnAuthentication, IssueReauthGrant
<1>3. /\ TicketsNumbered' /\ serial' \in [Things -> Nat]
      /\ grants' \in SUBSET Ticket /\ ceremonies' \in SUBSET Ticket
  <2>1. ASSUME NEW k \in Purposes, Count(k), ceremonies' = ceremonies \cup {New(k)},
               grants' = grants
        PROVE  /\ TicketsNumbered' /\ serial' \in [Things -> Nat]
               /\ grants' \in SUBSET Ticket /\ ceremonies' \in SUBSET Ticket
    <3>1. k \in Kinds  BY DEF Kinds, Ceremonies
    <3>2. New(k) \in Numbered(Purposes, serial')
      BY <2>1, <3>1, NewIsNumbered, NumberedIn
    <3> HIDE DEF New
    <3> QED  BY <1>2, <2>1, <3>1, <3>2, NewIsNumbered, NumbersGrow
  <2>2. CASE BeginWebAuthnRegistration(r)
    BY <2>1, <2>2 DEF BeginWebAuthnRegistration, Purposes
  <2>3. CASE BeginWebAuthnAuthentication(r)
    <3> DEFINE purpose == IF req[r].op = "present" THEN "reauth" ELSE "authenticate"
    <3>1. CASE UNCHANGED <<ceremonies, serial>>
      <4>1. grants' = grants  BY <2>3 DEF BeginWebAuthnAuthentication
      <4> QED  BY <1>2, <3>1, <4>1, SameNumbers DEF Typed
    <3>2. CASE /\ purpose \in Purposes
               /\ ceremonies' = ceremonies \cup {New(purpose)} /\ Count(purpose)
      <4>1. grants' = grants  BY <2>3 DEF BeginWebAuthnAuthentication
      <4> HIDE DEF purpose
      <4> QED  BY <2>1, <3>2, <4>1
    <3> QED  BY <2>3, <3>1, <3>2 DEF BeginWebAuthnAuthentication
  <2>4. CASE IssueReauthGrant(r)
    <3>1. /\ grants' = grants \cup {New("grant")} /\ Count("grant") /\ ceremonies' = ceremonies
          /\ "grant" \in Kinds
      BY <2>4 DEF IssueReauthGrant, Kinds
    <3>2. New("grant") \in Numbered({"grant"}, serial')
      BY <3>1, NewIsNumbered
    <3> HIDE DEF New
    <3> QED  BY <1>2, <3>1, <3>2, NewIsNumbered, NumbersGrow
  <2> QED  BY <2>2, <2>3, <2>4
<1>4. TablesOK'  BY <1>2, <1>3 DEF TablesOK, Typed
<1>5. IInv'  BY <1>1, <1>2, <1>3, <1>4, SameStaysHeld, WritesFree
<1> QED  BY <1>1, <1>5 DEF Moved

\* Tickets that are withdrawn or taken leave the others numbered.
LEMMA FewerTickets ==
  ASSUME IInv, UNCHANGED serial, grants' \subseteq grants, ceremonies' \subseteq ceremonies,
         codes' \subseteq codes
  PROVE  TicketsNumbered'
BY DEF IInv, TicketsNumbered, Numbered

LEMMA TakingTickets ==
  ASSUME IInv, NEW r \in Requests, TakeWebAuthnSession(r) \/ ConsumeBackupCode(r)
  PROVE  IInv'
<1> Typed /\ Sound(r)  BY DEF IInv
<1> USE DEF Free, Places
<1>1. CASE TakeWebAuthnSession(r)
  <2>1. UNCHANGED <<totp, passkeys, codes, grants, lockout, policy, tokens, serial, since>>
    BY <1>1 DEF TakeWebAuthnSession
  <2>2. CASE Done(r) /\ UNCHANGED ceremonies
    BY <2>1, <2>2, QuietDone DEF Quietly, SameFactors, Typed
  <2>3. ASSUME NEW t \in ForPurpose(r), ceremonies' = ceremonies \ {t},
               GoSpending(r, IF req[r].op = "registered" THEN "insert" ELSE "assert", t)
        PROVE  IInv'
    <3> DEFINE place == IF req[r].op = "registered" THEN "insert" ELSE "assert"
    <3>1. place \in Free /\ place \in Places  OBVIOUS
    <3>2. t \in Ticket  BY DEF ForPurpose, Typed
    <3>3. GoSpending(r, place, t)  BY <2>3
    <3> HIDE DEF place
    <3>4. Moved(r, place)  BY <3>1, <3>2, <3>3, GoSpendingMoves
    <3>5. req[r].op # None  BY <1>1, OpsAre DEF TakeWebAuthnSession, Sound, OnItsWay
    <3>6. TablesOK'  BY <2>1, <2>3 DEF TablesOK, Typed
    <3>7. TicketsNumbered'  BY <2>1, <2>3, FewerTickets
    <3> QED  BY <2>1, <3>1, <3>4, <3>5, <3>6, <3>7, SameStaysHeld, WritesFree
  <2> QED  BY <1>1, <2>2, <2>3 DEF TakeWebAuthnSession
<1>2. CASE ConsumeBackupCode(r)
  <2>1. UNCHANGED <<totp, passkeys, grants, ceremonies, lockout, policy, tokens, serial, since>>
    BY <1>2 DEF ConsumeBackupCode
  <2>2. PICK t \in codes : codes' = codes \ {t} /\ GoSpending(r, "success", t)
    BY <1>2 DEF ConsumeBackupCode
  <2>3. Moved(r, "success")  BY <2>2, GoSpendingMoves DEF Typed
  <2>4. req[r].op # None  BY <1>2, OpsAre DEF ConsumeBackupCode, At
  <2>5. TablesOK'  BY <2>1, <2>2 DEF TablesOK, Typed
  <2>6. TicketsNumbered'  BY <2>1, <2>2, FewerTickets
  <2> QED  BY <2>1, <2>3, <2>4, <2>5, <2>6, SameStaysHeld, WritesFree
<1> QED  BY <1>1, <1>2

LEMMA PasskeySteps ==
  ASSUME IInv, NEW r \in Requests, InsertWebAuthnCredential(r) \/ DeleteWebAuthnCredential(r)
  PROVE  /\ IInv'
         /\ req'[r].op = req[r].op /\ req'[r].spent = req[r].spent
         /\ UNCHANGED <<codes, grants, ceremonies>>
         /\ \A q \in Requests \ {r} : req'[q] = req[q]
<1> Typed  BY DEF IInv
<1> USE DEF Free, Places
<1>1. CASE InsertWebAuthnCredential(r)
  <2>1. UNCHANGED <<totp, codes, grants, ceremonies, lockout, policy, tokens, since>>
    BY <1>1 DEF InsertWebAuthnCredential
  <2>2. CASE Done(r) /\ UNCHANGED <<passkeys, serial>>
    <3>1. Moved(r, "done") /\ req'[r].spent = req[r].spent  BY <2>2, DoneMoves
    <3>2. IInv'  BY <2>1, <2>2, QuietDone DEF Quietly, SameFactors, Typed
    <3> QED  BY <2>1, <3>1, <3>2 DEF Moved
  <2>3. CASE passkeys' = passkeys \cup {Fresh("passkey")} /\ Count("passkey") /\ Go(r, "count")
    <3>1. Moved(r, "count") /\ req'[r].spent = req[r].spent  BY <2>3, GoMoves
    <3>2. "passkey" \in Things /\ "passkey" \notin Kinds /\ Kinds \subseteq Things
      BY DEF Things, Kinds, Ceremonies, Purposes
    <3>3. serial' = [serial EXCEPT !["passkey"] = serial["passkey"] + 1]
      BY <2>3 DEF Count
    <3>4. /\ serial' \in [Things -> Nat] /\ Fresh("passkey") \in Nat
          /\ \A k \in Kinds : serial'[k] = serial[k]
      BY <3>2, <3>3 DEF Typed, Fresh
    <3>5. passkeys' \in SUBSET Nat /\ passkeys \subseteq passkeys'
      BY <2>3, <3>4 DEF Typed
    <3>6. StillHeld
      BY <2>1, <3>5 DEF IInv, Typed, StillHeld, Held, Confirmed
    <3>7. TicketsNumbered'
      BY <2>1, <3>4 DEF IInv, TicketsNumbered, Numbered, Ticket
    <3>8. TablesOK'  BY <2>1, <3>4, <3>5 DEF TablesOK, Typed
    <3>9. IInv'  BY <3>1, <3>6, <3>7, <3>8, WritesFree
    <3> QED  BY <2>1, <3>1, <3>9 DEF Moved
  <2> QED  BY <1>1, <2>2, <2>3 DEF InsertWebAuthnCredential
<1>2. CASE DeleteWebAuthnCredential(r)
  <2>1. /\ UNCHANGED <<totp, codes, grants, ceremonies, lockout, policy, tokens, serial>>
        /\ passkeys' = passkeys \ {req[r].has}
        /\ since' = [q \in Requests |-> since[q] \ {req[r].has}]
    BY <1>2 DEF DeleteWebAuthnCredential, Forget
  <2>2. \E place \in Free : Moved(r, place) /\ req'[r].spent = req[r].spent
    BY <1>2, GoMoves, DoneMoves DEF DeleteWebAuthnCredential
  <2>3. StillHeld
    <3>1. Held \ {req[r].has} \subseteq Held'
      BY <2>1 DEF Held, Confirmed
    <3> QED  BY <2>1, <3>1 DEF StillHeld, IInv, Typed
  <2>4. TablesOK'  BY <2>1 DEF TablesOK, Typed
  <2>5. IInv'  BY <2>1, <2>2, <2>3, <2>4, SameNumbers, WritesFree
  <2> QED  BY <2>1, <2>2, <2>5 DEF Moved
<1> QED  BY <1>1, <1>2

-----------------------------------------------------------------------------
(* Recovery codes *)

LEMMA SetIsNumbered ==
  ASSUME Typed, serial' = [serial EXCEPT !["code"] = @ + BackupCodeCount],
         NEW i \in 1..BackupCodeCount
  PROVE  /\ [kind |-> "code", id |-> serial["code"] + i] \in Numbered({"code"}, serial')
         /\ serial["code"] + i > serial["code"]
<1>1. serial["code"] \in Nat /\ serial'["code"] = serial["code"] + BackupCodeCount
  BY DEF Typed, Things, Kinds
<1> DEFINE n == serial["code"] + i
           t == [kind |-> "code", id |-> n]
<1>2. n \in Nat \ {0} /\ n > serial["code"] /\ n =< serial'["code"]
  BY <1>1, FactorsAssumption
<1> HIDE DEF n
<1>3. t \in Ticket /\ t.kind = "code" /\ t.id = n  BY <1>2 DEF Ticket, Kinds
<1> HIDE DEF t
<1>4. t \in Numbered({"code"}, serial')  BY <1>2, <1>3 DEF Numbered
<1> QED  BY <1>2, <1>4 DEF t, n

LEMMA CodeSteps ==
  ASSUME IInv, NEW r \in Requests,
         DeleteBackupCodes(r) \/ FindBackupCodes(r) \/ ReplaceBackupCodes(r)
  PROVE  /\ IInv'
         /\ req'[r].op = req[r].op /\ req'[r].spent = req[r].spent
         /\ \A q \in Requests \ {r} : req'[q] = req[q]
<1> Typed /\ TicketsNumbered  BY DEF IInv
<1> USE DEF Free, Places
<1>1. CASE DeleteBackupCodes(r)
  <2>1. /\ UNCHANGED <<totp, passkeys, grants, ceremonies, lockout, policy, tokens, serial, since>>
        /\ codes' = {}
    BY <1>1 DEF DeleteBackupCodes
  <2>2. Moved(r, "done") /\ req'[r].spent = req[r].spent
    BY <1>1, DoneMoves DEF DeleteBackupCodes
  <2>3. TablesOK'  BY <2>1 DEF TablesOK, Typed
  <2>4. IInv'  BY <2>1, <2>2, <2>3, FewerTickets, SameStaysHeld, WritesFree
  <2> QED  BY <2>2, <2>4 DEF Moved
<1>2. CASE FindBackupCodes(r)
  <2> DEFINE x == req[r]
             z == [x EXCEPT !.at = "replace", !.rows = codes]
  <2>1. x \in Request /\ codes \in SUBSET Ticket  BY DEF Typed
  <2>2. Set(r, z) /\ Quietly
    BY <1>2, OnlyRequestsIsQuiet DEF FindBackupCodes, OnlyRequests
  <2>3. z \in Request /\ z.at = "replace" /\ z.op = x.op /\ z.spent = x.spent
    BY <2>1 DEF Request
  <2> HIDE DEF z
  <2>4. Moved(r, "replace") /\ req'[r].spent = req[r].spent
    BY <2>2, <2>3, Becomes DEF Moved
  <2> QED  BY <2>2, <2>4, QuietFree DEF Moved
<1>3. CASE ReplaceBackupCodes(r)
  <2> DEFINE set == {[kind |-> "code", id |-> serial["code"] + i] : i \in 1..BackupCodeCount}
  <2>1. /\ UNCHANGED <<totp, passkeys, grants, ceremonies, lockout, policy, tokens, since>>
        /\ codes' = (codes \ req[r].rows) \cup set
        /\ serial' = [serial EXCEPT !["code"] = @ + BackupCodeCount]
    BY <1>3 DEF ReplaceBackupCodes
  <2>2. Moved(r, "done") /\ req'[r].spent = req[r].spent
    BY <1>3, DoneMoves DEF ReplaceBackupCodes
  <2>3. \A t \in set : t \in Numbered({"code"}, serial')
    BY <2>1, SetIsNumbered
  <2>4. /\ serial' \in [Things -> Nat]
        /\ \A k \in Kinds : serial[k] =< serial'[k]
    <3>1. serial \in [Things -> Nat] /\ Kinds \subseteq Things /\ "code" \in Things
      BY DEF Typed, Things, Kinds
    <3>2. BackupCodeCount \in Nat  BY FactorsAssumption
    <3> QED  BY <2>1, <3>1, <3>2
  <2> HIDE DEF set
  <2>5. TicketsNumbered' /\ codes' \in SUBSET Ticket
    BY <2>1, <2>3, <2>4, NumbersGrow
  <2>6. TablesOK'  BY <2>1, <2>4, <2>5 DEF TablesOK, Typed
  <2>7. IInv'  BY <2>1, <2>2, <2>5, <2>6, SameStaysHeld, WritesFree
  <2> QED  BY <2>2, <2>7 DEF Moved
<1> QED  BY <1>1, <1>2, <1>3

-----------------------------------------------------------------------------
(* Around the account *)

LEMMA AroundKeeps ==
  ASSUME IInv, UpdateMFAPolicy \/ ResetUserMFA \/ LockoutPasses
  PROVE  IInv' /\ UNCHANGED req
<1> Typed  BY DEF IInv
<1> USE FactorsAssumption
<1>1. /\ req' = req /\ serial' = serial /\ tokens' = tokens
      /\ \A q \in Requests : since'[q] \subseteq since[q]
      /\ since' \in [Requests -> SUBSET (Nat \cup {TOTP})]
  BY DEF UpdateMFAPolicy, ResetUserMFA, LockoutPasses, Typed
<1>2. TicketsNumbered'
  BY FewerTickets DEF UpdateMFAPolicy, ResetUserMFA, LockoutPasses
<1>3. StillHeld
  <2>1. CASE ResetUserMFA  BY <1>1, <2>1 DEF ResetUserMFA, StillHeld
  <2>2. CASE UpdateMFAPolicy \/ LockoutPasses
    BY <2>2, SameStaysHeld DEF UpdateMFAPolicy, LockoutPasses
  <2> QED  BY <2>1, <2>2
<1>4. lockout' \in Lockout /\ policy' \in BOOLEAN
  <2>1. CASE UpdateMFAPolicy
    BY <2>1, FactorsAssumption DEF UpdateMFAPolicy, Typed
  <2>2. CASE ResetUserMFA  BY <2>2, LockoutIsOne DEF ResetUserMFA, Typed
  <2>3. CASE LockoutPasses  BY <2>3 DEF LockoutPasses, Typed, Lockout
  <2> QED  BY <2>1, <2>2, <2>3
<1>5. Typed'
  BY <1>1, <1>4 DEF UpdateMFAPolicy, ResetUserMFA, LockoutPasses, Typed
<1>6. \A q \in Requests : Sound(q)'
  BY <1>1, OthersStaySound DEF IInv
<1> QED  BY <1>1, <1>2, <1>3, <1>5, <1>6 DEF IInv, StillHeld

-----------------------------------------------------------------------------
(* The invariant *)

LEMMA InitSound == Init => IInv
<1> SUFFICES ASSUME Init PROVE IInv
  OBVIOUS
<1>1. PICK a \in Accounts :
          /\ totp = a.totp /\ passkeys = a.passkeys /\ codes = a.codes
          /\ grants = a.grants /\ ceremonies = a.ceremonies
          /\ tokens = a.tokens /\ serial = a.serial
  BY DEF Init
<1>2. TicketsNumbered
  BY <1>1, AccountsAssumption DEF TicketsNumbered
<1>3. codes \in SUBSET Ticket /\ grants \in SUBSET Ticket /\ ceremonies \in SUBSET Ticket
  BY <1>2 DEF TicketsNumbered, Numbered
<1>4. /\ totp \in Enrollment \cup {None} /\ passkeys \in SUBSET Nat
      /\ serial \in [Things -> Nat] /\ tokens \in SUBSET DOMAIN AllowedForChallenge
  BY <1>1, AccountsAssumption
<1>5. lockout \in Lockout /\ policy \in BOOLEAN
  BY LockoutIsOne, FactorsAssumption DEF Init
<1>6. NoRequest \in Request  BY DEF NoRequest, Request, Places
<1>7. req = [r \in Requests |-> NoRequest] /\ since = [r \in Requests |-> {}]
  BY DEF Init
<1>8. Typed  BY <1>3, <1>4, <1>5, <1>6, <1>7 DEF Typed
<1>9. NoRequest.at = "done" /\ NoRequest.spent = None  BY DEF NoRequest
<1> HIDE DEF NoRequest
<1>10. \A r \in Requests : Sound(r)
  BY <1>7, <1>9 DEF Sound, OnItsWay, Knows, Unspent, Complete, Paid, At
<1> QED  BY <1>2, <1>7, <1>8, <1>10 DEF IInv

LEMMA NextSound == IInv /\ [Next]_vars => IInv'
<1> SUFFICES ASSUME IInv, [Next]_vars PROVE IInv'
  OBVIOUS
<1>1. ASSUME NEW r \in Requests, Step(r) PROVE IInv'
  <2>1. CASE Begin(r)  BY <2>1, Arrives
  <2>2. CASE \/ CountUnusedBackupCodes(r) \/ CheckPassword(r) \/ FinishLogin(r)
             \/ WrongAnswer(r) \/ Relist(r)
    BY <2>2, PlainSteps
  <2>3. CASE \/ ListTOTP(r) \/ GuardLastFactor(r) \/ CheckPending(r) \/ VerifyTOTP(r)
             \/ ReadLockout(r)
    BY <2>3, ReadingKeeps
  <2>4. CASE ListPasskeys(r) \/ RequireReauth(r)
    BY <2>4, ListPasskeysKeeps, RequireReauthKeeps
  <2>5. CASE IssueWithoutFactor(r) \/ IssueSessionAfterMFA(r)  BY <2>5, IssuingKeeps
  <2>6. CASE CountFailure(r) \/ SaveLockout(r) \/ ClearMFAFailures(r)  BY <2>6, LockoutSteps
  <2>7. CASE EnrollTOTP(r) \/ ConfirmTOTP(r) \/ AdvanceTOTPCounter(r) \/ DisableTOTP(r)
    BY <2>7, AppSteps
  <2>8. CASE \/ BeginWebAuthnRegistration(r) \/ BeginWebAuthnAuthentication(r)
             \/ IssueReauthGrant(r)
    BY <2>8, IssuingTickets
  <2>9. CASE TakeWebAuthnSession(r) \/ ConsumeBackupCode(r)  BY <2>9, TakingTickets
  <2>10. CASE InsertWebAuthnCredential(r) \/ DeleteWebAuthnCredential(r)
    BY <2>10, PasskeySteps
  <2>11. CASE DeleteBackupCodes(r) \/ FindBackupCodes(r) \/ ReplaceBackupCodes(r)
    BY <2>11, CodeSteps
  <2> QED
    BY <1>1, <2>1, <2>2, <2>3, <2>4, <2>5, <2>6, <2>7, <2>8, <2>9, <2>10, <2>11 DEF Step
<1>2. CASE UpdateMFAPolicy \/ ResetUserMFA \/ LockoutPasses  BY <1>2, AroundKeeps
<1>3. CASE UNCHANGED vars
  <2>1. UNCHANGED <<totp, passkeys, codes, grants, ceremonies, lockout, policy, tokens, req,
                    serial, since>>
    BY <1>3 DEF vars
  <2>2. Typed' /\ TicketsNumbered'  BY <2>1, SameNumbers DEF IInv, Typed
  <2>3. \A q \in Requests : since'[q] \subseteq Held'
    BY <2>1 DEF IInv, Held, Confirmed
  <2>4. \A q \in Requests : Sound(q)'  BY <2>1, OthersStaySound DEF IInv
  <2> QED  BY <2>2, <2>3, <2>4 DEF IInv
<1> QED  BY <1>1, <1>2, <1>3 DEF Next

THEOREM FactorsAreSound == Spec => []IInv
BY InitSound, NextSound, PTL DEF Spec

\* A sign-in that is let through on the password alone has missed no factor the account
\* held throughout (SecondFactorAsked; issuePartialTokenIfNeeded, ListEnrollments).
THEOREM SecondFactorIsAsked == Spec => []SecondFactorAsked
<1>1. IInv => SecondFactorAsked
  BY DEF IInv, Sound, Complete, SecondFactorAsked, At
<1> QED  BY <1>1, FactorsAreSound, PTL

-----------------------------------------------------------------------------
(* What changes are paid with *)

\* What is pending was begun rightly: the app's secret, and the registrations of passkeys.
Beginnings ==
    /\ begun \in SUBSET [kind : {"secret", "register"}, id : Nat]
    /\ totp # None => Named(totp.secret) \in begun
    /\ \A t \in ceremonies : t.kind = "register" => t \in begun

\* Whoever is about to change factors or codes has what pays for it: a removal or a new set
\* of codes its grant, a confirmation or a new passkey its beginning.
Warranted(r) ==
    /\ req[r].at \in {"read", "confirm"} => req[r].op = "confirm"
    /\ req[r].at \in {"insert", "count"} => req[r].op = "registered"
    /\ req[r].at = "rows" => req[r].op \in {"confirm", "registered"}
    /\ req[r].at = "replace" => req[r].op \in {"confirm", "registered", "regenerate"}
    /\ req[r].at \in {"relist", "rekeys", "clear"} => req[r].op \in Removals
    /\ At(r, "apply", Removals \cup {"regenerate"}) => HasPaid(r)
    /\ req[r].at \in {"relist", "rekeys", "clear"} => HasPaid(r)
    /\ At(r, "replace", {"regenerate"}) => HasPaid(r)
    /\ req[r].op = "confirm" /\ req[r].at \in {"confirm", "rows", "replace"}
         => Named(req[r].secret) \in begun
    /\ req[r].op = "registered" /\ req[r].at \in {"insert", "count", "rows", "replace"}
         => req[r].spent \in begun

PInv == Beginnings /\ \A r \in Requests : Warranted(r)

\* What FactorsPaid asks of a step of r.
Pays(r) ==
    /\ Held \subseteq Held' \/ HasPaid(r)
    /\ TOTP \in Held' \ Held => Named(totp.secret) \in begun
    /\ passkeys' \subseteq passkeys \/ Finishes(r) \in begun
    /\ codes' = codes \/ req[r].op = "verify" \/ HasPaid(r) \/ Finishes(r) \in begun

Alone(r) == \A q \in Requests \ {r} : req'[q] = req[q]

LEMMA BeginningsStay ==
  ASSUME Beginnings, begun' = begun, ceremonies' \subseteq ceremonies,
         totp' = None \/ (totp # None /\ totp'.secret = totp.secret)
  PROVE  Beginnings'
BY DEF Beginnings, Named

LEMMA SameAppStays ==
  ASSUME Beginnings, begun' = begun, ceremonies' \subseteq ceremonies, totp' = totp
  PROVE  Beginnings'
BY DEF Beginnings, Named

LEMMA WarrantStays ==
  ASSUME NEW q \in Requests, Warranted(q), req'[q] = req[q], begun \subseteq begun'
  PROVE  Warranted(q)'
BY DEF Warranted, HasPaid, Named, At

LEMMA OneIsWarranted ==
  ASSUME PInv, NEW r \in Requests, NEW place, Moved(r, place), begun \subseteq begun',
         Beginnings', Warranted(r)'
  PROVE  PInv' /\ Alone(r)
<1>1. Alone(r)  BY DEF Moved, Alone
<1>2. ASSUME NEW q \in Requests PROVE Warranted(q)'
  BY <1>1, WarrantStays DEF PInv, Alone
<1> QED  BY <1>1, <1>2 DEF PInv

\* Places at which nothing is owed.
Owing == {"read", "confirm", "insert", "count", "rows", "replace", "relist", "rekeys", "clear"}

LEMMA NothingOwed ==
  ASSUME NEW r \in Requests, NEW place, Moved(r, place), place \notin Owing,
         place = "apply" => req[r].op \notin Removals \cup {"regenerate"}
  PROVE  Warranted(r)'
BY DEF Moved, Warranted, Owing, At

LEMMA SameIsPaid ==
  ASSUME NEW r, UNCHANGED <<totp, passkeys, codes>>
  PROVE  Pays(r)
BY DEF Pays, Held, Confirmed

LEMMA NothingChanged ==
  ASSUME PInv, NEW r \in Requests, NEW place, Moved(r, place), place \notin Owing,
         place = "apply" => req[r].op \notin Removals \cup {"regenerate"},
         UNCHANGED <<totp, passkeys, codes, begun>>, ceremonies' \subseteq ceremonies
  PROVE  PInv' /\ Alone(r) /\ Pays(r)
<1>1. Beginnings'  BY SameAppStays DEF PInv
<1> QED  BY <1>1, NothingOwed, OneIsWarranted, SameIsPaid

LEMMA DonePays ==
  ASSUME IInv, PInv, NEW r \in Requests, Done(r),
         UNCHANGED <<totp, passkeys, codes, begun>>, ceremonies' \subseteq ceremonies
  PROVE  PInv' /\ Alone(r) /\ Pays(r)
<1>1. Moved(r, "done")  BY DoneMoves DEF IInv
<1> QED  BY <1>1, NothingChanged DEF Owing

LEMMA GoPays ==
  ASSUME IInv, PInv, NEW r \in Requests, NEW place \in Places \ (Owing \cup {"apply"}), NEW y,
         \/ Go(r, place)
         \/ GoWith(r, place, y) /\ y \in Nat \cup {None}
         \/ GoKnowing(r, place, y) /\ y \in SUBSET (Nat \cup {TOTP}),
         UNCHANGED <<totp, passkeys, codes, begun>>, ceremonies' \subseteq ceremonies
  PROVE  PInv' /\ Alone(r) /\ Pays(r)
<1>1. Moved(r, place)  BY GoMoves, GoWithMoves, GoKnowingMoves DEF IInv
<1> QED  BY <1>1, NothingChanged

LEMMA PlainPay ==
  ASSUME IInv, PInv, NEW r \in Requests,
         \/ CheckPassword(r) \/ FinishLogin(r) \/ WrongAnswer(r) \/ ReadLockout(r)
         \/ IssueWithoutFactor(r) \/ IssueSessionAfterMFA(r) \/ IssueReauthGrant(r)
         \/ SaveLockout(r) \/ ClearMFAFailures(r) \/ VerifyTOTP(r) \/ CountFailure(r)
  PROVE  PInv' /\ Alone(r) /\ Pays(r)
<1> USE DEF Owing, Places
<1>1. CASE IssueWithoutFactor(r) \/ IssueSessionAfterMFA(r) \/ IssueReauthGrant(r) \/ SaveLockout(r)
  BY <1>1, DonePays DEF IssueWithoutFactor, IssueSessionAfterMFA, IssueReauthGrant, SaveLockout
<1>2. CASE \/ CheckPassword(r) \/ FinishLogin(r) \/ WrongAnswer(r) \/ ClearMFAFailures(r)
  BY <1>2, GoPays DEF CheckPassword, FinishLogin, WrongAnswer, ClearMFAFailures
<1>3. CASE ReadLockout(r)
  <2>1. CASE Done(r)  BY <1>3, <2>1, DonePays DEF ReadLockout
  <2>2. CASE Go(r, "check")  BY <1>3, <2>2, GoPays DEF ReadLockout
  <2>3. CASE Go(r, "take")  BY <1>3, <2>3, GoPays DEF ReadLockout
  <2> QED  BY <1>3, <2>1, <2>2, <2>3 DEF ReadLockout
<1>4. CASE VerifyTOTP(r)
  <2>1. PICK step \in Steps : GoWith(r, "advance", step)  BY <1>4 DEF VerifyTOTP
  <2>2. step \in Nat  BY FactorsAssumption
  <2> QED  BY <1>4, <2>1, <2>2, GoPays DEF VerifyTOTP
<1>5. CASE CountFailure(r)
  <2> DEFINE n == NextLockout(lockout)
             x == req[r]
             z == [x EXCEPT !.at = "save", !.next = n]
  <2>1. n \in Lockout /\ x \in Request  BY LockoutIsOne DEF IInv, Typed
  <2>2. Set(r, z)  BY <1>5 DEF CountFailure
  <2> HIDE DEF n
  <2>3. z \in Request /\ z.at = "save" /\ z.op = x.op  BY <2>1 DEF Request
  <2> HIDE DEF z
  <2>4. Moved(r, "save")  BY <2>2, <2>3, Becomes DEF IInv, Moved
  <2> QED  BY <1>5, <2>4, NothingChanged DEF CountFailure
<1> QED  BY <1>1, <1>2, <1>3, <1>4, <1>5

LEMMA ReadingPays ==
  ASSUME IInv, PInv, NEW r \in Requests,
         \/ ListTOTP(r) \/ ListPasskeys(r) \/ GuardLastFactor(r) \/ CheckPending(r)
         \/ CountUnusedBackupCodes(r) \/ Relist(r) \/ FindBackupCodes(r)
  PROVE  PInv' /\ Alone(r) /\ Pays(r)
<1> Typed /\ Sound(r) /\ Warranted(r) /\ Beginnings  BY DEF IInv, PInv
<1> USE DEF Owing, Places
<1>1. /\ UNCHANGED <<totp, passkeys, codes, ceremonies, begun>>
  BY DEF ListTOTP, ListPasskeys, GuardLastFactor, CheckPending, CountUnusedBackupCodes, Relist,
         FindBackupCodes
<1>2. CASE Done(r)  BY <1>1, <1>2, DonePays
<1>3. ASSUME NEW place \in Places, Moved(r, place), Warranted(r)'
      PROVE  PInv' /\ Alone(r) /\ Pays(r)
  BY <1>1, <1>3, SameAppStays, OneIsWarranted, SameIsPaid
<1>4. ASSUME NEW place \in {"rekeys", "clear"}, NEW S \in SUBSET (Nat \cup {TOTP}),
             req[r].at \in {"relist", "rekeys"}, GoKnowing(r, place, S)
      PROVE  PInv' /\ Alone(r) /\ Pays(r)
  <2>1. Moved(r, place) /\ req'[r].spent = req[r].spent
    <3>1. place \in Places /\ S \in SUBSET (Nat \cup {TOTP}) /\ GoKnowing(r, place, S)  BY <1>4
    <3> HIDE DEF Owing, Places
    <3> QED  BY <3>1, GoKnowingMoves
  <2>2. Warranted(r)'
    BY <1>4, <2>1 DEF Moved, Warranted, HasPaid, At, Removals
  <2> QED  BY <1>3, <2>1, <2>2
<1>5. CASE ListTOTP(r)
  <2> DEFINE found == IF Confirmed THEN {TOTP} ELSE {}
  <2>1. found \in SUBSET (Nat \cup {TOTP})  OBVIOUS
  <2>2. \/ req[r].at = "list" /\ GoKnowing(r, "keys", found)
        \/ req[r].at = "relist" /\ GoKnowing(r, "rekeys", found)
    BY <1>5 DEF ListTOTP
  <2> HIDE DEF found
  <2> QED  BY <1>1, <1>4, <2>1, <2>2, GoPays
<1>6. CASE ListPasskeys(r)
  <2> DEFINE found == Enrollments(r)
  <2>1. found \in SUBSET (Nat \cup {TOTP})
    BY DEF Enrollments, Typed, Request
  <2>2. \/ Done(r)
        \/ Go(r, "policy") \/ GoKnowing(r, "policy", found) \/ GoKnowing(r, "grant", {})
        \/ req[r].op \in {"enroll", "register"} /\ GoKnowing(r, "apply", {})
    BY <1>6 DEF ListPasskeys, Sound, OnItsWay, Listers, Removals
  <2>3. CASE req[r].op \in {"enroll", "register"} /\ GoKnowing(r, "apply", {})
    <3>1. Moved(r, "apply")  BY <2>3, GoKnowingMoves
    <3> QED  BY <1>1, <2>3, <3>1, NothingChanged DEF Removals
  <2> HIDE DEF found
  <2> QED  BY <1>1, <1>2, <2>1, <2>2, <2>3, GoPays
<1>7. CASE GuardLastFactor(r)
  BY <1>1, <1>2, <1>7, GoPays DEF GuardLastFactor
<1>8. CASE CheckPending(r)
  <2>1. ASSUME NEW step \in Steps, totp # None,
               Set(r, [req[r] EXCEPT !.at = "confirm", !.has = step, !.secret = totp.secret])
        PROVE  PInv' /\ Alone(r) /\ Pays(r)
    <3>1. Moved(r, "confirm") /\ req'[r].secret = totp.secret  BY <2>1, CheckingMoves
    <3>2. req[r].op = "confirm"  BY <1>8 DEF CheckPending, Warranted
    <3>3. Named(totp.secret) \in begun  BY <2>1 DEF Beginnings
    <3>4. Named(req'[r].secret) \in begun'  BY <1>1, <3>1, <3>3
    <3>5. Warranted(r)'  BY <3>1, <3>2, <3>4 DEF Moved, Warranted, HasPaid, At, Removals, Named
    <3> QED  BY <1>3, <3>1, <3>5
  <2> QED  BY <1>2, <1>8, <2>1 DEF CheckPending
<1>9. CASE CountUnusedBackupCodes(r) /\ Go(r, "rows")
  <2>1. Moved(r, "rows") /\ req'[r].spent = req[r].spent  BY <1>9, GoMoves
  <2>2. Warranted(r)'
    BY <1>1, <1>9, <2>1 DEF CountUnusedBackupCodes, Moved, Warranted, HasPaid, At, Removals
  <2> QED  BY <1>3, <2>1, <2>2
<1>10. CASE Relist(r)
  BY <1>2, <1>4, <1>10 DEF Relist
<1>11. CASE FindBackupCodes(r)
  <2> DEFINE x == req[r]
             z == [x EXCEPT !.at = "replace", !.rows = codes]
  <2>1. x \in Request /\ codes \in SUBSET Ticket  BY DEF Typed
  <2>2. Set(r, z)  BY <1>11 DEF FindBackupCodes
  <2>3. /\ z \in Request /\ z.at = "replace" /\ z.op = x.op /\ z.spent = x.spent
        /\ z.secret = x.secret
    BY <2>1 DEF Request
  <2> HIDE DEF z
  <2>4. Moved(r, "replace") /\ req'[r].spent = req[r].spent /\ req'[r].secret = req[r].secret
    BY <2>2, <2>3, Becomes DEF Moved
  <2>5. \/ req[r].at = "rows"
        \/ req[r].at = "apply" /\ req[r].op = "regenerate"
    BY <1>11 DEF FindBackupCodes, At
  <2>6. Warranted(r)'
    BY <1>1, <2>4, <2>5 DEF Moved, Warranted, HasPaid, At, Removals, Named
  <2> QED  BY <1>3, <2>4, <2>6
<1> QED
  BY <1>2, <1>5, <1>6, <1>7, <1>8, <1>9, <1>10, <1>11 DEF CountUnusedBackupCodes

LEMMA TakingPays ==
  ASSUME IInv, PInv, NEW r \in Requests,
         RequireReauth(r) \/ TakeWebAuthnSession(r) \/ ConsumeBackupCode(r)
  PROVE  PInv' /\ Alone(r) /\ Pays(r)
<1> Typed /\ TicketsNumbered /\ Sound(r) /\ Warranted(r) /\ Beginnings  BY DEF IInv, PInv
<1> USE DEF Places
<1>1. UNCHANGED <<totp, passkeys, begun>>
  BY DEF RequireReauth, TakeWebAuthnSession, ConsumeBackupCode
<1>2. CASE RequireReauth(r)
  <2>1. UNCHANGED <<codes, ceremonies>>  BY <1>2 DEF RequireReauth
  <2>2. CASE Refused(r)  BY <1>1, <2>1, <2>2, DonePays DEF Refused
  <2>3. CASE TakeReauthGrant(r)
    <3>1. PICK g \in grants : GoSpending(r, "apply", g)  BY <2>3 DEF TakeReauthGrant
    <3>2. g \in Ticket /\ g.kind = "grant" /\ g # None
      BY AccountsAssumption DEF TicketsNumbered, Numbered
    <3>3. Moved(r, "apply") /\ req'[r].spent = g  BY <3>1, <3>2, GoSpendingMoves
    <3>4. req[r].op \in Payers  BY <1>2 DEF RequireReauth, Sound, OnItsWay
    <3>5. Warranted(r)'  BY <3>2, <3>3 DEF Moved, Warranted, HasPaid, At
    <3> QED  BY <1>1, <2>1, <3>3, <3>5, SameAppStays, OneIsWarranted, SameIsPaid
  <2> QED  BY <1>2, <2>2, <2>3 DEF RequireReauth
<1>3. CASE TakeWebAuthnSession(r)
  <2>1. UNCHANGED codes  BY <1>3 DEF TakeWebAuthnSession
  <2>2. CASE Done(r) /\ UNCHANGED ceremonies  BY <1>1, <2>1, <2>2, DonePays
  <2>3. ASSUME NEW t \in ForPurpose(r), NEW place \in {"insert", "assert"},
               ceremonies' = ceremonies \ {t}, GoSpending(r, place, t),
               (place = "insert") = (req[r].op = "registered")
        PROVE  PInv' /\ Alone(r) /\ Pays(r)
    <3>1. t \in ceremonies /\ t.kind = Wants[req[r].op] /\ t \in Ticket
      BY DEF ForPurpose, Typed
    <3>2. Moved(r, place) /\ req'[r].spent = t  BY <2>3, <3>1, GoSpendingMoves
    <3>3. req[r].op = "registered" => t \in begun
      <4>1. Wants["registered"] = "register"  BY DEF Wants
      <4> QED  BY <3>1, <4>1 DEF Beginnings
    <3>4. Warranted(r)'
      BY <1>1, <2>3, <3>2, <3>3 DEF Moved, Warranted, HasPaid, At
    <3> QED  BY <1>1, <2>1, <2>3, <3>2, <3>4, SameAppStays, OneIsWarranted, SameIsPaid
  <2> QED  BY <1>3, <2>2, <2>3 DEF TakeWebAuthnSession
<1>4. CASE ConsumeBackupCode(r)
  <2>1. PICK t \in codes : GoSpending(r, "success", t)  BY <1>4 DEF ConsumeBackupCode
  <2>2. Moved(r, "success")  BY <2>1, GoSpendingMoves DEF Typed
  <2>3. Pays(r)
    BY <1>1, <1>4 DEF ConsumeBackupCode, At, Pays, Held, Confirmed
  <2>4. Beginnings'  BY <1>1, <1>4, SameAppStays DEF ConsumeBackupCode
  <2> QED  BY <1>1, <2>2, <2>3, <2>4, NothingOwed, OneIsWarranted DEF Owing
<1> QED  BY <1>2, <1>3, <1>4

\* What is noted is of a request at "apply", which is paid for or held nothing throughout.
LEMMA NoteIsRight ==
  ASSUME IInv, PInv, NEW r \in Requests, req[r].at = "apply",
         NEW k \in {"secret", "register"}, Note(r, k), Fresh(k) \in Nat
  PROVE  begun' = begun \cup {New(k)} /\ begun' \in SUBSET [kind : {"secret", "register"}, id : Nat]
<1>1. req[r].spent # None \/ since[r] = {}  BY DEF IInv, Sound, Paid
<1>2. New(k) \in [kind : {"secret", "register"}, id : Nat]  BY DEF New
<1> HIDE DEF New
<1> QED  BY <1>1, <1>2 DEF Note, PInv, Beginnings

LEMMA AppPays ==
  ASSUME IInv, PInv, NEW r \in Requests,
         EnrollTOTP(r) \/ ConfirmTOTP(r) \/ AdvanceTOTPCounter(r) \/ DisableTOTP(r)
  PROVE  PInv' /\ Alone(r) /\ Pays(r)
<1> Typed /\ Sound(r) /\ Warranted(r) /\ Beginnings  BY DEF IInv, PInv
<1> USE FactorsAssumption, AccountsAssumption DEF Places
<1>1. UNCHANGED <<passkeys, codes, ceremonies>>
  BY DEF EnrollTOTP, ConfirmTOTP, AdvanceTOTPCounter, DisableTOTP
<1>2. CASE EnrollTOTP(r)
  <2>1. Moved(r, "done")  BY <1>2, DoneMoves DEF EnrollTOTP
  <2>2. CASE Confirmed
    BY <1>1, <1>2, <2>1, <2>2, NothingChanged DEF EnrollTOTP, Owing
  <2>3. CASE ~Confirmed
    <3> DEFINE n == Fresh("secret")
    <3>1. n \in Nat  BY DEF Typed, Fresh, Things
    <3>2. totp' = [secret |-> n, confirmed |-> FALSE, last |-> 0] /\ Note(r, "secret")
      BY <1>2, <2>3 DEF EnrollTOTP
    <3>3. req[r].at = "apply"  BY <1>2 DEF EnrollTOTP, At
    <3>4. begun' = begun \cup {New("secret")}
          /\ begun' \in SUBSET [kind : {"secret", "register"}, id : Nat]
      BY <3>1, <3>2, <3>3, NoteIsRight
    <3>5. New("secret") = Named(n)  BY DEF New, Named
    <3> HIDE DEF n
    <3>6. totp'.secret = n /\ ~totp'.confirmed  BY <3>2
    <3>7. Named(totp'.secret) \in begun'  BY <3>4, <3>5, <3>6
    <3>8. Beginnings'  BY <1>1, <3>4, <3>7 DEF Beginnings, Named
    <3>9. Held' = Held  BY <1>1, <2>3, <3>6 DEF Held, Confirmed
    <3>10. Pays(r)  BY <1>1, <3>9 DEF Pays
    <3> QED  BY <2>1, <3>4, <3>8, <3>10, NothingOwed, OneIsWarranted DEF Owing
  <2> QED  BY <2>2, <2>3
<1>3. CASE ConfirmTOTP(r)
  <2>1. Moved(r, "rows") /\ req'[r].spent = req[r].spent /\ req'[r].secret = req[r].secret
    BY <1>3, GoMoves DEF ConfirmTOTP
  <2>2. begun' = begun  BY <1>3 DEF ConfirmTOTP
  <2>3. \/ totp = None /\ totp' = None
        \/ /\ totp # None /\ totp' # None /\ totp'.secret = totp.secret /\ totp'.confirmed
    <3>1. ASSUME totp # None PROVE totp'.secret = totp.secret /\ totp'.confirmed /\ totp' # None
      <4>1. totp \in Enrollment /\ req[r].has \in Nat
        BY <1>3, <3>1 DEF Typed, ConfirmTOTP, Sound, Knows
      <4>2. totp' = [totp EXCEPT !.confirmed = TRUE, !.last = req[r].has]
        BY <1>3, <3>1 DEF ConfirmTOTP
      <4>3. totp' \in Enrollment  BY <4>1, <4>2 DEF Enrollment
      <4> QED  BY <4>1, <4>2, <4>3 DEF Enrollment
    <3> QED  BY <1>3, <3>1 DEF ConfirmTOTP
  <2>4. Beginnings'  BY <1>1, <2>2, <2>3, BeginningsStay
  <2>5. Warranted(r)'
    BY <1>3, <2>1, <2>2 DEF ConfirmTOTP, Moved, Warranted, HasPaid, At, Removals, Named
  <2>6. Held \subseteq Held' /\ (TOTP \in Held' \ Held => totp # None)
    BY <1>1, <2>3 DEF Held, Confirmed, Typed
  <2>7. Pays(r)  BY <1>1, <2>6 DEF Pays, Beginnings
  <2> QED  BY <2>1, <2>2, <2>4, <2>5, <2>7, OneIsWarranted
<1>4. CASE AdvanceTOTPCounter(r)
  <2>1. Moved(r, "success")  BY <1>4, GoWithMoves DEF AdvanceTOTPCounter
  <2>2. begun' = begun  BY <1>4 DEF AdvanceTOTPCounter
  <2>3. \/ totp' = totp
        \/ /\ totp # None /\ totp' # None /\ totp'.secret = totp.secret
           /\ totp'.confirmed = totp.confirmed
    <3>1. ASSUME totp' # totp
          PROVE  /\ totp # None /\ totp' # None /\ totp'.secret = totp.secret
                 /\ totp'.confirmed = totp.confirmed
      <4>1. totp # None /\ totp' = [totp EXCEPT !.last = req[r].has] /\ req[r].has \in Nat
        BY <1>4, <3>1 DEF AdvanceTOTPCounter, Sound, Knows
      <4>2. totp \in Enrollment  BY <4>1 DEF Typed
      <4>3. totp' \in Enrollment  BY <4>1, <4>2 DEF Enrollment
      <4> QED  BY <4>1, <4>2, <4>3 DEF Enrollment
    <3> QED  BY <3>1
  <2>4. Beginnings'  BY <1>1, <2>2, <2>3, BeginningsStay, SameAppStays
  <2>5. Held' = Held  BY <1>1, <2>3 DEF Held, Confirmed
  <2>6. Pays(r)  BY <1>1, <2>5 DEF Pays
  <2> QED  BY <2>1, <2>2, <2>4, <2>6, NothingOwed, OneIsWarranted DEF Owing
<1>5. CASE DisableTOTP(r)
  <2>1. Moved(r, "relist") /\ req'[r].spent = req[r].spent
    BY <1>5, GoMoves DEF DisableTOTP
  <2>2. /\ begun' = begun /\ totp' = None /\ req[r].op = "disable" /\ HasPaid(r)
    BY <1>5 DEF DisableTOTP, At, Warranted, Removals
  <2>3. Beginnings'  BY <1>1, <2>2, BeginningsStay
  <2>4. Warranted(r)'  BY <2>1, <2>2 DEF Moved, Warranted, HasPaid, At, Removals
  <2>5. Pays(r)  BY <1>1, <2>2 DEF Pays, Held, Confirmed, Typed
  <2> QED  BY <2>1, <2>2, <2>3, <2>4, <2>5, OneIsWarranted
<1> QED  BY <1>2, <1>3, <1>4, <1>5

LEMMA PasskeyPays ==
  ASSUME IInv, PInv, NEW r \in Requests,
         \/ BeginWebAuthnRegistration(r) \/ BeginWebAuthnAuthentication(r)
         \/ InsertWebAuthnCredential(r) \/ DeleteWebAuthnCredential(r)
  PROVE  PInv' /\ Alone(r) /\ Pays(r)
<1> Typed /\ Sound(r) /\ Warranted(r) /\ Beginnings  BY DEF IInv, PInv
<1> USE DEF Places
<1>1. UNCHANGED <<totp, codes>>
  BY DEF BeginWebAuthnRegistration, BeginWebAuthnAuthentication, InsertWebAuthnCredential,
         DeleteWebAuthnCredential
<1>2. CASE BeginWebAuthnRegistration(r)
  <2>1. Moved(r, "done") /\ passkeys' = passkeys
    BY <1>2, DoneMoves DEF BeginWebAuthnRegistration
  <2>2. Fresh("register") \in Nat
    BY DEF Typed, Fresh, Things, Kinds, Ceremonies, Purposes
  <2>3. begun' = begun \cup {New("register")}
        /\ begun' \in SUBSET [kind : {"secret", "register"}, id : Nat]
    BY <1>2, <2>2, NoteIsRight DEF BeginWebAuthnRegistration, At
  <2>4. ceremonies' = ceremonies \cup {New("register")}
    BY <1>2 DEF BeginWebAuthnRegistration
  <2> HIDE DEF New
  <2>5. Beginnings'  BY <1>1, <2>3, <2>4 DEF Beginnings, Named
  <2> QED  BY <1>1, <2>1, <2>3, <2>5, NothingOwed, OneIsWarranted, SameIsPaid DEF Owing
<1>3. CASE BeginWebAuthnAuthentication(r)
  <2>1. Moved(r, "done") /\ passkeys' = passkeys /\ begun' = begun
    BY <1>3, DoneMoves DEF BeginWebAuthnAuthentication
  <2>2. \A t \in ceremonies' \ ceremonies : t.kind # "register"
    BY <1>3 DEF BeginWebAuthnAuthentication, New
  <2>3. Beginnings'  BY <1>1, <2>1, <2>2 DEF Beginnings, Named
  <2> QED  BY <1>1, <2>1, <2>3, NothingOwed, OneIsWarranted, SameIsPaid DEF Owing
<1>4. CASE InsertWebAuthnCredential(r)
  <2>1. begun' = begun /\ ceremonies' = ceremonies  BY <1>4 DEF InsertWebAuthnCredential
  <2>2. CASE Done(r) /\ UNCHANGED passkeys  BY <1>1, <2>1, <2>2, DonePays
  <2>3. CASE passkeys' = passkeys \cup {Fresh("passkey")} /\ Go(r, "count")
    <3>1. Moved(r, "count") /\ req'[r].spent = req[r].spent  BY <2>3, GoMoves
    <3>2. req[r].op = "registered" /\ req[r].spent \in begun
      BY <1>4 DEF InsertWebAuthnCredential, Warranted
    <3>3. Warranted(r)'
      BY <2>1, <3>1, <3>2 DEF Moved, Warranted, HasPaid, At, Removals
    <3>4. Beginnings'  BY <1>1, <2>1, SameAppStays
    <3>5. Held \subseteq Held'  BY <1>1, <2>3 DEF Held, Confirmed
    <3>6. TOTP \in Held' => TOTP \in Held
      <4>1. Fresh("passkey") \in Nat  BY DEF Typed, Fresh, Things
      <4> QED  BY <1>1, <2>3, <4>1, FactorsAssumption DEF Held, Confirmed
    <3>7. Finishes(r) \in begun  BY <3>2 DEF Finishes
    <3>8. Pays(r)  BY <1>1, <3>5, <3>6, <3>7 DEF Pays
    <3> QED  BY <2>1, <3>1, <3>3, <3>4, <3>8, OneIsWarranted
  <2> QED  BY <1>4, <2>2, <2>3 DEF InsertWebAuthnCredential
<1>5. CASE DeleteWebAuthnCredential(r)
  <2>1. /\ begun' = begun /\ ceremonies' = ceremonies /\ passkeys' \subseteq passkeys
        /\ req[r].op = "delete" /\ HasPaid(r)
    BY <1>5 DEF DeleteWebAuthnCredential, At, Warranted, Removals
  <2>2. Beginnings'  BY <1>1, <2>1, SameAppStays
  <2>3. Pays(r)  BY <1>1, <2>1 DEF Pays, Held, Confirmed
  <2>4. CASE Done(r)
    <3>1. Moved(r, "done")  BY <2>4, DoneMoves
    <3> QED  BY <2>1, <2>2, <2>3, <3>1, NothingOwed, OneIsWarranted DEF Owing
  <2>5. CASE Go(r, "relist")
    <3>1. Moved(r, "relist") /\ req'[r].spent = req[r].spent  BY <2>5, GoMoves
    <3>2. Warranted(r)'  BY <2>1, <3>1 DEF Moved, Warranted, HasPaid, At, Removals
    <3> QED  BY <2>1, <2>2, <2>3, <3>1, <3>2, OneIsWarranted
  <2> QED  BY <1>5, <2>4, <2>5 DEF DeleteWebAuthnCredential
<1> QED  BY <1>2, <1>3, <1>4, <1>5

LEMMA CodesPay ==
  ASSUME IInv, PInv, NEW r \in Requests, DeleteBackupCodes(r) \/ ReplaceBackupCodes(r)
  PROVE  PInv' /\ Alone(r) /\ Pays(r)
<1> Typed /\ Warranted(r) /\ Beginnings  BY DEF IInv, PInv
<1>1. UNCHANGED <<totp, passkeys, ceremonies, begun>> /\ Done(r)
  BY DEF DeleteBackupCodes, ReplaceBackupCodes
<1>2. Moved(r, "done")  BY <1>1, DoneMoves
<1>3. HasPaid(r) \/ Finishes(r) \in begun
  BY DEF DeleteBackupCodes, ReplaceBackupCodes, Warranted, At, Finishes
<1>4. Pays(r)  BY <1>1, <1>3 DEF Pays, Held, Confirmed
<1> QED  BY <1>1, <1>2, <1>4, SameAppStays, NothingOwed, OneIsWarranted DEF Owing

LEMMA BeginPays ==
  ASSUME IInv, PInv, NEW r \in Requests, Begin(r)
  PROVE  PInv' /\ Alone(r) /\ Pays(r)
<1>1. Alone(r)  BY Arrives DEF Alone
<1>2. UNCHANGED <<totp, passkeys, codes, ceremonies, begun>>  BY DEF Begin
<1>3. Beginnings'  BY <1>2, SameAppStays DEF PInv
<1>4. Warranted(r)'
  <2>1. PICK op \in Reachable, p \in passkeys \cup {None} :
               Set(r, [NoRequest EXCEPT !.op = op, !.at = Entry(op), !.has = p])
    BY DEF Begin
  <2> DEFINE e == Entry(op)
             n == NoRequest
             x == [n EXCEPT !.op = op, !.at = e, !.has = p]
  <2>2. req' = [req EXCEPT ![r] = x] /\ req \in [Requests -> Request]
    BY <2>1 DEF Set, IInv, Typed
  <2>3. DOMAIN n = {"op", "at", "has", "secret", "next", "seen", "rows", "spent"}
    BY DEF NoRequest
  <2> HIDE DEF n, e
  <2>4. x.op = op /\ x.at = e  BY <2>3
  <2> HIDE DEF x
  <2>5. req'[r].op = op /\ req'[r].at = e  BY <2>2, <2>4
  <2>6. op \in Ops  BY <2>5, Arrives
  <2>7. e \in {"list", "take", "begin", "lock"} \/ (e = "read" /\ op = "confirm")
    BY <2>6, OpsAre DEF e, Entry
  <2> QED  BY <2>5, <2>7 DEF Warranted, At
<1>5. \A q \in Requests : Warranted(q)'
  BY <1>1, <1>2, <1>4, WarrantStays DEF Alone, PInv
<1> QED  BY <1>1, <1>2, <1>3, <1>5, SameIsPaid DEF PInv

LEMMA StepsPay ==
  ASSUME IInv, PInv, NEW r \in Requests, Step(r)
  PROVE  PInv' /\ Alone(r) /\ Pays(r)
<1>1. CASE Begin(r)  BY <1>1, BeginPays
<1>2. CASE \/ CheckPassword(r) \/ FinishLogin(r) \/ WrongAnswer(r) \/ ReadLockout(r)
           \/ IssueWithoutFactor(r) \/ IssueSessionAfterMFA(r) \/ IssueReauthGrant(r)
           \/ SaveLockout(r) \/ ClearMFAFailures(r) \/ VerifyTOTP(r) \/ CountFailure(r)
  BY <1>2, PlainPay
<1>3. CASE \/ ListTOTP(r) \/ ListPasskeys(r) \/ GuardLastFactor(r) \/ CheckPending(r)
           \/ CountUnusedBackupCodes(r) \/ Relist(r) \/ FindBackupCodes(r)
  BY <1>3, ReadingPays
<1>4. CASE RequireReauth(r) \/ TakeWebAuthnSession(r) \/ ConsumeBackupCode(r)
  BY <1>4, TakingPays
<1>5. CASE EnrollTOTP(r) \/ ConfirmTOTP(r) \/ AdvanceTOTPCounter(r) \/ DisableTOTP(r)
  BY <1>5, AppPays
<1>6. CASE \/ BeginWebAuthnRegistration(r) \/ BeginWebAuthnAuthentication(r)
           \/ InsertWebAuthnCredential(r) \/ DeleteWebAuthnCredential(r)
  BY <1>6, PasskeyPays
<1>7. CASE DeleteBackupCodes(r) \/ ReplaceBackupCodes(r)  BY <1>7, CodesPay
<1> QED  BY <1>1, <1>2, <1>3, <1>4, <1>5, <1>6, <1>7 DEF Step

LEMMA AroundIsWarranted ==
  ASSUME PInv, UNCHANGED <<req, begun>>, ceremonies' \subseteq ceremonies,
         totp' = None \/ totp' = totp
  PROVE  PInv'
<1>1. Beginnings'  BY BeginningsStay, SameAppStays DEF PInv
<1>2. \A q \in Requests : Warranted(q)'  BY WarrantStays DEF PInv
<1> QED  BY <1>1, <1>2 DEF PInv

LEMMA InitIsWarranted == Init => PInv
<1> SUFFICES ASSUME Init PROVE PInv
  OBVIOUS
<1>1. Typed /\ TicketsNumbered  BY InitSound DEF IInv
<1>2. begun = (IF totp = None THEN {} ELSE {Named(totp.secret)})
                \cup {t \in ceremonies : t.kind = "register"}
  BY DEF Init
<1>3. \A t \in ceremonies : t \in Ticket  BY <1>1 DEF Typed
<1>4. totp # None => Named(totp.secret) \in [kind : {"secret", "register"}, id : Nat]
  BY <1>1 DEF Typed, Enrollment, Named
<1>5. \A t \in ceremonies : t.kind = "register" => t \in [kind : {"secret", "register"}, id : Nat]
  BY <1>3 DEF Ticket
<1> HIDE DEF Named
<1>6. Beginnings  BY <1>2, <1>4, <1>5 DEF Beginnings
<1>7. \A r \in Requests : req[r] = NoRequest  BY DEF Init
<1>8. NoRequest.at = "done"  BY DEF NoRequest
<1> HIDE DEF NoRequest
<1>9. \A r \in Requests : Warranted(r)  BY <1>7, <1>8 DEF Warranted, At
<1> QED  BY <1>6, <1>9 DEF PInv

LEMMA NextIsWarranted == IInv /\ PInv /\ [Next]_vars => PInv'
<1> SUFFICES ASSUME IInv, PInv, [Next]_vars PROVE PInv'
  OBVIOUS
<1>1. ASSUME NEW r \in Requests, Step(r) PROVE PInv'  BY <1>1, StepsPay
<1>2. CASE UpdateMFAPolicy \/ ResetUserMFA \/ LockoutPasses
  BY <1>2, AroundIsWarranted DEF UpdateMFAPolicy, ResetUserMFA, LockoutPasses
<1>3. CASE UNCHANGED vars  BY <1>3, AroundIsWarranted DEF vars
<1> QED  BY <1>1, <1>2, <1>3 DEF Next

THEOREM BeginningsAreRight == Spec => []PInv
<1> QED  BY InitIsWarranted, NextIsWarranted, FactorsAreSound, PTL DEF Spec

\* Enrollments, passkeys, tickets, the lockout and requests are what they may be, at any
\* statement of any request.
THEOREM FactorsTyped == Spec => []TypeOK
<1>1. IInv /\ PInv => TypeOK  BY DEF IInv, PInv, Typed, TypeOK, Beginnings
<1> QED  BY <1>1, FactorsAreSound, BeginningsAreRight, PTL

\* Nothing is taken away without a grant, nothing is added but by an enrollment that was begun
\* on one or while no factor was held, and the recovery codes are replaced or cleared on no
\* other ground, the confirmation of a pending app among the steps (FactorsPaid; requireReauth,
\* EnrollTOTP, ConfirmTOTP, FinishWebAuthnRegistration).
THEOREM ChangesArePaid == Spec => FactorsPaid
<1> DEFINE Each == \A r \in Requests : req'[r] # req[r] =>
         /\ Held \subseteq Held' \/ HasPaid(r)
         /\ TOTP \in Held' \ Held => Named(totp.secret) \in begun
         /\ passkeys' \subseteq passkeys \/ Finishes(r) \in begun
         /\ codes' = codes \/ req[r].op = "verify" \/ HasPaid(r) \/ Finishes(r) \in begun
<1>1. IInv /\ PInv /\ [Next]_vars => [Each]_vars
  <2> SUFFICES ASSUME IInv, PInv, [Next]_vars PROVE [Each]_vars
    OBVIOUS
  <2>1. ASSUME NEW r \in Requests, Step(r) PROVE Each
    <3>1. Alone(r) /\ Pays(r)  BY <2>1, StepsPay
    <3> QED  BY <3>1 DEF Alone, Pays
  <2>2. CASE UpdateMFAPolicy \/ ResetUserMFA \/ LockoutPasses
    BY <2>2 DEF UpdateMFAPolicy, ResetUserMFA, LockoutPasses
  <2> QED  BY <2>1, <2>2 DEF Next
<1> QED  BY <1>1, FactorsAreSound, BeginningsAreRight, PTL DEF Spec, FactorsPaid

-----------------------------------------------------------------------------
(* Single-use tickets *)

Open  == grants \cup ceremonies \cup codes
Came  == [r \in Requests |-> IF req[r].op = None THEN None ELSE Wants[req[r].op]]
Taken == [r \in Requests |-> req[r].spent]
Made(s) == UNION {{[kind |-> k, id |-> i] : i \in 1..s[k]} : k \in Kinds}

\* The tickets that were handed out are those that are counted.
LEMMA MadeIsNumbered ==
  ASSUME NEW s \in [Things -> Nat]
  PROVE  Made(s) = Numbered(Kinds, s)
<1>1. ASSUME NEW t \in Made(s) PROVE t \in Numbered(Kinds, s)
  <2>1. PICK k \in Kinds : t \in {[kind |-> k, id |-> i] : i \in 1..s[k]}
    BY DEF Made
  <2>2. PICK i \in 1..s[k] : t = [kind |-> k, id |-> i]
    BY <2>1
  <2>3. s[k] \in Nat  BY DEF Things
  <2>4. t.kind = k /\ t.id = i /\ i \in Nat \ {0} /\ i =< s[k]
    BY <2>2, <2>3
  <2>5. t \in Ticket  BY <2>2, <2>4 DEF Ticket
  <2> QED  BY <2>4, <2>5 DEF Numbered
<1>2. ASSUME NEW t \in Numbered(Kinds, s) PROVE t \in Made(s)
  <2>1. /\ t \in Ticket /\ t.kind \in Kinds /\ t.id \in Nat \ {0} /\ t.id =< s[t.kind]
        /\ t = [kind |-> t.kind, id |-> t.id]
    BY DEF Numbered, Ticket
  <2>2. s[t.kind] \in Nat /\ t.id \in 1..s[t.kind]  BY <2>1 DEF Things
  <2> QED  BY <2>1, <2>2 DEF Made
<1> QED  BY <1>1, <1>2

LEMMA TicketsInit == Init => Tickets!Init
<1> SUFFICES ASSUME Init PROVE Tickets!Init
  OBVIOUS
<1>1. Typed /\ TicketsNumbered  BY InitSound DEF IInv
<1>2. Made(serial) = Numbered(Kinds, serial)  BY <1>1, MadeIsNumbered DEF Typed
<1>3. Made(serial) \subseteq Ticket  BY <1>2 DEF Numbered
<1>4. Open \subseteq Made(serial)
  BY <1>1, <1>2 DEF Open, TicketsNumbered, Numbered, Kinds, Ceremonies
<1>5. Came = [u \in Requests |-> None] /\ Taken = [u \in Requests |-> None]
  BY DEF Init, NoRequest, Came, Taken
<1> QED
  BY <1>3, <1>4, <1>5 DEF Tickets!Init, Tickets!Tickets, Made, Open, Came, Taken, Ticket

\* Requests are about what they were, and have spent what they had.
SpentAsBefore ==
    \A q \in Requests : req'[q].op = req[q].op /\ req'[q].spent = req[q].spent

LEMMA SpentAsBeforeStays ==
  ASSUME SpentAsBefore
  PROVE  Came' = Came /\ Taken' = Taken
BY DEF SpentAsBefore, Came, Taken

LEMMA GoingSpendsNothing ==
  ASSUME Typed, NEW r \in Requests, NEW place, NEW y,
         Go(r, place) \/ GoWith(r, place, y) \/ GoKnowing(r, place, y) \/ Done(r)
  PROVE  SpentAsBefore
<1> DEFINE x == req[r]
<1>1. x \in Request  BY DEF Typed
<1>2. ASSUME NEW z, Set(r, z), z.op = x.op, z.spent = x.spent
      PROVE  SpentAsBefore
  BY <1>2 DEF Set, Typed, SpentAsBefore
<1>3. QED
  <2>1. CASE Go(r, place)
    <3> DEFINE z == [x EXCEPT !.at = place]
    <3>1. z.op = x.op /\ z.spent = x.spent  BY <1>1 DEF Request
    <3>2. Set(r, z)  BY <2>1 DEF Go
    <3> HIDE DEF z
    <3> QED  BY <1>2, <3>1, <3>2
  <2>2. CASE GoWith(r, place, y)
    <3> DEFINE z == [x EXCEPT !.at = place, !.has = y]
    <3>1. z.op = x.op /\ z.spent = x.spent  BY <1>1 DEF Request
    <3>2. Set(r, z)  BY <2>2 DEF GoWith
    <3> HIDE DEF z
    <3> QED  BY <1>2, <3>1, <3>2
  <2>3. CASE GoKnowing(r, place, y)
    <3> DEFINE z == [x EXCEPT !.at = place, !.seen = y]
    <3>1. z.op = x.op /\ z.spent = x.spent  BY <1>1 DEF Request
    <3>2. Set(r, z)  BY <2>3 DEF GoKnowing
    <3> HIDE DEF z
    <3> QED  BY <1>2, <3>1, <3>2
  <2>4. CASE Done(r)
    <3> DEFINE z == [NoRequest EXCEPT !.op = x.op, !.spent = x.spent]
    <3>1. z.op = x.op /\ z.spent = x.spent  BY DEF NoRequest
    <3>2. Set(r, z)  BY <2>4 DEF Done
    <3> HIDE DEF z
    <3> QED  BY <1>2, <3>1, <3>2
  <2> QED  BY <2>1, <2>2, <2>3, <2>4

\* Tickets that were not there before are newly counted.
Reissues ==
    /\ SpentAsBefore
    /\ \A k \in Kinds : serial[k] =< serial'[k]
    /\ \A t \in Open' \ Open : t.id > serial[t.kind]

LEMMA ReissuesAreReissue ==
  ASSUME IInv, IInv', Reissues
  PROVE  Tickets!Reissue
<1>1. Came' = Came /\ Taken' = Taken  BY SpentAsBeforeStays DEF Reissues
<1>2. /\ serial \in [Things -> Nat] /\ serial' \in [Things -> Nat]
  BY DEF IInv, Typed
<1>3. Made(serial) = Numbered(Kinds, serial) /\ Made(serial') = Numbered(Kinds, serial')
  BY <1>2, MadeIsNumbered
<1>4. Numbered(Kinds, serial) \subseteq Numbered(Kinds, serial')
  BY <1>2 DEF Numbered, Reissues, Ticket, Things
<1>5. Numbered(Kinds, serial') \subseteq Ticket  BY DEF Numbered
<1>6. Open' \subseteq Numbered(Kinds, serial')
  BY DEF IInv, TicketsNumbered, Numbered, Open, Kinds, Ceremonies
<1>7. ASSUME NEW t \in Open' \ Open PROVE t \notin Numbered(Kinds, serial)
  <2>1. t \in Ticket /\ t.kind \in Kinds /\ t.id \in Nat  BY <1>6 DEF Numbered, Ticket
  <2>2. t.id > serial[t.kind] /\ serial[t.kind] \in Nat
    BY <1>2, <2>1 DEF Reissues, Things
  <2> QED  BY <2>1, <2>2 DEF Numbered
<1>8. Open' \ Open \subseteq Numbered(Kinds, serial') \ Numbered(Kinds, serial)
  BY <1>6, <1>7
<1>9. /\ Made(serial) \subseteq Made(serial') /\ Made(serial') \subseteq Ticket
      /\ Open' \ Open \subseteq Made(serial') \ Made(serial)
  BY <1>3, <1>4, <1>5, <1>8
<1> QED
  BY <1>1, <1>9 DEF Tickets!Reissue, Tickets!Tickets, Made, Open, Came, Taken, Ticket

\* Steps that hand out no ticket and take none.
LEMMA NoTickets ==
  ASSUME SpentAsBefore, Typed, Open' \subseteq Open,
         \A k \in Kinds : serial'[k] = serial[k]
  PROVE  Reissues
BY DEF Reissues, Typed, Things

LEMMA OpenStays ==
  ASSUME UNCHANGED <<codes, grants, ceremonies>>
  PROVE  Open' \subseteq Open
BY DEF Open

LEMMA MostStepsReissue ==
  ASSUME IInv, NEW r \in Requests,
         \/ CountUnusedBackupCodes(r) \/ CheckPassword(r) \/ FinishLogin(r) \/ WrongAnswer(r)
         \/ Relist(r) \/ ListTOTP(r) \/ GuardLastFactor(r) \/ CheckPending(r) \/ VerifyTOTP(r)
         \/ ReadLockout(r) \/ ListPasskeys(r) \/ IssueWithoutFactor(r) \/ IssueSessionAfterMFA(r)
         \/ SaveLockout(r) \/ ClearMFAFailures(r) \/ ConfirmTOTP(r) \/ AdvanceTOTPCounter(r)
         \/ DisableTOTP(r)
  PROVE  Reissues
<1>1. Typed  BY DEF IInv
<1>2. SpentAsBefore
  <2>1. CASE \/ CountUnusedBackupCodes(r) \/ CheckPassword(r) \/ FinishLogin(r)
             \/ WrongAnswer(r) \/ Relist(r) \/ ListTOTP(r) \/ GuardLastFactor(r)
    BY <1>1, <2>1, GoingSpendsNothing
       DEF CountUnusedBackupCodes, CheckPassword, FinishLogin, WrongAnswer, Relist, ListTOTP,
           GuardLastFactor
  <2>2. CASE VerifyTOTP(r) \/ ReadLockout(r)
    BY <1>1, <2>2, GoingSpendsNothing DEF VerifyTOTP, ReadLockout
  <2>5. CASE CheckPending(r)
    <3>1. ASSUME NEW step \in Steps, totp # None,
                 Set(r, [req[r] EXCEPT !.at = "confirm", !.has = step, !.secret = totp.secret])
          PROVE  SpentAsBefore
      BY <1>1, <3>1, CheckingMoves DEF Moved, SpentAsBefore
    <3> QED  BY <1>1, <2>5, <3>1, GoingSpendsNothing DEF CheckPending
  <2>3. CASE ListPasskeys(r)
    BY <1>1, <2>3, GoingSpendsNothing DEF ListPasskeys, IInv, Sound, OnItsWay, Listers, Removals
  <2>4. CASE \/ IssueWithoutFactor(r) \/ IssueSessionAfterMFA(r) \/ SaveLockout(r)
             \/ ClearMFAFailures(r) \/ ConfirmTOTP(r) \/ AdvanceTOTPCounter(r) \/ DisableTOTP(r)
    BY <1>1, <2>4, GoingSpendsNothing
       DEF IssueWithoutFactor, IssueSessionAfterMFA, SaveLockout, ClearMFAFailures, ConfirmTOTP,
           AdvanceTOTPCounter, DisableTOTP
  <2> QED  BY <2>1, <2>2, <2>3, <2>4, <2>5
<1>3. UNCHANGED <<codes, grants, ceremonies, serial>>
  BY DEF CountUnusedBackupCodes, CheckPassword, FinishLogin, WrongAnswer, Relist, ListTOTP,
         GuardLastFactor, CheckPending, VerifyTOTP, ReadLockout, ListPasskeys,
         IssueWithoutFactor, IssueSessionAfterMFA, SaveLockout, ClearMFAFailures, ConfirmTOTP,
         AdvanceTOTPCounter, DisableTOTP
<1> QED  BY <1>1, <1>2, <1>3, OpenStays, NoTickets

LEMMA WritingReissues ==
  ASSUME IInv, NEW r \in Requests,
         \/ EnrollTOTP(r) \/ InsertWebAuthnCredential(r) \/ DeleteWebAuthnCredential(r)
         \/ CountFailure(r) \/ DeleteBackupCodes(r) \/ FindBackupCodes(r)
  PROVE  Reissues
<1> Typed  BY DEF IInv
<1>1. CASE EnrollTOTP(r)
  <2>1. SpentAsBefore  BY <1>1, GoingSpendsNothing DEF EnrollTOTP
  <2>2. UNCHANGED <<codes, grants, ceremonies>>  BY <1>1 DEF EnrollTOTP
  <2>3. \A k \in Kinds : serial'[k] = serial[k]
    BY <1>1 DEF EnrollTOTP, Count, Typed, Things, Kinds, Ceremonies, Purposes
  <2> QED  BY <2>1, <2>2, <2>3, OpenStays, NoTickets
<1>2. CASE InsertWebAuthnCredential(r) \/ DeleteWebAuthnCredential(r)
  <2>1. UNCHANGED <<codes, grants, ceremonies>> /\ SpentAsBefore
    BY <1>2, PasskeySteps DEF SpentAsBefore
  <2>2. \A k \in Kinds : serial'[k] = serial[k]
    <3>1. serial' = serial \/ serial' = [serial EXCEPT !["passkey"] = @ + 1]
      BY <1>2 DEF InsertWebAuthnCredential, DeleteWebAuthnCredential, Count
    <3> QED  BY <3>1 DEF Typed, Things, Kinds, Ceremonies, Purposes
  <2> QED  BY <2>1, <2>2, OpenStays, NoTickets
<1>3. CASE CountFailure(r)
  <2> DEFINE n == NextLockout(lockout)
             x == req[r]
             z == [x EXCEPT !.at = "save", !.next = n]
  <2>1. x \in Request  BY DEF Typed
  <2>2. Set(r, z)  BY <1>3 DEF CountFailure
  <2> HIDE DEF n
  <2>3. z.op = x.op /\ z.spent = x.spent  BY <2>1 DEF Request
  <2> HIDE DEF z
  <2>4. SpentAsBefore  BY <2>2, <2>3 DEF Set, Typed, SpentAsBefore
  <2>5. UNCHANGED <<codes, grants, ceremonies, serial>>  BY <1>3 DEF CountFailure
  <2> QED  BY <2>4, <2>5, OpenStays, NoTickets
<1>4. CASE DeleteBackupCodes(r) \/ FindBackupCodes(r)
  <2>1. SpentAsBefore  BY <1>4, CodeSteps DEF SpentAsBefore
  <2>2. Open' \subseteq Open /\ serial' = serial
    BY <1>4 DEF DeleteBackupCodes, FindBackupCodes, Open
  <2> QED  BY <2>1, <2>2, NoTickets
<1> QED  BY <1>1, <1>2, <1>3, <1>4

LEMMA NewTicketsReissue ==
  ASSUME IInv, NEW r \in Requests,
         \/ BeginWebAuthnRegistration(r) \/ BeginWebAuthnAuthentication(r)
         \/ IssueReauthGrant(r) \/ ReplaceBackupCodes(r)
  PROVE  Reissues
<1> Typed  BY DEF IInv
<1>1. ASSUME NEW k \in Kinds, Count(k), Open' = Open \cup {New(k)}, SpentAsBefore
      PROVE  Reissues
  <2>1. New(k).kind = k  BY DEF New
  <2> HIDE DEF New
  <2> QED  BY <1>1, <2>1, NewIsNumbered DEF Reissues
<1>2. CASE BeginWebAuthnRegistration(r)
  <2>1. SpentAsBefore  BY <1>2, GoingSpendsNothing DEF BeginWebAuthnRegistration
  <2>2. Open' = Open \cup {New("register")} /\ Count("register") /\ "register" \in Kinds
    BY <1>2 DEF BeginWebAuthnRegistration, Open, Kinds, Ceremonies, Purposes
  <2> QED  BY <2>1, <2>2, <1>1
<1>3. CASE BeginWebAuthnAuthentication(r)
  <2> DEFINE purpose == IF req[r].op = "present" THEN "reauth" ELSE "authenticate"
  <2>1. SpentAsBefore  BY <1>3, GoingSpendsNothing DEF BeginWebAuthnAuthentication
  <2>2. CASE UNCHANGED <<ceremonies, serial>>
    BY <1>3, <2>1, <2>2, OpenStays, NoTickets DEF BeginWebAuthnAuthentication
  <2>3. CASE ceremonies' = ceremonies \cup {New(purpose)} /\ Count(purpose)
    <3>1. purpose \in Kinds  BY DEF Kinds, Ceremonies, Purposes
    <3>2. Open' = Open \cup {New(purpose)}
      BY <1>3, <2>3 DEF BeginWebAuthnAuthentication, Open
    <3> HIDE DEF purpose
    <3> QED  BY <1>1, <2>1, <2>3, <3>1, <3>2
  <2> QED  BY <1>3, <2>2, <2>3 DEF BeginWebAuthnAuthentication
<1>4. CASE IssueReauthGrant(r)
  <2>1. SpentAsBefore  BY <1>4, GoingSpendsNothing DEF IssueReauthGrant
  <2>2. Open' = Open \cup {New("grant")} /\ Count("grant") /\ "grant" \in Kinds
    BY <1>4 DEF IssueReauthGrant, Open, Kinds
  <2> QED  BY <2>1, <2>2, <1>1
<1>5. CASE ReplaceBackupCodes(r)
  <2> DEFINE set == {[kind |-> "code", id |-> serial["code"] + i] : i \in 1..BackupCodeCount}
  <2>1. SpentAsBefore  BY <1>5, CodeSteps DEF SpentAsBefore
  <2>2. /\ codes' \ codes \subseteq set /\ UNCHANGED <<grants, ceremonies>>
        /\ serial' = [serial EXCEPT !["code"] = @ + BackupCodeCount]
    BY <1>5 DEF ReplaceBackupCodes
  <2>3. \A t \in set : t.id > serial[t.kind]
    BY <2>2, SetIsNumbered
  <2>4. \A k \in Kinds : serial[k] =< serial'[k]
    <3>1. serial \in [Things -> Nat] /\ Kinds \subseteq Things /\ "code" \in Things
      BY DEF Typed, Things, Kinds
    <3>2. BackupCodeCount \in Nat  BY FactorsAssumption
    <3> QED  BY <2>2, <3>1, <3>2
  <2> HIDE DEF set
  <2>5. Open' \ Open \subseteq set  BY <2>2 DEF Open
  <2> QED  BY <2>1, <2>3, <2>4, <2>5 DEF Reissues
<1> QED  BY <1>2, <1>3, <1>4, <1>5

\* A request that takes a ticket takes one of the kind it came for, and leaves the others.
LEMMA Taking ==
  ASSUME IInv, NEW r \in Requests, NEW t \in Ticket, NEW place,
         req[r].op # None, req[r].spent = None,
         GoSpending(r, place, t), t.kind = Wants[req[r].op],
         t \in Open, Open' = Open \ {t}, serial' = serial
  PROVE  Tickets!Take(r)
<1> Typed  BY DEF IInv
<1> DEFINE x == req[r]
           z == [x EXCEPT !.at = place, !.spent = t]
<1>1. x \in Request  BY DEF Typed
<1>2. Set(r, z)  BY DEF GoSpending
<1>3. z.op = x.op /\ z.spent = t  BY <1>1 DEF Request
<1> HIDE DEF z
<1>4. /\ \A q \in Requests : req'[q].op = req[q].op
      /\ \A q \in Requests : req'[q].spent = IF q = r THEN t ELSE req[q].spent
  BY <1>2, <1>3 DEF Set, Typed
<1>5. Came' = Came /\ Came[r] = t.kind  BY <1>4 DEF Came
<1>6. Taken' = [Taken EXCEPT ![r] = t] /\ Taken[r] = None  BY <1>4 DEF Taken
<1>7. Made(serial)' = Made(serial)  BY DEF Made
<1>8. \E u \in Open : u.kind = Came[r] /\ Open' = Open \ {u} /\ Taken' = [Taken EXCEPT ![r] = u]
  BY <1>5, <1>6
<1> QED  BY <1>5, <1>6, <1>7, <1>8, Zenon DEF Tickets!Take, Made, Open, Came, Taken

LEMMA TakersTake ==
  ASSUME IInv, NEW r \in Requests,
         RequireReauth(r) \/ TakeWebAuthnSession(r) \/ ConsumeBackupCode(r)
  PROVE  Reissues \/ Tickets!Take(r)
<1> Typed /\ TicketsNumbered /\ Sound(r)  BY DEF IInv
<1>1. UNCHANGED serial /\ req[r].spent = None
  BY DEF RequireReauth, TakeWebAuthnSession, ConsumeBackupCode, Sound, Unspent, At
<1>2. CASE Done(r) /\ UNCHANGED <<grants, ceremonies, codes>>
  <2>1. SpentAsBefore  BY <1>2, GoingSpendsNothing
  <2> QED  BY <1>1, <1>2, <2>1, OpenStays, NoTickets
<1>3. CASE RequireReauth(r) /\ TakeReauthGrant(r)
  <2>1. PICK t \in grants : grants' = grants \ {t} /\ GoSpending(r, "apply", t)
    BY <1>3 DEF TakeReauthGrant
  <2>2. ceremonies' = ceremonies /\ codes' = codes  BY <1>3 DEF RequireReauth
  <2>3. req[r].op \in Payers  BY <1>3 DEF RequireReauth, Sound, OnItsWay
  <2>4. Wants[req[r].op] = "grant" /\ req[r].op # None
    BY <2>3, WantsAre, OpsAre DEF Payers, Listers
  <2>5. t \in Ticket /\ t.kind = "grant"  BY DEF TicketsNumbered, Numbered
  <2>6. Open' = Open \ {t} /\ t \in Open
    BY <2>1, <2>2, <2>5 DEF Open, TicketsNumbered, Numbered, Purposes
  <2> QED  BY <1>1, <2>1, <2>4, <2>5, <2>6, Taking
<1>4. CASE ConsumeBackupCode(r)
  <2>1. PICK t \in codes : codes' = codes \ {t} /\ GoSpending(r, "success", t)
    BY <1>4 DEF ConsumeBackupCode
  <2>2. ceremonies' = ceremonies /\ grants' = grants  BY <1>4 DEF ConsumeBackupCode
  <2>3. Wants[req[r].op] = "code" /\ req[r].op # None
    BY <1>4, WantsAre, OpsAre DEF ConsumeBackupCode, At
  <2>4. t \in Ticket /\ t.kind = "code"  BY DEF TicketsNumbered, Numbered
  <2>5. Open' = Open \ {t} /\ t \in Open
    BY <2>1, <2>2, <2>4 DEF Open, TicketsNumbered, Numbered, Purposes
  <2> QED  BY <1>1, <2>1, <2>3, <2>4, <2>5, Taking
<1>5. ASSUME NEW t \in ForPurpose(r), NEW place, TakeWebAuthnSession(r),
             ceremonies' = ceremonies \ {t}, GoSpending(r, place, t)
      PROVE  Tickets!Take(r)
  <2>1. grants' = grants /\ codes' = codes  BY <1>5 DEF TakeWebAuthnSession
  <2>2. t \in ceremonies /\ t.kind = Wants[req[r].op]  BY DEF ForPurpose
  <2>3. req[r].op # None  BY <1>5, OpsAre DEF TakeWebAuthnSession, Sound, OnItsWay
  <2>4. t \in Ticket /\ t.kind \in Purposes  BY <2>2 DEF TicketsNumbered, Numbered
  <2>5. Open' = Open \ {t} /\ t \in Open
    BY <1>5, <2>1, <2>2, <2>4 DEF Open, TicketsNumbered, Numbered, Purposes
  <2> QED  BY <1>1, <1>5, <2>2, <2>3, <2>4, <2>5, Taking
<1>6. CASE RequireReauth(r) /\ Refused(r)
  BY <1>2, <1>6 DEF RequireReauth, Refused
<1>7. CASE TakeWebAuthnSession(r)
  <2>1. CASE Done(r) /\ UNCHANGED ceremonies
    BY <1>2, <1>7, <2>1 DEF TakeWebAuthnSession
  <2>2. CASE ~(Done(r) /\ UNCHANGED ceremonies)
    <3>1. \E t \in ForPurpose(r) :
             /\ ceremonies' = ceremonies \ {t}
             /\ GoSpending(r, IF req[r].op = "registered" THEN "insert" ELSE "assert", t)
      BY <1>7, <2>2 DEF TakeWebAuthnSession
    <3> QED  BY <1>5, <1>7, <3>1
  <2> QED  BY <2>1, <2>2
<1> QED  BY <1>3, <1>4, <1>6, <1>7 DEF RequireReauth

LEMMA BeginArrives ==
  ASSUME IInv, NEW r \in Requests, Begin(r)
  PROVE  Tickets!Arrive(r) \/ UNCHANGED Tickets!vars
<1> DEFINE k == Wants[req'[r].op]
<1>1. /\ req[r].op = None /\ req[r].spent = None /\ req'[r].spent = None
      /\ req'[r].op \in Ops /\ \A q \in Requests \ {r} : req'[q] = req[q]
  BY Arrives
<1>2. UNCHANGED <<grants, ceremonies, codes, serial>>  BY DEF Begin
<1>3. Open' = Open /\ Made(serial)' = Made(serial)  BY <1>2 DEF Open, Made
<1>4. Taken' = Taken  BY <1>1 DEF Taken
<1>5. k \in Kinds \cup {None} /\ req'[r].op # None  BY <1>1, WantsAre, OpsAre
<1>6. Came' = [Came EXCEPT ![r] = k] /\ Came[r] = None
  BY <1>1, <1>5 DEF Came
<1> HIDE DEF k
<1>7. CASE k = None
  <2>1. Came' = Came  BY <1>6, <1>7 DEF Came
  <2> QED  BY <1>3, <1>4, <2>1 DEF Tickets!vars, Open, Made, Came, Taken
<1>8. CASE k \in Kinds
  <2>1. \E j \in Kinds : Came' = [Came EXCEPT ![r] = j]  BY <1>6, <1>8
  <2> QED
    BY <1>3, <1>4, <1>6, <2>1, Zenon DEF Tickets!Arrive, Open, Made, Came, Taken
<1> QED  BY <1>5, <1>7, <1>8

LEMMA TicketsStep == IInv /\ [Next]_vars => [Tickets!Next]_(Tickets!vars)
<1> SUFFICES ASSUME IInv, [Next]_vars PROVE [Tickets!Next]_(Tickets!vars)
  OBVIOUS
<1> IInv' /\ Typed  BY NextSound DEF IInv
<1>1. ASSUME NEW r \in Requests, Step(r)
      PROVE  Reissues \/ Tickets!Take(r) \/ Tickets!Arrive(r) \/ UNCHANGED Tickets!vars
  <2>1. CASE Begin(r)  BY <2>1, BeginArrives
  <2>2. CASE \/ CountUnusedBackupCodes(r) \/ CheckPassword(r) \/ FinishLogin(r)
             \/ WrongAnswer(r) \/ Relist(r) \/ ListTOTP(r) \/ GuardLastFactor(r)
             \/ CheckPending(r) \/ VerifyTOTP(r) \/ ReadLockout(r) \/ ListPasskeys(r)
             \/ IssueWithoutFactor(r) \/ IssueSessionAfterMFA(r) \/ SaveLockout(r)
             \/ ClearMFAFailures(r) \/ ConfirmTOTP(r) \/ AdvanceTOTPCounter(r)
             \/ DisableTOTP(r)
    BY <2>2, MostStepsReissue
  <2>3. CASE \/ EnrollTOTP(r) \/ InsertWebAuthnCredential(r) \/ DeleteWebAuthnCredential(r)
             \/ CountFailure(r) \/ DeleteBackupCodes(r) \/ FindBackupCodes(r)
    BY <2>3, WritingReissues
  <2>4. CASE \/ BeginWebAuthnRegistration(r) \/ BeginWebAuthnAuthentication(r)
             \/ IssueReauthGrant(r) \/ ReplaceBackupCodes(r)
    BY <2>4, NewTicketsReissue
  <2>5. CASE RequireReauth(r) \/ TakeWebAuthnSession(r) \/ ConsumeBackupCode(r)
    BY <2>5, TakersTake
  <2> QED  BY <1>1, <2>1, <2>2, <2>3, <2>4, <2>5 DEF Step
<1>2. CASE UpdateMFAPolicy \/ ResetUserMFA \/ LockoutPasses
  <2>1. SpentAsBefore  BY <1>2, AroundKeeps DEF SpentAsBefore
  <2>2. Open' \subseteq Open /\ serial' = serial
    BY <1>2 DEF UpdateMFAPolicy, ResetUserMFA, LockoutPasses, Open
  <2> QED  BY <2>1, <2>2, NoTickets, ReissuesAreReissue DEF Tickets!Next
<1>3. CASE UNCHANGED vars
  <2>1. SpentAsBefore /\ UNCHANGED <<grants, ceremonies, codes, serial>>
    BY <1>3 DEF vars, SpentAsBefore
  <2> QED  BY <2>1, OpenStays, NoTickets, ReissuesAreReissue DEF Tickets!Next
<1>4. ASSUME NEW r \in Requests, Step(r) PROVE [Tickets!Next]_(Tickets!vars)
  BY <1>1, <1>4, ReissuesAreReissue DEF Tickets!Next
<1> QED  BY <1>2, <1>3, <1>4 DEF Next

\* Grants, ceremonies and recovery codes are handed out once, taken once and only for what
\* they are for (TicketsHold; TakeReauthGrant, TakeWebAuthnSession, ConsumeBackupCode).
THEOREM TicketsAreSingleUse == Spec => TicketsHold
<1> QED
  BY TicketsInit, TicketsStep, FactorsAreSound, PTL DEF Spec, TicketsHold, Tickets!Spec
=============================================================================
