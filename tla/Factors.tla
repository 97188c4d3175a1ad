------------------------------ MODULE Factors ------------------------------
(***************************************************************************)
(* The second factors of one administrator's account: an authenticator app *)
(* (TOTP), passkeys and recovery codes; how a sign-in is interrupted for   *)
(* them; and the proof of presence that changing them costs.  Requests run *)
(* at the same time, on any replica, and take one step for each statement  *)
(* they send to the database.                                              *)
(*                                                                         *)
(* Reauthentication grants, WebAuthn ceremonies and recovery codes are     *)
(* tickets, and are shown to be single-use.  A ticket, passkey or secret   *)
(* is named by its serial number.  Time is not modelled: a token may be    *)
(* used or not, and a grant or a ceremony may be refused as expired.       *)
(***************************************************************************)
EXTENDS Naturals, FiniteSets

CONSTANTS Requests,         \* requests about the account
          LockoutThreshold, \* failures in one window that lock
          BackupCodeCount,  \* recovery codes in a set
          Steps,            \* time steps a one-time code is made for
          Policies,         \* settings of the policy that are chosen among
          TOTP,             \* the authenticator app, as a factor
          None

ASSUME FactorsAssumption ==
    /\ LockoutThreshold \in Nat \ {0}
    /\ BackupCodeCount \in Nat \ {0}
    /\ Steps \subseteq Nat \ {0}
    /\ Policies \subseteq BOOLEAN
    /\ TOTP \notin Nat /\ None \notin Nat \cup {TOTP}

\* The purposes the table of ceremonies accepts, and those the handlers have.
Purposes   == {"register", "authenticate"}
Ceremonies == Purposes \cup {"reauth"}
Kinds      == Ceremonies \cup {"grant", "code"}
Ticket     == [kind : Kinds, id : Nat \ {0}]
Things     == Kinds \cup {"passkey", "secret"}

Enrollment == [secret : Nat, confirmed : BOOLEAN, last : Nat]

VARIABLES totp,       \* the authenticator app: None, or [secret, confirmed, last]
          passkeys,   \* registered passkeys
          codes,      \* unused recovery codes
          grants,     \* unspent proofs of presence
          ceremonies, \* WebAuthn ceremonies that were begun
          lockout,    \* [failed, old, locked]: failures, and whether their window is over
          policy,     \* administrators must hold a second factor
          tokens,     \* types of token the user holds
          req,        \* the requests
          serial,     \* how many of each kind of thing there have been
          since,      \* history: factors held without a break since each request began
          begun       \* history: secrets and registrations begun on a grant or as the first

vars == <<totp, passkeys, codes, grants, ceremonies, lockout, policy, tokens,
          req, serial, since, begun>>

Confirmed == totp # None /\ totp.confirmed
Held      == (IF Confirmed THEN {TOTP} ELSE {}) \cup passkeys

-----------------------------------------------------------------------------
(* Requests *)

\* What each request is about, and the kind of ticket it takes on the way.
Wants == [login         |-> None,           verify       |-> "code",
          authenticate  |-> None,           authenticated |-> "authenticate",
          password      |-> None,           present      |-> None,
          presented     |-> "reauth",       enroll       |-> "grant",
          confirm       |-> None,           disable      |-> "grant",
          register      |-> "grant",        registered   |-> "register",
          delete        |-> "grant",        regenerate   |-> "grant"]

Ops == DOMAIN Wants

\* The requests each type of token is let through for.
AllowedForChallenge ==
    [session       |-> Ops \ {"login"},
     mfa_challenge |-> {"verify", "authenticate", "authenticated"},
     mfa_enroll    |-> {"enroll", "confirm", "register", "registered"}]

Reachable == {"login"} \cup UNION {AllowedForChallenge[t] : t \in tokens}

\* The statement each handler sends first.
Entry(op) ==
    CASE op \in {"login", "enroll", "register", "disable", "delete", "regenerate"} -> "list"
      [] op = "confirm"                                                            -> "read"
      [] op = "registered"                                                         -> "take"
      [] op \in {"authenticate", "present"}                                        -> "begin"
      [] op \in {"verify", "authenticated", "password", "presented"}               -> "lock"

NoRequest == [op |-> None, at |-> "done", has |-> None, secret |-> None, next |-> None,
              seen |-> {}, rows |-> {}, spent |-> None]

Set(r, x) == req' = [req EXCEPT ![r] = x]

Begin(r) ==
    /\ req[r].op = None
    /\ \E op \in Reachable, p \in passkeys \cup {None} :
          /\ (op = "delete") = (p # None)
          /\ Set(r, [NoRequest EXCEPT !.op = op, !.at = Entry(op), !.has = p])
    /\ since' = [since EXCEPT ![r] = Held]
    /\ UNCHANGED <<totp, passkeys, codes, grants, ceremonies, lockout, policy, tokens,
                   serial, begun>>

At(r, place, ops) == req[r].at = place /\ req[r].op \in ops

\* The request goes on to its next statement; the other fields are what it then knows.
Go(r, place)            == Set(r, [req[r] EXCEPT !.at = place])
GoWith(r, place, x)     == Set(r, [req[r] EXCEPT !.at = place, !.has = x])
GoKnowing(r, place, S)  == Set(r, [req[r] EXCEPT !.at = place, !.seen = S])
GoSpending(r, place, t) == Set(r, [req[r] EXCEPT !.at = place, !.spent = t])
Done(r) == Set(r, [NoRequest EXCEPT !.op = req[r].op, !.spent = req[r].spent])

Fresh(k)  == serial[k] + 1
New(k)    == [kind |-> k, id |-> Fresh(k)]
Count(k)  == serial' = [serial EXCEPT ![k] = @ + 1]
Forget(F) == since' = [q \in Requests |-> since[q] \ F]

\* An enrollment is begun rightly on a grant, or when no factor was held all the while.
Named(secret) == [kind |-> "secret", id |-> secret]
Note(r, k)    == begun' = begun \cup (IF req[r].spent # None \/ since[r] = {} THEN {New(k)} ELSE {})

Removals == {"disable", "delete"}

-----------------------------------------------------------------------------
(* ListEnrollments: the app and the passkeys are read one after the other. *)

ListTOTP(r) ==
    /\ req[r].at \in {"list", "relist"}
    /\ GoKnowing(r, IF req[r].at = "list" THEN "keys" ELSE "rekeys",
                 IF Confirmed THEN {TOTP} ELSE {})
    /\ UNCHANGED <<totp, passkeys, codes, grants, ceremonies, lockout, policy, tokens,
                   serial, since, begun>>

\* Mutant: an account is judged by its authenticator app alone.
AppOnly(r) == req[r].seen

Enrollments(r) == req[r].seen \cup passkeys

ListPasskeys(r) ==
    /\ req[r].at = "keys"
    /\ LET found == Enrollments(r) IN
       CASE req[r].op = "login" ->
              IF found = {} THEN Go(r, "policy") /\ UNCHANGED tokens
              ELSE Done(r) /\ tokens' = tokens \cup {"mfa_challenge"}
         [] req[r].op \in {"enroll", "register"} ->
              GoKnowing(r, IF found = {} THEN "apply" ELSE "grant", {}) /\ UNCHANGED tokens
         [] req[r].op \in Removals ->
              GoKnowing(r, "policy", found) /\ UNCHANGED tokens
         [] req[r].op = "regenerate" ->
              (IF found = {} THEN Done(r) ELSE GoKnowing(r, "grant", {})) /\ UNCHANGED tokens
    /\ UNCHANGED <<totp, passkeys, codes, grants, ceremonies, lockout, policy,
                   serial, since, begun>>

-----------------------------------------------------------------------------
(* Login *)

IssueWithoutFactor(r) ==
    /\ At(r, "policy", {"login"})
    /\ tokens' = tokens \cup {IF policy THEN "mfa_enroll" ELSE "session"}
    /\ Done(r)
    /\ UNCHANGED <<totp, passkeys, codes, grants, ceremonies, lockout, policy,
                   serial, since, begun>>

-----------------------------------------------------------------------------
(* Proof of presence *)

\* guardLastFactor: what would be left is what was read before.
CanRemove(r) ==
    LET going == IF req[r].op = "disable" THEN TOTP ELSE req[r].has
    IN  policy => req[r].seen \ {going} # {}

GuardLastFactor(r) ==
    /\ At(r, "policy", Removals)
    /\ IF CanRemove(r) THEN GoKnowing(r, "grant", {}) ELSE Done(r)
    /\ UNCHANGED <<totp, passkeys, codes, grants, ceremonies, lockout, policy, tokens,
                   serial, since, begun>>

\* Mutant: the grant is read, and deleted later by the sweep of expired ones.
ReadGrant(r) ==
    /\ \E g \in grants : GoSpending(r, "apply", g)
    /\ UNCHANGED grants

TakeReauthGrant(r) ==
    \E g \in grants : grants' = grants \ {g} /\ GoSpending(r, "apply", g)

\* Mutant: the handler writes the refusal and goes on.
GoesOn(r) == Go(r, "apply") /\ UNCHANGED grants

\* A request without a grant, or with one that is spent or has expired.
Refused(r) == Done(r) /\ UNCHANGED grants

RequireReauth(r) ==
    /\ req[r].at = "grant"
    /\ TakeReauthGrant(r) \/ Refused(r)
    /\ UNCHANGED <<totp, passkeys, codes, ceremonies, lockout, policy, tokens,
                   serial, since, begun>>

-----------------------------------------------------------------------------
(* The authenticator app *)

\* A new secret replaces one that was never confirmed.
EnrollTOTP(r) ==
    /\ At(r, "apply", {"enroll"})
    /\ IF Confirmed THEN UNCHANGED <<totp, serial, begun>>
       ELSE /\ totp' = [secret |-> Fresh("secret"), confirmed |-> FALSE, last |-> 0]
            /\ Count("secret")
            /\ Note(r, "secret")
    /\ Done(r)
    /\ UNCHANGED <<passkeys, codes, grants, ceremonies, lockout, policy, tokens, since>>

\* The pending secret is read and a code of it checked; a wrong code or a late one ends it.
CheckPending(r) ==
    /\ req[r].at = "read"
    /\ \/ /\ totp # None /\ ~Confirmed
          /\ \E step \in Steps :
               Set(r, [req[r] EXCEPT !.at = "confirm", !.has = step, !.secret = totp.secret])
       \/ Done(r)
    /\ UNCHANGED <<totp, passkeys, codes, grants, ceremonies, lockout, policy, tokens,
                   serial, since, begun>>

\* Whatever secret the row holds by now is confirmed.
ConfirmTOTP(r) ==
    /\ req[r].at = "confirm"
    /\ totp' = IF totp = None THEN None
               ELSE [totp EXCEPT !.confirmed = TRUE, !.last = req[r].has]
    /\ Go(r, "rows")
    /\ UNCHANGED <<passkeys, codes, grants, ceremonies, lockout, policy, tokens,
                   serial, since, begun>>

DisableTOTP(r) ==
    /\ At(r, "apply", {"disable"})
    /\ totp' = None
    /\ Go(r, "relist")
    /\ Forget({TOTP})
    /\ UNCHANGED <<passkeys, codes, grants, ceremonies, lockout, policy, tokens, serial, begun>>

-----------------------------------------------------------------------------
(* Passkeys *)

BeginWebAuthnRegistration(r) ==
    /\ At(r, "apply", {"register"})
    /\ ceremonies' = ceremonies \cup {New("register")}
    /\ Count("register")
    /\ Note(r, "register")
    /\ Done(r)
    /\ UNCHANGED <<totp, passkeys, codes, grants, lockout, policy, tokens, since>>

\* For a sign-in or for a proof of presence, with a passkey; the row must be accepted.
BeginWebAuthnAuthentication(r) ==
    /\ req[r].at = "begin"
    /\ LET purpose == IF req[r].op = "present" THEN "reauth" ELSE "authenticate" IN
       IF passkeys = {} \/ purpose \notin Purposes THEN UNCHANGED <<ceremonies, serial>>
       ELSE ceremonies' = ceremonies \cup {New(purpose)} /\ Count(purpose)
    /\ Done(r)
    /\ UNCHANGED <<totp, passkeys, codes, grants, lockout, policy, tokens, since, begun>>

ForPurpose(r) == {t \in ceremonies : t.kind = Wants[req[r].op]}

TakeWebAuthnSession(r) ==
    /\ req[r].at = "take"
    /\ \/ \E t \in ForPurpose(r) :
             /\ ceremonies' = ceremonies \ {t}
             /\ GoSpending(r, IF req[r].op = "registered" THEN "insert" ELSE "assert", t)
       \/ Done(r) /\ UNCHANGED ceremonies
    /\ UNCHANGED <<totp, passkeys, codes, grants, lockout, policy, tokens,
                   serial, since, begun>>

\* A new credential, unless the library rejects what the browser sent.
InsertWebAuthnCredential(r) ==
    /\ req[r].at = "insert"
    /\ \/ /\ passkeys' = passkeys \cup {Fresh("passkey")}
          /\ Count("passkey")
          /\ Go(r, "count")
       \/ Done(r) /\ UNCHANGED <<passkeys, serial>>
    /\ UNCHANGED <<totp, codes, grants, ceremonies, lockout, policy, tokens, since, begun>>

CountUnusedBackupCodes(r) ==
    /\ req[r].at = "count"
    /\ IF codes = {} THEN Go(r, "rows") ELSE Done(r)
    /\ UNCHANGED <<totp, passkeys, codes, grants, ceremonies, lockout, policy, tokens,
                   serial, since, begun>>

DeleteWebAuthnCredential(r) ==
    /\ At(r, "apply", {"delete"})
    /\ passkeys' = passkeys \ {req[r].has}
    /\ IF req[r].has \in passkeys THEN Go(r, "relist") ELSE Done(r)
    /\ Forget({req[r].has})
    /\ UNCHANGED <<totp, codes, grants, ceremonies, lockout, policy, tokens, serial, begun>>

-----------------------------------------------------------------------------
(* Recovery codes *)

\* clearBackupCodesIfNoFactors, after a removal.
Relist(r) ==
    /\ req[r].at = "rekeys"
    /\ IF Enrollments(r) = {} THEN GoKnowing(r, "clear", {}) ELSE Done(r)
    /\ UNCHANGED <<totp, passkeys, codes, grants, ceremonies, lockout, policy, tokens,
                   serial, since, begun>>

DeleteBackupCodes(r) ==
    /\ req[r].at = "clear"
    /\ codes' = {}
    /\ Done(r)
    /\ UNCHANGED <<totp, passkeys, grants, ceremonies, lockout, policy, tokens,
                   serial, since, begun>>

\* A set is replaced in a transaction: the rows its DELETE finds go when it commits, those
\* another transaction inserts meanwhile do not.
FindBackupCodes(r) ==
    /\ req[r].at = "rows" \/ At(r, "apply", {"regenerate"})
    /\ Set(r, [req[r] EXCEPT !.at = "replace", !.rows = codes])
    /\ UNCHANGED <<totp, passkeys, codes, grants, ceremonies, lockout, policy, tokens,
                   serial, since, begun>>

ReplaceBackupCodes(r) ==
    /\ req[r].at = "replace"
    /\ LET set == {[kind |-> "code", id |-> serial["code"] + i] : i \in 1..BackupCodeCount} IN
       codes' = (codes \ req[r].rows) \cup set
    /\ serial' = [serial EXCEPT !["code"] = @ + BackupCodeCount]
    /\ Done(r)
    /\ UNCHANGED <<totp, passkeys, grants, ceremonies, lockout, policy, tokens, since, begun>>

\* A row that is being deleted is not updated.
Locked(t) == \E q \in Requests : req[q].at = "replace" /\ t \in req[q].rows

-----------------------------------------------------------------------------
(* Verification *)

ReadLockout(r) ==
    /\ req[r].at = "lock"
    /\ IF lockout.locked THEN Done(r)
       ELSE Go(r, IF req[r].op \in {"verify", "password"} THEN "check" ELSE "take")
    /\ UNCHANGED <<totp, passkeys, codes, grants, ceremonies, lockout, policy, tokens,
                   serial, since, begun>>

ConsumeBackupCode(r) ==
    /\ At(r, "check", {"verify"})
    /\ \E t \in codes :
          /\ ~Locked(t)
          /\ codes' = codes \ {t}
          /\ GoSpending(r, "success", t)
    /\ UNCHANGED <<totp, passkeys, grants, ceremonies, lockout, policy, tokens,
                   serial, since, begun>>

VerifyTOTP(r) ==
    /\ At(r, "check", {"verify"})
    /\ Confirmed
    /\ \E step \in Steps : step > totp.last /\ GoWith(r, "advance", step)
    /\ UNCHANGED <<totp, passkeys, codes, grants, ceremonies, lockout, policy, tokens,
                   serial, since, begun>>

\* A row that is gone, or whose counter is past the step, is not an error.
AdvanceTOTPCounter(r) ==
    /\ req[r].at = "advance"
    /\ totp' = IF totp = None \/ (totp # None /\ totp.last >= req[r].has) THEN totp
               ELSE [totp EXCEPT !.last = req[r].has]
    /\ GoWith(r, "success", None)
    /\ UNCHANGED <<passkeys, codes, grants, ceremonies, lockout, policy, tokens,
                   serial, since, begun>>

CheckPassword(r) ==
    /\ At(r, "check", {"password"})
    /\ Go(r, "success")
    /\ UNCHANGED <<totp, passkeys, codes, grants, ceremonies, lockout, policy, tokens,
                   serial, since, begun>>

\* An assertion of a registered passkey.
FinishLogin(r) ==
    /\ req[r].at = "assert"
    /\ passkeys # {}
    /\ Go(r, "success")
    /\ UNCHANGED <<totp, passkeys, codes, grants, ceremonies, lockout, policy, tokens,
                   serial, since, begun>>

WrongAnswer(r) ==
    /\ req[r].at \in {"check", "assert"}
    /\ Go(r, "fail")
    /\ UNCHANGED <<totp, passkeys, codes, grants, ceremonies, lockout, policy, tokens,
                   serial, since, begun>>

NoLockout    == [failed |-> 0, old |-> TRUE, locked |-> FALSE]
ClearLockout == [failed |-> 0, old |-> FALSE, locked |-> FALSE]

\* Failures beyond the threshold only lengthen the lock, and are not counted apart.
NextLockout(s) ==
    LET failed == IF s.old THEN 1
                  ELSE IF s.failed = LockoutThreshold THEN s.failed ELSE s.failed + 1
    IN  [failed |-> failed, old |-> FALSE, locked |-> failed = LockoutThreshold]

\* recordMFAFailure: read, and written back later.
CountFailure(r) ==
    /\ req[r].at = "fail"
    /\ Set(r, [req[r] EXCEPT !.at = "save", !.next = NextLockout(lockout)])
    /\ UNCHANGED <<totp, passkeys, codes, grants, ceremonies, lockout, policy, tokens,
                   serial, since, begun>>

SaveLockout(r) ==
    /\ req[r].at = "save"
    /\ lockout' = req[r].next
    /\ Done(r)
    /\ UNCHANGED <<totp, passkeys, codes, grants, ceremonies, policy, tokens,
                   serial, since, begun>>

ClearMFAFailures(r) ==
    /\ req[r].at = "success"
    /\ lockout' = ClearLockout
    /\ Go(r, "issue")
    /\ UNCHANGED <<totp, passkeys, codes, grants, ceremonies, policy, tokens,
                   serial, since, begun>>

IssueSessionAfterMFA(r) ==
    /\ At(r, "issue", {"verify", "authenticated"})
    /\ tokens' = tokens \cup {"session"}
    /\ Done(r)
    /\ UNCHANGED <<totp, passkeys, codes, grants, ceremonies, lockout, policy,
                   serial, since, begun>>

IssueReauthGrant(r) ==
    /\ At(r, "issue", {"password", "presented"})
    /\ grants' = grants \cup {New("grant")}
    /\ Count("grant")
    /\ Done(r)
    /\ UNCHANGED <<totp, passkeys, codes, ceremonies, lockout, policy, tokens, since, begun>>

-----------------------------------------------------------------------------
(* Around the account *)

UpdateMFAPolicy ==
    /\ policy' \in Policies
    /\ UNCHANGED <<totp, passkeys, codes, grants, ceremonies, lockout, tokens, req,
                   serial, since, begun>>

\* Another administrator clears the account, in one transaction, on a grant of their own.
ResetUserMFA ==
    /\ totp' = None
    /\ passkeys' = {}
    /\ codes' = {}
    /\ grants' = {}
    /\ ceremonies' = {}
    /\ lockout' = NoLockout
    /\ since' = [q \in Requests |-> {}]
    /\ UNCHANGED <<policy, tokens, req, serial, begun>>

\* The window of the failures is over; a lock lasts at least as long.
LockoutPasses ==
    /\ \/ ~lockout.old /\ lockout' = [lockout EXCEPT !.old = TRUE]
       \/ lockout.old /\ lockout.locked /\ lockout' = [lockout EXCEPT !.locked = FALSE]
    /\ UNCHANGED <<totp, passkeys, codes, grants, ceremonies, policy, tokens, req,
                   serial, since, begun>>

-----------------------------------------------------------------------------
\* An account as earlier requests leave it, and what its user holds then.
CONSTANT Accounts

\* Tickets of these kinds that there have been when serial counts them.
Numbered(kinds, s) == {t \in Ticket : t.kind \in kinds /\ t.id =< s[t.kind]}

ASSUME AccountsAssumption ==
    /\ None \notin Ops \cup Kinds \cup Ticket \cup Enrollment
    /\ \A a \in Accounts :
          /\ a.totp \in Enrollment \cup {None} /\ a.passkeys \subseteq Nat
          /\ a.serial \in [Things -> Nat]
          /\ \A t \in a.grants     : t \in Numbered({"grant"}, a.serial)
          /\ \A t \in a.ceremonies : t \in Numbered(Purposes, a.serial)
          /\ \A t \in a.codes      : t \in Numbered({"code"}, a.serial)
          /\ a.tokens \subseteq DOMAIN AllowedForChallenge

Init ==
    /\ \E a \in Accounts :
          /\ totp = a.totp /\ passkeys = a.passkeys /\ codes = a.codes
          /\ grants = a.grants /\ ceremonies = a.ceremonies
          /\ tokens = a.tokens /\ serial = a.serial
    /\ lockout = NoLockout
    /\ policy \in Policies
    /\ req   = [r \in Requests |-> NoRequest]
    /\ since = [r \in Requests |-> {}]
    /\ begun = (IF totp = None THEN {} ELSE {Named(totp.secret)})
                 \cup {t \in ceremonies : t.kind = "register"}

Step(r) ==
    \/ Begin(r)
    \/ ListTOTP(r)
    \/ ListPasskeys(r)
    \/ IssueWithoutFactor(r)
    \/ GuardLastFactor(r)
    \/ RequireReauth(r)
    \/ EnrollTOTP(r)
    \/ CheckPending(r)
    \/ ConfirmTOTP(r)
    \/ DisableTOTP(r)
    \/ BeginWebAuthnRegistration(r)
    \/ BeginWebAuthnAuthentication(r)
    \/ TakeWebAuthnSession(r)
    \/ InsertWebAuthnCredential(r)
    \/ CountUnusedBackupCodes(r)
    \/ DeleteWebAuthnCredential(r)
    \/ Relist(r)
    \/ DeleteBackupCodes(r)
    \/ FindBackupCodes(r)
    \/ ReplaceBackupCodes(r)
    \/ ReadLockout(r)
    \/ ConsumeBackupCode(r)
    \/ VerifyTOTP(r)
    \/ AdvanceTOTPCounter(r)
    \/ CheckPassword(r)
    \/ FinishLogin(r)
    \/ WrongAnswer(r)
    \/ CountFailure(r)
    \/ SaveLockout(r)
    \/ ClearMFAFailures(r)
    \/ IssueSessionAfterMFA(r)
    \/ IssueReauthGrant(r)

Next ==
    \/ \E r \in Requests : Step(r)
    \/ UpdateMFAPolicy
    \/ ResetUserMFA
    \/ LockoutPasses

Spec == Init /\ [][Next]_vars

-----------------------------------------------------------------------------
(* Properties *)

Places == {"done", "list", "keys", "policy", "grant", "apply", "read", "confirm", "rows",
           "replace", "take", "insert", "count", "assert", "relist", "rekeys", "clear", "begin",
           "lock", "check", "advance", "success", "issue", "fail", "save"}

Lockout    == [failed : 0..LockoutThreshold, old : BOOLEAN, locked : BOOLEAN]

Request    == [op : Ops \cup {None}, at : Places, has : Nat \cup {None},
               secret : Nat \cup {None}, next : Lockout \cup {None}, seen : SUBSET (Nat \cup {TOTP}),
               rows : SUBSET Ticket, spent : Ticket \cup {None}]

\* The tables, tokens and requests hold what they may; failures are not counted beyond the
\* threshold that locks.
TypeOK ==
    /\ totp \in Enrollment \cup {None}
    /\ passkeys \in SUBSET Nat
    /\ codes \in SUBSET Ticket
    /\ grants \in SUBSET Ticket
    /\ ceremonies \in SUBSET Ticket
    /\ lockout \in Lockout
    /\ policy \in BOOLEAN
    /\ tokens \in SUBSET DOMAIN AllowedForChallenge
    /\ req \in [Requests -> Request]
    /\ serial \in [Things -> Nat]
    /\ since \in [Requests -> SUBSET (Nat \cup {TOTP})]
    /\ begun \in SUBSET [kind : {"secret", "register"}, id : Nat]

\* A sign-in that is let through on the password alone found no factor, and there is none
\* the account has held since the sign-in began, whatever was enrolled and removed at
\* the same time (issuePartialTokenIfNeeded, whose two reads are not one).
SecondFactorAsked ==
    \A r \in Requests : At(r, "policy", {"login"}) => since[r] = {}

\* What a request has to show for a change: the grant it spent, the enrollment it finishes.
HasPaid(r) == req[r].spent # None /\ req[r].spent.kind = "grant"
Finishes(r) ==
    IF req[r].op = "confirm" THEN Named(req[r].secret) ELSE req[r].spent

\* A request takes a factor away only on a grant; it adds one only by an enrollment that was
\* begun rightly (the secret the row holds by then, or the ceremony), on a grant or by a request
\* that held no factor throughout; and it replaces or clears the recovery codes only on a grant
\* or at the end of such an enrollment.  The end asks for no grant: an account that got another
\* factor after the beginning is not asked again, and loses its codes to a confirmation.
FactorsPaid ==
    [][\A r \in Requests : req'[r] # req[r] =>
         /\ Held \subseteq Held' \/ HasPaid(r)
         /\ TOTP \in Held' \ Held => Named(totp.secret) \in begun
         /\ passkeys' \subseteq passkeys \/ Finishes(r) \in begun
         /\ codes' = codes \/ req[r].op = "verify" \/ HasPaid(r) \/ Finishes(r) \in begun]_vars

\* Grants, ceremonies and recovery codes are single-use tickets.
Tickets == INSTANCE SingleUse WITH
              Takers <- Requests,
              open   <- grants \cup ceremonies \cup codes,
              made   <- UNION {{[kind |-> k, id |-> i] : i \in 1..serial[k]} : k \in Kinds},
              came   <- [r \in Requests |-> IF req[r].op = None THEN None ELSE Wants[req[r].op]],
              taken  <- [r \in Requests |-> req[r].spent]

\* However requests meet, a grant buys one change, a ceremony is finished once and for the
\* purpose it was begun for, and a recovery code opens one session (the statements that
\* delete and return a row, or update it only while it is unused).
TicketsHold == Tickets!Spec

\* A user who has a passkey can begin to prove their presence with it.
PresenceBegins ==
    [][\A r \in Requests :
         At(r, "begin", {"present"}) /\ req'[r].at = "done" /\ passkeys # {}
         => \E t \in ceremonies' \ ceremonies : t.kind = "reauth"]_vars
=============================================================================
