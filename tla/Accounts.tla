----------------------------- MODULE Accounts -----------------------------
(***************************************************************************)
(* The accounts of an installation: the first is made by its setup, the    *)
(* others by an administrator, with a password or with an invite; their    *)
(* passwords are changed by their users, or reset with a code sent by      *)
(* mail; and their users make keys for the API, and call it with them.     *)
(* Requests run at the same time, on any replica, and take one step for    *)
(* each statement they send to the database.                               *)
(*                                                                         *)
(* A password is named by the request that sets it.  Time is not modelled: *)
(* an invite, a code or a key may be refused as expired at any time.       *)
(***************************************************************************)
EXTENDS Naturals, Sequences

CONSTANTS Users,    \* people, by their names and addresses
          Requests, \* requests to the server
          Ops,      \* what requests are made for
          Starts,   \* what may be stored at first
          Asked,    \* sets of scopes that are asked for, as they are spelled
          Faults,   \* statements may fail
          None

Operations == {"setup", "register", "invite", "accept", "change", "forgot", "reset", "key", "revoke",
               "call"}

ASSUME AccountsAssumption ==
    /\ Ops \subseteq Operations
    /\ None \notin Requests \cup Users \cup Operations
    /\ Faults \in BOOLEAN

Roles  == {"admin", "developer", "viewer"}
Scopes == {"read", "write", "deploy", "admin"}

Account == [role : Roles, password : Requests \cup {None}]
Token   == [user : Users, used : BOOLEAN]

\* Invites and codes refer to users that there are.
ASSUME StartsAssumption ==
    /\ None \notin Nat \cup Account
    /\ \A s \in Starts :
          /\ s.account \in [Users -> Account \cup {None}]
          /\ s.invites \in Seq(Token) /\ s.resets \in Seq(Token)
          /\ \A i \in DOMAIN s.invites : s.account[s.invites[i].user] # None
          /\ \A i \in DOMAIN s.resets : s.account[s.resets[i].user] # None

\* The routes for which a key needs a scope: one of scopes; viewers may be denied whatever
\* their key says.
Routes == {[scopes |-> {"read"}, viewers |-> TRUE],
           [scopes |-> {"read"}, viewers |-> FALSE],
           [scopes |-> {"write"}, viewers |-> FALSE],
           [scopes |-> {"deploy", "write"}, viewers |-> FALSE]}

VARIABLES account, \* of each user: None, or [role, password]
          team,    \* the members of the team that the setup names, or None
          invites, \* the invites made so far, each [user, used]
          resets,  \* the reset codes made so far, each [user, used]
          keys,    \* keys for the API, each [id, user, scopes]
          req      \* the requests

vars == <<account, team, invites, resets, keys, req>>

-----------------------------------------------------------------------------
(* Requests *)

\* given is what a request shows: an invite, a code, a password, scopes or a key; wants, the role
\* for an account, or the route of a call.  took is the invite it has taken; open, the invites,
\* codes or keys that could be used when it began; held, the passwords its user has had since;
\* earlier, how many codes there were.
NewRequest == [op |-> None, at |-> "idle", user |-> None, given |-> None, wants |-> None,
               took |-> None, open |-> {}, held |-> {}, earlier |-> 0, clean |-> TRUE]

At(r, op, place) == req[r].op = op /\ req[r].at = place
Place(r, place)  == [req[r] EXCEPT !.at = place]
Becomes(r, x)    == req' = [req EXCEPT ![r] = x]

\* A statement of r fails, and the request goes on as it does then.
Fails(r, place) == Faults /\ Becomes(r, [Place(r, place) EXCEPT !.clean = FALSE])

\* The passwords that user u has had since r began.
Holds(r, u, p) == IF req[r].user = u THEN req[r].held \cup {p} ELSE req[r].held

Ends(r, u, p, place) ==
    req' = [x \in Requests |-> [req[x] EXCEPT !.held = Holds(x, u, p), !.at = IF x = r THEN place ELSE @]]

Exists(u) == account[u] # None
Unused(q) == {i \in DOMAIN q : ~q[i].used}

-----------------------------------------------------------------------------
(* Scopes of keys *)

\* Scopes are compared in lower case and without blanks.
Normal(s) == CASE s = "ADMIN" -> "admin" [] s = " write" -> "write" [] OTHER -> s

Within(role) ==
    CASE role = "admin"  -> Scopes
      [] role = "viewer" -> {"read"}
      [] OTHER           -> Scopes \ {"admin"}

\* Mutant: scopes are judged as they are spelled.
AsSpelled(asked, role) ==
    \A s \in asked : s \in {"admin", "write", "deploy"} => s \in Within(role)

\* validateTokenScopes: blanks are skipped; one that is unknown, or beyond the role, refuses all.
Grantable(asked, role) ==
    \A s \in {Normal(x) : x \in asked} \ {""} : s \in Scopes /\ s \in Within(role)

\* Who asks for none is given what deploying takes, or a viewer what reading does.
ScopesOf(asked, role) ==
    LET named == {Normal(x) : x \in asked} \ {""}
    IN  IF named # {} THEN named ELSE Within(role) \cap {"deploy", "read"}

-----------------------------------------------------------------------------
(* Requests arrive *)

\* AuthRequired and RequireRole: who may be signed in to make the request.
Signed(op, u) ==
    CASE op \in {"setup", "accept", "forgot", "reset"} -> TRUE
      [] op \in {"register", "invite"} -> \E a \in Users : Exists(a) /\ account[a].role = "admin"
      [] op = "call" -> TRUE
      [] OTHER -> Exists(u)

\* What may be shown: any invite, code or key there is, any password the user had or has.
Shown(op, u) ==
    CASE op = "accept"   -> {i \in DOMAIN invites : invites[i].user = u}
      [] op = "reset"    -> {i \in DOMAIN resets : resets[i].user = u}
      [] op = "change"   -> {account[x].password : x \in {y \in Users : Exists(y)}}
      [] op = "revoke"   -> {k \in keys : k.user = u}
      [] op = "key"      -> Asked
      [] op = "call"     -> keys \cup {req[x].given : x \in {y \in Requests : req[y].op = "revoke"}}
      [] OTHER           -> {None}

Wanted(op) ==
    CASE op \in {"register", "invite"} -> Roles
      [] op = "call"                   -> Routes
      [] OTHER                         -> {None}

Usable(op) ==
    CASE op = "accept" -> Unused(invites)
      [] op = "call"   -> keys
      [] OTHER         -> Unused(resets)

Begin(r) ==
    /\ req[r].op = None
    /\ \E op \in Ops, u \in Users :
          /\ Signed(op, u)
          /\ \E x \in Shown(op, u), w \in Wanted(op) :
                Becomes(r, [op |-> op, at |-> "begun", user |-> u, given |-> x, wants |-> w, took |-> None,
                            open |-> Usable(op),
                            held |-> IF Exists(u) THEN {account[u].password} ELSE {},
                            earlier |-> Len(resets), clean |-> TRUE])
    /\ UNCHANGED <<account, team, invites, resets, keys>>

-----------------------------------------------------------------------------
(* Setup and registration *)

\* Setup is for an installation without users.
CountUsers(r) ==
    /\ At(r, "setup", "begun")
    /\ \/ Becomes(r, Place(r, IF \E u \in Users : Exists(u) THEN "failed" ELSE "create"))
       \/ Fails(r, "failed")
    /\ UNCHANGED <<account, team, invites, resets, keys>>

\* CreateUser refuses a name or an address that is taken.
CreateUser(r, role, next) ==
    LET u == req[r].user IN
    \/ /\ ~Exists(u)
       /\ account' = [account EXCEPT ![u] = [role |-> role, password |-> r]]
       /\ Ends(r, u, r, next)
    \/ Exists(u) /\ Becomes(r, Place(r, "failed")) /\ UNCHANGED account
    \/ Fails(r, "failed") /\ UNCHANGED account

SetupUser(r) ==
    /\ At(r, "setup", "create")
    /\ CreateUser(r, "admin", "team")
    /\ UNCHANGED <<team, invites, resets, keys>>

SetupTeam(r) ==
    /\ At(r, "setup", "team")
    /\ \/ team = None /\ team' = {} /\ Becomes(r, Place(r, "member"))
       \/ team # None /\ Becomes(r, Place(r, "failed")) /\ UNCHANGED team
       \/ Fails(r, "failed") /\ UNCHANGED team
    /\ UNCHANGED <<account, invites, resets, keys>>

SetupMember(r) ==
    /\ At(r, "setup", "member")
    /\ \/ team' = team \cup {req[r].user} /\ Becomes(r, Place(r, "done"))
       \/ Fails(r, "failed") /\ UNCHANGED team
    /\ UNCHANGED <<account, invites, resets, keys>>

\* Register: with a password, or with a random one and an invite to replace it.
Register(r) ==
    /\ At(r, "register", "begun") \/ At(r, "invite", "begun")
    /\ CreateUser(r, req[r].wants, IF req[r].op = "invite" THEN "token" ELSE "done")
    /\ UNCHANGED <<team, invites, resets, keys>>

\* If the invite cannot be stored, the account stays, and the request succeeds.
CreateInvite(r) ==
    /\ At(r, "invite", "token")
    /\ \/ /\ invites' = Append(invites, [user |-> req[r].user, used |-> FALSE])
          /\ Becomes(r, Place(r, "done"))
       \/ Fails(r, "done") /\ UNCHANGED invites
    /\ UNCHANGED <<account, team, resets, keys>>

-----------------------------------------------------------------------------
(* Passwords *)

UpdatePassword(r, next) ==
    LET u == req[r].user IN
    /\ \/ account' = [account EXCEPT ![u].password = r] /\ Ends(r, u, r, next)
       \/ Fails(r, "failed") /\ UNCHANGED account
    /\ UNCHANGED <<team, invites, resets, keys>>

\* Mutant: the invite is looked up, and not marked as used.
LeavesInvite(i) == invites

\* ConsumeInviteToken: one statement finds the invite unused and marks it.
TakesInvite(i) == [invites EXCEPT ![i].used = TRUE]

\* The user is read in a second statement.
TakeInvite(r) ==
    /\ At(r, "accept", "begun")
    /\ \/ /\ ~invites[req[r].given].used
          /\ invites' = TakesInvite(req[r].given)
          /\ \/ Becomes(r, [Place(r, "set") EXCEPT !.took = req[r].given])
             \/ Faults /\ Becomes(r, [Place(r, "failed") EXCEPT !.took = req[r].given, !.clean = FALSE])
       \/ Becomes(r, Place(r, "failed")) /\ UNCHANGED invites
    /\ UNCHANGED <<account, team, resets, keys>>

AcceptInvite(r) == At(r, "accept", "set") /\ UpdatePassword(r, "done")

\* ChangePassword: the current password is to be shown.
CheckPassword(r) ==
    /\ At(r, "change", "begun")
    /\ \/ Becomes(r, Place(r, IF req[r].given = account[req[r].user].password THEN "set" ELSE "failed"))
       \/ Fails(r, "failed")
    /\ UNCHANGED <<account, team, invites, resets, keys>>

ChangePassword(r) == At(r, "change", "set") /\ UpdatePassword(r, "done")

\* Mutant: codes sent earlier stay.
LeavesCodes(u) == resets

\* Codes that were sent before are withdrawn.
Withdrawn(u) == [i \in DOMAIN resets |-> [resets[i] EXCEPT !.used = @ \/ resets[i].user = u]]

\* ForgotPassword answers the same whether there is such a user or not; if the earlier codes
\* cannot be withdrawn, it goes on.
WithdrawCodes(r) ==
    /\ At(r, "forgot", "begun")
    /\ \/ ~Exists(req[r].user) /\ Becomes(r, Place(r, "done")) /\ UNCHANGED resets
       \/ Exists(req[r].user) /\ resets' = Withdrawn(req[r].user) /\ Becomes(r, Place(r, "insert"))
       \/ Exists(req[r].user) /\ Fails(r, "insert") /\ UNCHANGED resets
    /\ UNCHANGED <<account, team, invites, keys>>

InsertCode(r) ==
    /\ At(r, "forgot", "insert")
    /\ \/ /\ resets' = Append(resets, [user |-> req[r].user, used |-> FALSE])
          /\ Becomes(r, Place(r, "done"))
       \/ Fails(r, "done") /\ UNCHANGED resets
    /\ UNCHANGED <<account, team, invites, keys>>

\* Mutant: a code is good if it was ever sent.
IsCode(i) == i \in DOMAIN resets

\* ValidatePasswordResetToken.
IsGood(i) == i \in Unused(resets)

\* ResetPassword: the code is good, the password is set, the code is used up.
ValidateCode(r) ==
    /\ At(r, "reset", "begun")
    /\ \/ IsGood(req[r].given) /\ Becomes(r, Place(r, "set"))
       \/ Becomes(r, Place(r, "failed"))
    /\ UNCHANGED <<account, team, invites, resets, keys>>

ResetPassword(r) == At(r, "reset", "set") /\ UpdatePassword(r, "use")

\* Whether this fails is not looked at.
UseCode(r) ==
    /\ At(r, "reset", "use")
    /\ \/ resets' = [resets EXCEPT ![req[r].given].used = TRUE] /\ Becomes(r, Place(r, "done"))
       \/ Fails(r, "done") /\ UNCHANGED resets
    /\ UNCHANGED <<account, team, invites, keys>>

-----------------------------------------------------------------------------
(* Keys *)

\* CreateAPIToken, with the role the session was made with.
CreateKey(r) ==
    LET role == account[req[r].user].role IN
    /\ At(r, "key", "begun")
    /\ \/ /\ Grantable(req[r].given, role)
          /\ keys' = keys \cup {[id |-> r, user |-> req[r].user, scopes |-> ScopesOf(req[r].given, role)]}
          /\ Becomes(r, Place(r, "done"))
       \/ ~Grantable(req[r].given, role) /\ Becomes(r, Place(r, "failed")) /\ UNCHANGED keys
       \/ Fails(r, "failed") /\ UNCHANGED keys
    /\ UNCHANGED <<account, team, invites, resets>>

RevokeKey(r) ==
    /\ At(r, "revoke", "begun")
    /\ \/ keys' = keys \ {req[r].given}
          /\ Becomes(r, Place(r, IF req[r].given \in keys THEN "done" ELSE "failed"))
       \/ Fails(r, "failed") /\ UNCHANGED keys
    /\ UNCHANGED <<account, team, invites, resets>>

\* authenticateAPIKey: the key, and then its owner, are looked up.
FindKey(r) ==
    /\ At(r, "call", "begun")
    /\ \/ req[r].given \in keys /\ Becomes(r, Place(r, "owner"))
       \/ Becomes(r, Place(r, "failed"))
    /\ UNCHANGED <<account, team, invites, resets, keys>>

\* RequireScope: one of the scopes of the route, or the one that is for all.
InScope(key, route) == key.scopes \cap (route.scopes \cup {"admin"}) # {}

LetThrough(r) ==
    /\ At(r, "call", "owner")
    /\ LET key == req[r].given IN
       \/ Becomes(r, Place(r, IF /\ account[key.user].role = "viewer" => req[r].wants.viewers
                                 /\ InScope(key, req[r].wants)
                              THEN "done" ELSE "failed"))
       \/ Fails(r, "failed")
    /\ UNCHANGED <<account, team, invites, resets, keys>>

-----------------------------------------------------------------------------
Init ==
    /\ \E s \in Starts : /\ account = s.account
                         /\ invites = s.invites
                         /\ resets  = s.resets
    /\ team = None
    /\ keys = {}
    /\ req  = [r \in Requests |-> NewRequest]

Setup(r)  == CountUsers(r) \/ SetupUser(r) \/ SetupTeam(r) \/ SetupMember(r)
Accept(r) == TakeInvite(r) \/ AcceptInvite(r)
Change(r) == CheckPassword(r) \/ ChangePassword(r)
Forgot(r) == WithdrawCodes(r) \/ InsertCode(r)
Reset(r)  == ValidateCode(r) \/ ResetPassword(r) \/ UseCode(r)
Call(r)   == FindKey(r) \/ LetThrough(r)

Next == \E r \in Requests :
    \/ Begin(r)
    \/ Setup(r) \/ Register(r) \/ CreateInvite(r)
    \/ Accept(r) \/ Change(r) \/ Forgot(r) \/ Reset(r)
    \/ CreateKey(r) \/ RevokeKey(r) \/ Call(r)

Spec == Init /\ [][Next]_vars

-----------------------------------------------------------------------------
(* What is to hold *)

Places == {"idle", "begun", "failed", "create", "team", "member", "token", "set", "insert", "use",
           "owner", "done"}
Key    == [id : Requests, user : Users, scopes : SUBSET Scopes]
Given  == Nat \cup Requests \cup {None} \cup Asked \cup Key
Request ==
    [op : Ops \cup {None}, at : Places, user : Users \cup {None}, given : Given,
     wants : Roles \cup Routes \cup {None}, took : Nat \cup {None}, open : SUBSET (Nat \cup Key),
     held : SUBSET (Requests \cup {None}), earlier : Nat, clean : BOOLEAN]

\* Every variable has its type.
TypeOK ==
    /\ account \in [Users -> Account \cup {None}]
    /\ team \in (SUBSET Users) \cup {None}
    /\ invites \in Seq(Token) /\ resets \in Seq(Token)
    /\ keys \subseteq Key
    /\ req \in [Requests -> Request]

\* An invite is accepted once, however many requests show it at the same time and whatever fails
\* afterwards ("The UPDATE ... RETURNING makes exactly one caller win", ConsumeInviteToken).
Ticket(i) == [kind |-> "invite", id |-> i]

Once == INSTANCE SingleUse WITH
    Takers <- Requests,
    Kinds  <- {"invite"},
    open   <- {Ticket(i) : i \in Unused(invites)},
    made   <- {Ticket(i) : i \in DOMAIN invites},
    came   <- [r \in Requests |-> IF req[r].op = "accept" THEN "invite" ELSE None],
    taken  <- [r \in Requests |-> IF req[r].took = None THEN None ELSE Ticket(req[r].took)]

InvitesOnce == Once!Spec

\* Whoever sets the password of a user has shown what it takes: an invite or a code of that user
\* that could be used when the request began, or a password that the user had since then.  A
\* request that was overtaken by another may still do so, one that came after it may not.
Proof(r, u) ==
    CASE req[r].op = "accept" -> invites[req[r].given].user = u /\ req[r].given \in req[r].open
      [] req[r].op = "reset"  -> resets[req[r].given].user = u /\ req[r].given \in req[r].open
      [] req[r].op = "change" -> req[r].user = u /\ req[r].given \in req[r].held
      [] OTHER                -> FALSE

PasswordsProven ==
    [][\A u \in Users :
          Exists(u) /\ account'[u].password # account[u].password =>
              \E r \in Requests : /\ req'[r].at # req[r].at
                                  /\ account'[u].password = r
                                  /\ Proof(r, u)]_vars

\* A reset code ends: when a request for a code has been answered, the codes sent before it began
\* are of no use any more, and when a password has been reset, neither is the code it was reset
\* with, unless the statement that marks them failed.
CodesEnd ==
    \A r \in Requests :
        /\ At(r, "forgot", "done") /\ req[r].clean =>
               \A i \in 1..req[r].earlier : resets[i].user = req[r].user => resets[i].used
        /\ At(r, "reset", "done") /\ req[r].clean => resets[req[r].given].used

\* No key has a scope beyond the role of its owner, however it was spelled in the request
\* ("refuses to mint a token more powerful than the requesting user's own role"), and a call is
\* let through only with a key that had not been revoked before the call was made, to a route
\* that takes a scope which the role of its owner covers.
KeysBounded ==
    /\ \A k \in keys : k.scopes \subseteq Within(account[k.user].role)
    /\ \A r \in Requests : At(r, "call", "done") =>
           LET key == req[r].given IN
           /\ key \in req[r].open
           /\ req[r].wants.scopes \cap Within(account[key.user].role) # {}

=============================================================================
