------------------------------ MODULE Sessions ------------------------------
(***************************************************************************)
(* Who may do what over HTTP: logins, sessions, and the checks between a   *)
(* request and its handler, composed with the onboarding they depend on.   *)
(*                                                                         *)
(* A login is up to three store calls (the admin, the customer, the new    *)
(* session).  A protected request reads its session once, in the           *)
(* middleware; the handler acts later on the principal read then.  In      *)
(* between other requests review applications, log out and rotate          *)
(* passwords, and time passes.                                             *)
(***************************************************************************)
EXTENDS Onboarding

CONSTANTS
    AdminEmails,   \* who may become an administrator (cmd/admin)
    Passwords,     \* passwords of an accepted length
    Tokens,        \* session tokens (random), one per session
    Requests,      \* requests the server works on at the same time
    Lifetime,      \* how long a session lasts (24 hours)
    MaxTime        \* bound: the last moment

ASSUME SessionsAssumption ==
    /\ Lifetime \in Nat \ {0}
    /\ MaxTime \in Nat
    /\ AdminEmails \subseteq {i.email : i \in Identities}
    /\ Passwords = {i.password : i \in Identities}

VARIABLES
    admins,        \* the admins table: [AdminEmails -> password hash or none]
    sessions,      \* the sessions table
    now,           \* the time
    calls,         \* per request: where its handler is, with what it has read
    reviewedBy,    \* column reviewed_by of the customers table
    issued,        \* history: the credentials a client got its token for
    loggedOut,     \* history: the tokens whose deletion succeeded
    everAdmin      \* history: the credentials any administrator has had

sessionVars == <<admins, sessions, now, calls, reviewedBy, issued, loggedOut, everAdmin>>
allVars == <<vars, sessionVars>>

Emails    == {i.email : i \in Identities}
Idle      == [at |-> "idle"]
NoSession == [role |-> "none"]
NoToken   == [email |-> "none"]
NoHash    == [hash |-> "none"]

(* Routes: the banking endpoints on the account named in the request, the  *)
(* administrators' endpoints, and POST /logout.                            *)
Routes == [route : {"banking"}, account : AccountIDs]
          \cup [route : {"approve", "reject"}, customer : CustomerIDs]
          \cup [route : {"logout"}]

SessionsInit ==
    /\ Init
    /\ admins = [e \in AdminEmails |-> NoHash]
    /\ sessions = [t \in Tokens |-> NoSession]
    /\ now = 0
    /\ calls = [r \in Requests |-> Idle]
    /\ reviewedBy = [c \in CustomerIDs |-> Nobody]
    /\ issued = [t \in Tokens |-> NoToken]
    /\ loggedOut = {}
    /\ everAdmin = {}

Becomes(r, call) == calls' = [calls EXCEPT ![r] = call]

-----------------------------------------------------------------------------
(* Passwords *)

(* Salt and rounds of PBKDF2 left out: a hash tells passwords apart. *)
hashPassword(p) == [pbkdf2_sha256 |-> p]

verifyPassword(encoded, p) == encoded = hashPassword(p)

Upsert(e, hash) == admins' = [admins EXCEPT ![e] = hash]

(* cmd/admin: a new administrator, or a new password of one.  Sessions     *)
(* that exist stay.                                                        *)
UpsertAdmin(e, p) ==
    /\ Upsert(e, hashPassword(p))
    /\ everAdmin' = everAdmin \cup {[email |-> e, password |-> p]}
    /\ UNCHANGED <<vars, sessions, now, calls, reviewedBy, issued, loggedOut>>

-----------------------------------------------------------------------------
(* POST /login *)

Login(r, role, id, e, p) ==
    Becomes(r, [at |-> "create", role |-> role, id |-> id, email |-> e, password |-> p])

(* FindAdminByEmail comes first; when it finds nobody, finds another       *)
(* password or fails, the customers are asked.                             *)
LoginFindAdmin(r) ==
    /\ calls[r] = Idle
    /\ \E e \in Emails, p \in Passwords :
       LET isAdmin == e \in AdminEmails /\ verifyPassword(admins[e], p)
           next    == Becomes(r, [at |-> "customer", email |-> e, password |-> p])
       IN  \/ NoFault /\ isAdmin /\ Login(r, "admin", e, e, p)
           \/ NoFault /\ ~isAdmin /\ next
           \/ Fault("lost") /\ next
    /\ UNCHANGED <<customers, objects, opened, submission, accepted,
                   admins, sessions, now, reviewedBy, issued, loggedOut, everAdmin>>

(* The customers a login may be for: at most one has the email. *)
Matching(e, p) ==
    {c \in Stored : /\ customers[c].identity.email = e
                    /\ verifyPassword(hashPassword(customers[c].identity.password), p)}

LoginFindCustomer(r) ==
    LET e == calls[r].email
        p == calls[r].password
    IN
    /\ calls[r].at = "customer"
    /\ \/ NoFault /\ \E c \in Matching(e, p) : Login(r, "customer", c, e, p)
       \/ NoFault /\ Matching(e, p) = {} /\ Becomes(r, Idle)     \* ErrInvalidCredentials
       \/ Fault("lost") /\ Becomes(r, Idle)
    /\ UNCHANGED <<customers, objects, opened, submission, accepted,
                   admins, sessions, now, reviewedBy, issued, loggedOut, everAdmin>>

Unused(t) == sessions[t] = NoSession /\ issued[t] = NoToken /\ t \notin loggedOut

(* variant: the lifetime is not added *)
ExpiredAtOnce(r, t) ==
    sessions' = [sessions EXCEPT ![t] = [role |-> calls[r].role, id |-> calls[r].id,
                                         expiresAt |-> now]]

Insert(r, t) ==
    sessions' = [sessions EXCEPT ![t] = [role |-> calls[r].role, id |-> calls[r].id,
                                         expiresAt |-> now + Lifetime]]

(* The client gets its cookie. *)
Answer(r, t) ==
    issued' = [issued EXCEPT ![t] = [email |-> calls[r].email,
                                     password |-> calls[r].password, since |-> now]]

(* variant: the error of CreateSession is ignored *)
AnswerAnyway(r, t) == Answer(r, t)

NoAnswer(r, t) == UNCHANGED issued

(* An error of CreateSession is answered without the token. *)
LoginCreateSession(r, t) ==
    /\ calls[r].at = "create"
    /\ Unused(t)
    /\ \/ NoFault /\ Insert(r, t) /\ Answer(r, t)
       \/ Fault("lost") /\ UNCHANGED sessions /\ NoAnswer(r, t)
       \/ Fault("unacked") /\ Insert(r, t) /\ NoAnswer(r, t)
    /\ Becomes(r, Idle)
    /\ UNCHANGED <<customers, objects, opened, submission, accepted,
                   admins, now, reviewedBy, loggedOut, everAdmin>>

-----------------------------------------------------------------------------
(* The middleware of protected routes *)

(* variant: a session lasts until its last moment, included *)
LiveAtTheEnd(s) == s # NoSession /\ s.expiresAt >= now

Live(s) == s # NoSession /\ s.expiresAt > now

(* FindSession: what the row of the customer says now, not at the login. *)
Principal(s) ==
    [role |-> s.role, id |-> s.id,
     account |-> IF s.role = "customer" THEN customers[s.id].account ELSE Nobody,
     status  |-> IF s.role = "customer" THEN customers[s.id].status ELSE "none"]

requireApprovedCustomer(p) ==
    p.role = "customer" /\ p.status = "approved" /\ p.account # Nobody

(* variant: any session may use the routes of administrators *)
AnyPrincipal(p) == p.role # "none"

requireAdmin(p) == p.role = "admin"

(* variant: any account will do *)
AnyAccount(p, a) == a \in AccountIDs

authorizedAccount(p, a) == p.account = a

(* The checks of a route, up to the handler's first store call. *)
Admitted(p, q) ==
    CASE q.route = "banking" -> requireApprovedCustomer(p) /\ authorizedAccount(p, q.account)
      [] q.route = "logout"  -> TRUE
      [] OTHER               -> requireAdmin(p)

(* A request with a token some login returned.  What is not admitted ends  *)
(* with 401 or 403 and changes nothing, like a FindSession that fails.     *)
Authenticate(r, t, q) ==
    /\ calls[r] = Idle
    /\ issued[t] # NoToken
    /\ Live(sessions[t])
    /\ Admitted(Principal(sessions[t]), q)
    /\ Becomes(r, [at |-> "handler", token |-> t, principal |-> Principal(sessions[t]),
                   request |-> q])
    /\ UNCHANGED <<vars, admins, sessions, now, reviewedBy, issued, loggedOut, everAdmin>>

-----------------------------------------------------------------------------
(* The handlers *)

Handling(r, route) == calls[r].at = "handler" /\ calls[r].request.route = route

(* What a banking handler does to the account is in the other modules. *)
HandleBanking(r) ==
    /\ Handling(r, "banking")
    /\ Becomes(r, Idle)
    /\ UNCHANGED <<vars, admins, sessions, now, reviewedBy, issued, loggedOut, everAdmin>>

AdminID(p) == IF p.role = "admin" THEN p.id ELSE Nobody

ReviewBy(r, c) == reviewedBy' = [reviewedBy EXCEPT ![c] = AdminID(calls[r].principal)]

(* The review, with the administrator it is by, or no change: the          *)
(* application was reviewed before, is unknown, or the call was lost.      *)
HandleReview(r) ==
    LET c == calls[r].request.customer
    IN
    /\ \/ /\ Handling(r, "approve")
          /\ \/ \E a \in AccountIDs : ApproveApplication(c, a) /\ ReviewBy(r, c)
             \/ UNCHANGED <<vars, reviewedBy>>
       \/ /\ Handling(r, "reject")
          /\ \/ RejectApplication(c) /\ ReviewBy(r, c)
             \/ UNCHANGED <<vars, reviewedBy>>
    /\ Becomes(r, Idle)
    /\ UNCHANGED <<admins, sessions, now, issued, loggedOut, everAdmin>>

DeleteSession(t) == sessions' = [sessions EXCEPT ![t] = NoSession]

(* POST /logout answers 204 and clears the cookie whatever DeleteSession   *)
(* returns.                                                                *)
HandleLogout(r) ==
    LET t == calls[r].token
    IN
    /\ Handling(r, "logout")
    /\ \/ NoFault /\ DeleteSession(t) /\ loggedOut' = loggedOut \cup {t}
       \/ Fault("lost") /\ UNCHANGED <<sessions, loggedOut>>
       \/ Fault("unacked") /\ DeleteSession(t) /\ loggedOut' = loggedOut \cup {t}
    /\ Becomes(r, Idle)
    /\ UNCHANGED <<customers, objects, opened, submission, accepted,
                   admins, now, reviewedBy, issued, everAdmin>>

-----------------------------------------------------------------------------

Tick ==
    /\ now < MaxTime
    /\ now' = now + 1
    /\ UNCHANGED <<vars, admins, sessions, calls, reviewedBy, issued, loggedOut, everAdmin>>

(* The process that works on a request ends. *)
Interrupted(r) ==
    /\ calls[r] # Idle
    /\ Fault("crash")
    /\ Becomes(r, Idle)
    /\ UNCHANGED <<customers, objects, opened, submission, accepted,
                   admins, sessions, now, reviewedBy, issued, loggedOut, everAdmin>>

(* A whole submission in one step: how it may fail is the subject of       *)
(* module Onboarding, and nobody logs in before the row is there.          *)
Onboard(c) ==
    /\ At(c, "new")
    /\ \E i \in Identities :
          /\ ~Known(i)
          /\ customers' = [customers EXCEPT ![c] = Row(i, "waiting_for_approval", Nobody)]
    /\ objects' = objects \cup {c}
    /\ Committed(c)
    /\ UNCHANGED <<opened, faults, sessionVars>>

Serve(r) ==
    \/ LoginFindAdmin(r)
    \/ LoginFindCustomer(r)
    \/ \E t \in Tokens : LoginCreateSession(r, t)
    \/ \E t \in Tokens, q \in Routes : Authenticate(r, t, q)
    \/ HandleBanking(r)
    \/ HandleReview(r)
    \/ HandleLogout(r)

SessionsNext ==
    \/ \E c \in CustomerIDs : Onboard(c)
    \/ \E e \in AdminEmails, p \in Passwords : UpsertAdmin(e, p)
    \/ \E r \in Requests : Serve(r) \/ Interrupted(r)
    \/ Tick

SessionsSpec == SessionsInit /\ [][SessionsNext]_allVars

-----------------------------------------------------------------------------
(* Properties *)

Principals ==
    [role : {"customer", "admin"}, id : CustomerIDs \cup AdminEmails,
     account : AccountIDs \cup {Nobody}, status : {"none", "waiting_for_approval", "approved", "rejected"}]

Calls ==
    {Idle}
    \cup [at : {"customer"}, email : Emails, password : Passwords]
    \cup [at : {"create"}, role : {"customer", "admin"}, id : CustomerIDs \cup AdminEmails,
          email : Emails, password : Passwords]
    \cup [at : {"handler"}, token : Tokens, principal : Principals, request : Routes]

SessionsTypeOK ==
    /\ TypeOK
    /\ admins \in [AdminEmails -> {NoHash} \cup {hashPassword(p) : p \in Passwords}]
    /\ sessions \in [Tokens -> {NoSession} \cup
          [role : {"customer", "admin"}, id : CustomerIDs \cup AdminEmails,
           expiresAt : Lifetime..(MaxTime + Lifetime)]]
    /\ now \in 0..MaxTime
    /\ calls \in [Requests -> Calls]
    /\ reviewedBy \in [CustomerIDs -> AdminEmails \cup {Nobody}]
    /\ issued \in [Tokens -> {NoToken} \cup
          [email : Emails, password : Passwords, since : 0..MaxTime]]
    /\ loggedOut \subseteq Tokens
    /\ everAdmin \subseteq [email : AdminEmails, password : Passwords]

(* A banking handler works on an account that belongs, while it works, to  *)
(* the approved customer whose email and password its session was opened   *)
(* with, although the principal it goes by was read before (requireAuth,   *)
(* requireApprovedCustomer, authorizedAccount).                            *)
OwnAccountOnly ==
    \A r \in Requests : Handling(r, "banking") =>
        LET owner == opened[calls[r].request.account]
            login == issued[calls[r].token]
        IN  /\ owner # Nobody
            /\ customers[owner].status = "approved"
            /\ customers[owner].identity.email = login.email
            /\ customers[owner].identity.password = login.password

(* A reviewed application names an administrator, and somebody logged in   *)
(* with a password of that administrator: no customer's session reviews,   *)
(* not even when customer and administrator share an email or a password,  *)
(* or when the look-up of the administrator failed (Login, requireAdmin).  *)
ReviewedByAnAdmin ==
    \A c \in Stored : customers[c].status \in {"approved", "rejected"} =>
        \E t \in Tokens : /\ issued[t] # NoToken
                          /\ issued[t].email = reviewedBy[c]
                          /\ [email |-> issued[t].email, password |-> issued[t].password]
                                \in everAdmin

(* A token the client holds works until it expires or a logout succeeded:  *)
(* a login is not answered with a token whose session was not stored       *)
(* (CreateSession, FindSession).                                           *)
IssuedIsUsable ==
    \A t \in Tokens :
        issued[t] # NoToken /\ t \notin loggedOut /\ now < issued[t].since + Lifetime
            => /\ Live(sessions[t])
               /\ sessions[t].role = "customer" => sessions[t].id \in Stored

(* No request reaches a handler with a session whose deletion succeeded,   *)
(* or a full lifetime after the login; requests under way may finish       *)
(* (Logout, FindSession).                                                  *)
SessionEndsForGood ==
    [][\A r \in Requests : calls[r] = Idle /\ calls'[r].at = "handler" =>
          LET t == calls'[r].token
          IN  t \notin loggedOut /\ now < issued[t].since + Lifetime]_allVars
=============================================================================
