--------------------------- MODULE SessionsProofs ---------------------------
(***************************************************************************)
(* Proofs about applications and their review, and about logins, sessions  *)
(* and the handlers behind them, for any customers, account ids,           *)
(* identities, administrators, passwords, tokens, requests under way,      *)
(* lifetime and number of faults.                                          *)
(*                                                                         *)
(* What ties the components together is the entitlement: a call, a session *)
(* and a request under way each carry a role and an id, and these belong   *)
(* to the email and password of the login.  Entitlements last: rows and    *)
(* identities are never removed, and the credentials an administrator once *)
(* had are history.                                                        *)
(***************************************************************************)
EXTENDS Sessions, TLAPS

-----------------------------------------------------------------------------
(* Applications and their review *)

(* A submission that has not come to its INSERT has no row, and one that   *)
(* put its image and did not fail still has it.                            *)
SubmissionsSound ==
    \A c \in CustomerIDs :
        /\ At(c, "new") \/ At(c, "stored") => customers[c] = NoRow
        /\ At(c, "stored") => c \in objects

(* Nothing of an accepted submission is left to do, so no clean-up of its  *)
(* image can follow.                                                       *)
AcceptedEnded ==
    \A c \in accepted : At(c, "ended") /\ customers[c] # NoRow /\ c \in objects

OnboardingInv ==
    /\ TypeOK
    /\ SubmissionsSound
    /\ AcceptedEnded
    /\ OnePersonOneRow
    /\ OneAccountPerApproval

Rows == [status : {"waiting_for_approval", "approved", "rejected"},
         identity : Identities, account : AccountIDs \cup {Nobody}]

LEMMA RowIsNotAbsent ==
    ASSUME NEW r \in Rows
    PROVE  r # NoRow
BY DEF Rows, NoRow

LEMMA GotoType ==
    ASSUME TypeOK, NEW c \in CustomerIDs, NEW where \in {"cleanup", "ended"},
           At(c, "stored") \/ At(c, "cleanup"), Goto(c, where)
    PROVE  /\ submission' \in [CustomerIDs -> [at : {"new", "ended"}] \cup
                [at : {"stored", "cleanup", "ended"}, identity : Identities]]
           /\ submission'[c].at = where
           /\ \A d \in CustomerIDs : d # c => submission'[d] = submission[d]
<1>1. submission \in [CustomerIDs -> [at : {"new", "ended"}] \cup
                [at : {"stored", "cleanup", "ended"}, identity : Identities]]
    BY DEF TypeOK
<1>2. submission[c] \in [at : {"stored", "cleanup", "ended"}, identity : Identities]
    BY <1>1 DEF At
<1>3. [submission[c] EXCEPT !.at = where] \in [at : {"stored", "cleanup", "ended"}, identity : Identities]
    BY <1>2
<1>4. submission' = [submission EXCEPT ![c] = [submission[c] EXCEPT !.at = where]]
    BY DEF Goto
<1>5. [submission[c] EXCEPT !.at = where].at = where
    BY <1>2
<1>. QED
    BY <1>1, <1>3, <1>4, <1>5

LEMMA FaultCount ==
    ASSUME TypeOK, NoFault \/ \E kind : Fault(kind)
    PROVE  faults' \in 0..MaxFaults
BY OnboardingAssumption DEF TypeOK, NoFault, Fault

(* A step that leaves the rows and the accounts alone. *)
LEMMA RowsAlone ==
    ASSUME OnboardingInv, UNCHANGED <<customers, opened>>
    PROVE  OnePersonOneRow' /\ OneAccountPerApproval'
BY DEF OnboardingInv, OnePersonOneRow, OneAccountPerApproval, Stored

LEMMA PutObjectKeeps ==
    ASSUME OnboardingInv, NEW c \in CustomerIDs, PutObject(c)
    PROVE  OnboardingInv'
<1>1. TypeOK /\ SubmissionsSound /\ AcceptedEnded
    BY DEF OnboardingInv
<1> DEFINE Places == [at : {"new", "ended"}] \cup
                     [at : {"stored", "cleanup", "ended"}, identity : Identities]
           Put(s) == /\ submission' = [submission EXCEPT ![c] = s]
                     /\ \/ s.at = "stored" /\ objects' = objects \cup {c}
                        \/ s.at = "ended" /\ objects' \in {objects, objects \cup {c}}
<1>2. PICK s \in Places : Put(s)
  <2>1. PICK i \in Identities :
          \/ Put([at |-> "stored", identity |-> i])
          \/ Put([at |-> "ended"])
    BY DEF PutObject
  <2>2. [at |-> "stored", identity |-> i] \in Places /\ [at |-> "ended"] \in Places
    OBVIOUS
  <2>. HIDE DEF Put, Places
  <2>. QED
    BY <2>1, <2>2
<1>3. /\ submission \in [CustomerIDs -> [at : {"new", "ended"}] \cup
             [at : {"stored", "cleanup", "ended"}, identity : Identities]]
      /\ objects \subseteq CustomerIDs
    BY <1>1 DEF TypeOK
<1>4. /\ submission'[c] = s
      /\ \A d \in CustomerIDs : d # c => submission'[d] = submission[d]
    BY <1>2, <1>3
<1>5. UNCHANGED <<customers, opened, accepted>> /\ At(c, "new") /\ faults' \in 0..MaxFaults
    BY <1>1, FaultCount DEF PutObject
<1>6. TypeOK'
    BY <1>1, <1>2, <1>3, <1>5 DEF TypeOK
<1>7. SubmissionsSound'
    BY <1>1, <1>2, <1>4, <1>5 DEF SubmissionsSound, At
<1>8. AcceptedEnded'
  <2>1. c \notin accepted
    BY <1>1, <1>5 DEF AcceptedEnded, At
  <2>. QED
    BY <1>1, <1>2, <1>4, <1>5, <2>1 DEF AcceptedEnded, At, TypeOK
<1>. QED
    BY <1>5, <1>6, <1>7, <1>8, RowsAlone DEF OnboardingInv

(* The row that a submission inserts. *)
LEMMA InsertedKeeps ==
    ASSUME OnboardingInv, NEW c \in CustomerIDs, NEW i \in Identities,
           customers[c] = NoRow, ~Known(i),
           customers' = [customers EXCEPT ![c] = Row(i, "waiting_for_approval", Nobody)],
           UNCHANGED opened
    PROVE  /\ customers' \in [CustomerIDs -> {NoRow} \cup Rows]
           /\ customers'[c] # NoRow
           /\ \A d \in CustomerIDs : d # c => customers'[d] = customers[d]
           /\ OnePersonOneRow' /\ OneAccountPerApproval'
<1> DEFINE r == Row(i, "waiting_for_approval", Nobody)
<1>1. TypeOK /\ OnePersonOneRow /\ OneAccountPerApproval
    BY DEF OnboardingInv
<1>3. r \in Rows /\ r # NoRow /\ r.identity = i /\ r.status = "waiting_for_approval"
    BY RowIsNotAbsent DEF Row, Rows
<1>4. customers \in [CustomerIDs -> {NoRow} \cup Rows] /\ customers[c] = NoRow
    BY <1>1 DEF TypeOK, Rows
<1>. HIDE DEF r
<1>5. customers' = [customers EXCEPT ![c] = r]
    BY DEF r
<1>6. /\ customers'[c] = r
      /\ \A d \in CustomerIDs : d # c => customers'[d] = customers[d]
    BY <1>4, <1>5
<1>7. OnePersonOneRow'
  <2>1. \A d \in Stored' : d # c => d \in Stored /\ customers'[d] = customers[d]
    BY <1>6 DEF Stored
  <2>2. \A d \in Stored : /\ customers[d].identity.email # i.email
                          /\ customers[d].identity.document # i.document
    BY DEF Known, Stored
  <2>3. SUFFICES ASSUME NEW d \in Stored', NEW e \in Stored', d # e
                 PROVE  /\ customers'[d].identity.email # customers'[e].identity.email
                        /\ customers'[d].identity.document # customers'[e].identity.document
    BY DEF OnePersonOneRow
  <2>4. CASE d = c
    BY <1>3, <1>6, <2>1, <2>2, <2>3, <2>4
  <2>5. CASE e = c
    BY <1>3, <1>6, <2>1, <2>2, <2>3, <2>5
  <2>6. CASE d # c /\ e # c
    BY <1>1, <2>1, <2>3, <2>6 DEF OnePersonOneRow
  <2>. QED
    BY <2>4, <2>5, <2>6
<1>8. OneAccountPerApproval'
  <2>1. SUFFICES ASSUME NEW d \in CustomerIDs
                 PROVE  {a \in AccountIDs : opened'[a] = d} =
                          IF customers'[d].status = "approved" THEN {customers'[d].account} ELSE {}
    BY DEF OneAccountPerApproval
  <2>2. {a \in AccountIDs : opened[a] = d} =
          IF customers[d].status = "approved" THEN {customers[d].account} ELSE {}
    BY <1>1 DEF OneAccountPerApproval
  <2>3. CASE d = c
    BY <1>3, <1>4, <1>6, <2>2, <2>3 DEF NoRow
  <2>4. CASE d # c
    BY <1>6, <2>2, <2>4
  <2>. QED
    BY <2>3, <2>4
<1>. QED
    BY <1>3, <1>4, <1>5, <1>6, <1>7, <1>8

LEMMA InsertCustomerKeeps ==
    ASSUME OnboardingInv, NEW c \in CustomerIDs, InsertCustomer(c)
    PROVE  OnboardingInv'
<1>1. TypeOK /\ SubmissionsSound /\ AcceptedEnded
    BY DEF OnboardingInv
<1>2. At(c, "stored") /\ UNCHANGED <<objects, opened>> /\ faults' \in 0..MaxFaults
    BY <1>1, FaultCount DEF InsertCustomer
<1>3. PICK where \in {"cleanup", "ended"} :
        /\ Goto(c, where)
        /\ accepted' = IF where = "ended" THEN accepted \cup {c} ELSE accepted
        /\ \/ UNCHANGED customers /\ where = "cleanup"
           \/ /\ ~Known(submission[c].identity)
              /\ customers' = [customers EXCEPT ![c] =
                                 Row(submission[c].identity, "waiting_for_approval", Nobody)]
  <2>1. CASE Goto(c, "cleanup")
    BY <2>1 DEF InsertCustomer, CleanUp, Committed
  <2>. QED
    BY <2>1 DEF InsertCustomer, CleanUp, Committed
<1>4. /\ customers' \in [CustomerIDs -> {NoRow} \cup Rows]
      /\ where = "ended" => customers'[c] # NoRow
      /\ OnePersonOneRow' /\ OneAccountPerApproval'
      /\ \A d \in CustomerIDs : d # c => customers'[d] = customers[d]
  <2>1. CASE UNCHANGED customers /\ where = "cleanup"
    BY <1>1, <1>2, <2>1, RowsAlone DEF TypeOK, Rows
  <2>2. CASE ~(UNCHANGED customers /\ where = "cleanup")
    <3>1. submission[c].identity \in Identities /\ customers[c] = NoRow
      BY <1>1, <1>2 DEF TypeOK, At, SubmissionsSound
    <3>. QED
      BY <1>2, <1>3, <2>2, <3>1, InsertedKeeps
  <2>. QED
    BY <2>1, <2>2
<1>5. /\ submission'[c].at = where
      /\ \A d \in CustomerIDs : d # c => submission'[d] = submission[d]
    BY <1>1, <1>2, <1>3, GotoType
<1>6. TypeOK'
    BY <1>1, <1>2, <1>3, <1>4, GotoType DEF TypeOK, Rows
<1>7. SubmissionsSound'
    BY <1>1, <1>2, <1>4, <1>5 DEF SubmissionsSound, At
<1>8. AcceptedEnded'
    BY <1>1, <1>2, <1>3, <1>4, <1>5 DEF AcceptedEnded, SubmissionsSound, At, TypeOK
<1>. QED
    BY <1>4, <1>6, <1>7, <1>8 DEF OnboardingInv

(* What is left of a failed submission: the deletion of its image, or the  *)
(* end of its process.                                                     *)
LEMMA EndKeeps ==
    ASSUME OnboardingInv, NEW c \in CustomerIDs, DeleteObject(c) \/ Crash(c)
    PROVE  OnboardingInv'
<1>1. TypeOK /\ SubmissionsSound /\ AcceptedEnded
    BY DEF OnboardingInv
<1>2. /\ At(c, "stored") \/ At(c, "cleanup")
      /\ Goto(c, "ended") /\ UNCHANGED <<customers, opened, accepted>>
      /\ objects' \in {objects, objects \ {c}}
    BY DEF DeleteObject, Crash
<1>3. faults' \in 0..MaxFaults
    BY <1>1, FaultCount DEF DeleteObject, Crash
<1>4. /\ submission'[c].at = "ended"
      /\ \A d \in CustomerIDs : d # c => submission'[d] = submission[d]
    BY <1>1, <1>2, GotoType
<1>5. c \notin accepted
    BY <1>1, <1>2 DEF AcceptedEnded, At
<1>6. TypeOK'
    BY <1>1, <1>2, <1>3, GotoType DEF TypeOK
<1>7. SubmissionsSound'
    BY <1>1, <1>2, <1>4 DEF SubmissionsSound, At
<1>8. AcceptedEnded'
    BY <1>1, <1>2, <1>4, <1>5 DEF AcceptedEnded, At, TypeOK
<1>. QED
    BY <1>2, <1>6, <1>7, <1>8, RowsAlone DEF OnboardingInv

(* A review leaves the submissions alone and rewrites one row. *)
LEMMA ReviewKeeps ==
    ASSUME OnboardingInv, NEW c \in CustomerIDs, Waiting(c),
           NEW status \in {"approved", "rejected"}, NEW a \in AccountIDs \cup {Nobody},
           Review(c, status, a),
           opened' \in [AccountIDs -> CustomerIDs \cup {Nobody}],
           UNCHANGED <<objects, submission, accepted, faults>>
    PROVE  /\ TypeOK' /\ SubmissionsSound' /\ AcceptedEnded' /\ OnePersonOneRow'
           /\ customers'[c].status = status /\ customers'[c].account = a
           /\ \A d \in CustomerIDs : d # c => customers'[d] = customers[d]
<1>1. TypeOK /\ SubmissionsSound /\ AcceptedEnded /\ OnePersonOneRow
    BY DEF OnboardingInv
<1>2. customers \in [CustomerIDs -> {NoRow} \cup Rows]
    BY <1>1 DEF TypeOK, Rows
<1>3. customers[c] \in Rows /\ customers[c] # NoRow
    BY <1>2, RowIsNotAbsent DEF Waiting, NoRow
<1> DEFINE r == [customers[c] EXCEPT !.status = status, !.account = a]
<1>4. /\ r \in Rows /\ r # NoRow
      /\ r.identity = customers[c].identity /\ r.status = status /\ r.account = a
    BY <1>3, RowIsNotAbsent DEF Rows
<1>5. customers' = [customers EXCEPT ![c] = r]
    BY <1>2 DEF Review
<1>. HIDE DEF r
<1>6. /\ customers'[c] = r /\ customers' \in [CustomerIDs -> {NoRow} \cup Rows]
      /\ \A d \in CustomerIDs : d # c => customers'[d] = customers[d]
    BY <1>2, <1>4, <1>5
<1>7. TypeOK'
    BY <1>1, <1>6 DEF TypeOK, Rows
<1>8. SubmissionsSound'
    BY <1>1, <1>3, <1>6 DEF SubmissionsSound, At
<1>9. AcceptedEnded'
    BY <1>1, <1>4, <1>6 DEF AcceptedEnded, At, TypeOK
<1>10. OnePersonOneRow'
  <2>1. /\ Stored' = Stored
        /\ \A d \in Stored : customers'[d].identity = customers[d].identity
    BY <1>3, <1>4, <1>6 DEF Stored
  <2>. QED
    BY <1>1, <2>1 DEF OnePersonOneRow
<1>. QED
    BY <1>4, <1>6, <1>7, <1>8, <1>9, <1>10

LEMMA ApproveApplicationKeeps ==
    ASSUME OnboardingInv, NEW c \in CustomerIDs, NEW a \in AccountIDs, ApproveApplication(c, a)
    PROVE  OnboardingInv'
<1>1. TypeOK /\ OneAccountPerApproval
    BY DEF OnboardingInv
<1>2. /\ opened \in [AccountIDs -> CustomerIDs \cup {Nobody}]
      /\ opened' = [opened EXCEPT ![a] = c] /\ opened[a] = Nobody
      /\ Waiting(c) /\ Review(c, "approved", a)
    BY <1>1 DEF TypeOK, ApproveApplication, Open
<1>3. opened' \in [AccountIDs -> CustomerIDs \cup {Nobody}]
    BY <1>2
<1>4. /\ TypeOK' /\ SubmissionsSound' /\ AcceptedEnded' /\ OnePersonOneRow'
      /\ customers'[c].status = "approved" /\ customers'[c].account = a
      /\ \A d \in CustomerIDs : d # c => customers'[d] = customers[d]
    BY <1>2, <1>3, ReviewKeeps DEF ApproveApplication
<1>5. OneAccountPerApproval'
  <2>1. SUFFICES ASSUME NEW d \in CustomerIDs
                 PROVE  {b \in AccountIDs : opened'[b] = d} =
                          IF customers'[d].status = "approved" THEN {customers'[d].account} ELSE {}
    BY DEF OneAccountPerApproval
  <2>2. {b \in AccountIDs : opened[b] = d} =
          IF customers[d].status = "approved" THEN {customers[d].account} ELSE {}
    BY <1>1 DEF OneAccountPerApproval
  <2>3. CASE d = c
    <3>1. {b \in AccountIDs : opened[b] = c} = {}
      BY <1>2, <2>2, <2>3 DEF Waiting
    <3>2. {b \in AccountIDs : opened'[b] = c} = {a}
      BY <1>2, <3>1
    <3>. QED
      BY <1>4, <2>3, <3>2
  <2>4. CASE d # c
    <3>1. {b \in AccountIDs : opened'[b] = d} = {b \in AccountIDs : opened[b] = d}
      BY <1>2, <2>4, OnboardingAssumption
    <3>. QED
      BY <1>4, <2>2, <2>4, <3>1
  <2>. QED
    BY <2>3, <2>4
<1>. QED
    BY <1>4, <1>5 DEF OnboardingInv

LEMMA RejectApplicationKeeps ==
    ASSUME OnboardingInv, NEW c \in CustomerIDs, RejectApplication(c)
    PROVE  OnboardingInv'
<1>1. TypeOK /\ OneAccountPerApproval
    BY DEF OnboardingInv
<1>2. Waiting(c) /\ Review(c, "rejected", Nobody) /\ opened' = opened
      /\ opened' \in [AccountIDs -> CustomerIDs \cup {Nobody}]
    BY <1>1 DEF RejectApplication, TypeOK
<1>3. /\ TypeOK' /\ SubmissionsSound' /\ AcceptedEnded' /\ OnePersonOneRow'
      /\ customers'[c].status = "rejected"
      /\ \A d \in CustomerIDs : d # c => customers'[d] = customers[d]
    BY <1>2, ReviewKeeps DEF RejectApplication
<1>4. OneAccountPerApproval'
    BY <1>1, <1>2, <1>3 DEF OneAccountPerApproval, Waiting
<1>. QED
    BY <1>3, <1>4 DEF OnboardingInv

-----------------------------------------------------------------------------

LEMMA OnboardingInit == Init => OnboardingInv
<1> SUFFICES ASSUME Init PROVE OnboardingInv
    OBVIOUS
<1>1. TypeOK
    BY OnboardingAssumption DEF Init, TypeOK
<1>2. SubmissionsSound /\ AcceptedEnded /\ OnePersonOneRow
    BY DEF Init, SubmissionsSound, AcceptedEnded, OnePersonOneRow, Stored, At
<1>3. OneAccountPerApproval
    BY OnboardingAssumption DEF Init, OneAccountPerApproval, NoRow
<1>. QED
    BY <1>1, <1>2, <1>3 DEF OnboardingInv

LEMMA OnboardingNext == OnboardingInv /\ [Next]_vars => OnboardingInv'
<1> SUFFICES ASSUME OnboardingInv, [Next]_vars PROVE OnboardingInv'
    OBVIOUS
<1>1. CASE UNCHANGED vars
    BY <1>1 DEF vars, OnboardingInv, TypeOK, SubmissionsSound, AcceptedEnded,
                OnePersonOneRow, OneAccountPerApproval, Stored, At
<1>2. ASSUME NEW c \in CustomerIDs,
             \/ Submission(c) \/ Crash(c)
             \/ \E a \in AccountIDs : ApproveApplication(c, a)
             \/ RejectApplication(c)
      PROVE  OnboardingInv'
    BY <1>2, PutObjectKeeps, InsertCustomerKeeps, EndKeeps, ApproveApplicationKeeps,
       RejectApplicationKeeps DEF Submission
<1>. QED
    BY <1>1, <1>2 DEF Next

(* The inductive invariant of applications and reviews. *)
THEOREM OnboardingInvariant == Spec => []OnboardingInv
BY OnboardingInit, OnboardingNext, PTL DEF Spec

(* No two customers share an email or a document, however their            *)
(* CreateCustomerApplication calls race and fail.                          *)
THEOREM PersonsAreUnique == Spec => []OnePersonOneRow
<1>1. OnboardingInv => OnePersonOneRow
    BY DEF OnboardingInv
<1>. QED
    BY <1>1, OnboardingInvariant, PTL

(* ApproveApplication opens exactly the account the row names, for the     *)
(* approved and for nobody else, however often it is repeated.             *)
THEOREM ApprovalOpensOneAccount == Spec => []OneAccountPerApproval
<1>1. OnboardingInv => OneAccountPerApproval
    BY DEF OnboardingInv
<1>. QED
    BY <1>1, OnboardingInvariant, PTL

(* An accepted application keeps its row and its image: the deferred       *)
(* clean-up of CreateCustomerApplication never runs for it.                *)
THEOREM AcceptedStaysComplete == Spec => []AcceptedIsComplete
<1>1. OnboardingInv => AcceptedIsComplete
    BY DEF OnboardingInv, TypeOK, AcceptedEnded, AcceptedIsComplete, Stored
<1>. QED
    BY <1>1, OnboardingInvariant, PTL

-----------------------------------------------------------------------------
(* Logins, sessions and handlers *)

(* Who logs in with this email and password may have this role and id. *)
Entitled(role, id, e, p) ==
    IF role = "customer"
    THEN /\ id \in Stored
         /\ customers[id].identity.email = e /\ customers[id].identity.password = p
    ELSE id = e /\ [email |-> e, password |-> p] \in everAdmin

AdminsKnown ==
    \A e \in AdminEmails, p \in Passwords :
        admins[e] = hashPassword(p) => [email |-> e, password |-> p] \in everAdmin

(* What a handler goes by was right when it was read, and still is. *)
HandlerSound(x) ==
    /\ issued[x.token] # NoToken
    /\ Entitled(x.principal.role, x.principal.id,
                issued[x.token].email, issued[x.token].password)
    /\ x.request.route = "banking" =>
          /\ x.principal.role = "customer"
          /\ customers[x.principal.id].status = "approved"
          /\ customers[x.principal.id].account = x.request.account
    /\ x.request.route \in {"approve", "reject"} => x.principal.role = "admin"

CallSound(x) ==
    /\ x.at = "create" => Entitled(x.role, x.id, x.email, x.password)
    /\ x.at = "handler" => HandlerSound(x)

CallsSound == \A r \in Requests : CallSound(calls[r])

(* A session is its login's, ends a lifetime after it, and is there until  *)
(* a logout deletes it.                                                    *)
TokenSound(t) ==
    /\ sessions[t] # NoSession =>
          /\ sessions[t].role = "customer" => sessions[t].id \in Stored
          /\ issued[t] # NoToken =>
                /\ Entitled(sessions[t].role, sessions[t].id,
                            issued[t].email, issued[t].password)
                /\ sessions[t].expiresAt = issued[t].since + Lifetime
    /\ issued[t] # NoToken /\ t \notin loggedOut => sessions[t] # NoSession
    /\ t \in loggedOut => sessions[t] = NoSession

TokensSound == \A t \in Tokens : TokenSound(t)

SessionsInv ==
    /\ OnboardingInv
    /\ SessionsTypeOK
    /\ AdminsKnown
    /\ CallsSound
    /\ TokensSound
    /\ ReviewedByAnAdmin

-----------------------------------------------------------------------------
(* The shapes of records *)

SessionRows == [role : {"customer", "admin"}, id : CustomerIDs \cup AdminEmails,
                expiresAt : Lifetime..(MaxTime + Lifetime)]

Credentials == [email : Emails, password : Passwords, since : 0..MaxTime]

LEMMA CustomerCall ==
    ASSUME NEW x \in Calls, x.at = "customer"
    PROVE  x.email \in Emails /\ x.password \in Passwords
BY DEF Calls, Idle

LEMMA CreateCall ==
    ASSUME NEW x \in Calls, x.at = "create"
    PROVE  /\ x.role \in {"customer", "admin"} /\ x.id \in CustomerIDs \cup AdminEmails
           /\ x.email \in Emails /\ x.password \in Passwords
BY DEF Calls, Idle

LEMMA HandlerCall ==
    ASSUME NEW x \in Calls, x.at = "handler"
    PROVE  x.token \in Tokens /\ x.principal \in Principals /\ x.request \in Routes
BY DEF Calls, Idle

LEMMA CustomerRequest ==
    ASSUME NEW q \in Routes
    PROVE  /\ q.route \in {"banking", "approve", "reject", "logout"}
           /\ q.route = "banking" => q.account \in AccountIDs
           /\ q.route \in {"approve", "reject"} => q.customer \in CustomerIDs
BY DEF Routes

LEMMA SessionIsNotNone ==
    ASSUME NEW s \in SessionRows
    PROVE  s # NoSession
BY DEF SessionRows, NoSession

LEMMA CredentialsAreNotNone ==
    ASSUME NEW x \in Credentials
    PROVE  x # NoToken
BY DEF Credentials, NoToken

LEMMA SessionTypes ==
    ASSUME SessionsTypeOK
    PROVE  /\ sessions \in [Tokens -> {NoSession} \cup SessionRows]
           /\ issued \in [Tokens -> {NoToken} \cup Credentials]
           /\ customers \in [CustomerIDs -> {NoRow} \cup Rows]
BY DEF SessionsTypeOK, TypeOK, SessionRows, Credentials, Rows

LEMMA BecomesCall ==
    ASSUME SessionsTypeOK, NEW r \in Requests, NEW x \in Calls, Becomes(r, x)
    PROVE  /\ calls' \in [Requests -> Calls]
           /\ calls'[r] = x
           /\ \A s \in Requests : s # r => calls'[s] = calls[s]
BY DEF SessionsTypeOK, Becomes

LEMMA IdleCall == Idle \in Calls /\ CallSound(Idle) /\ CallSound(Idle)'
BY DEF Calls, CallSound, Idle

-----------------------------------------------------------------------------
(* What no step takes back *)

RowsStay ==
    \A c \in CustomerIDs : customers[c] # NoRow =>
        /\ customers'[c] # NoRow
        /\ customers'[c].identity = customers[c].identity
        /\ customers[c].status = "approved" => customers'[c] = customers[c]

TokensStay ==
    \A t \in Tokens : issued[t] # NoToken => issued'[t] = issued[t]

Lasting == RowsStay /\ TokensStay /\ everAdmin \subseteq everAdmin'

LEMMA EntitledLasts ==
    ASSUME Lasting, NEW role, NEW id, NEW e, NEW p, Entitled(role, id, e, p)
    PROVE  Entitled(role, id, e, p)'
BY DEF Lasting, RowsStay, Entitled, Stored

LEMMA CallLasts ==
    ASSUME Lasting, SessionsTypeOK, NEW x \in Calls, CallSound(x)
    PROVE  CallSound(x)'
<1>1. x.at = "create" => Entitled(x.role, x.id, x.email, x.password)'
    BY EntitledLasts DEF CallSound
<1>2. ASSUME x.at = "handler" PROVE HandlerSound(x)'
  <2>1. x.token \in Tokens /\ HandlerSound(x)
    BY <1>2, HandlerCall DEF CallSound
  <2>2. issued'[x.token] = issued[x.token] /\ issued[x.token] # NoToken
    BY <2>1 DEF HandlerSound, Lasting, TokensStay
  <2>3. Entitled(x.principal.role, x.principal.id,
                 issued[x.token].email, issued[x.token].password)
    BY <2>1 DEF HandlerSound
  <2>4. Entitled(x.principal.role, x.principal.id,
                 issued[x.token].email, issued[x.token].password)'
    BY <2>2, <2>3 DEF Lasting, RowsStay, Entitled, Stored
  <2>5. x.request.route = "banking" =>
          /\ x.principal.role = "customer"
          /\ customers'[x.principal.id].status = "approved"
          /\ customers'[x.principal.id].account = x.request.account
    BY <2>1, <2>3 DEF HandlerSound, Entitled, Stored, Lasting, RowsStay
  <2>. QED
    BY <2>1, <2>2, <2>4, <2>5 DEF HandlerSound
<1>. QED
    BY <1>1, <1>2 DEF CallSound

(* One request goes on, with a call that is sound; the others wait. *)
LEMMA CallsLast ==
    ASSUME SessionsInv, Lasting, NEW r \in Requests, NEW x \in Calls, Becomes(r, x),
           CallSound(x)'
    PROVE  calls' \in [Requests -> Calls] /\ CallsSound'
<1>1. /\ calls' \in [Requests -> Calls] /\ calls'[r] = x
      /\ \A s \in Requests : s # r => calls'[s] = calls[s]
    BY BecomesCall DEF SessionsInv
<1>2. ASSUME NEW s \in Requests PROVE CallSound(calls[s])'
  <2>1. CASE s = r
    BY <1>1, <2>1
  <2>2. ASSUME s # r PROVE CallSound(calls[s])'
    <3>1. calls[s] \in Calls /\ CallSound(calls[s]) /\ SessionsTypeOK
      BY DEF SessionsInv, SessionsTypeOK, CallsSound
    <3>. QED
      BY <1>1, <2>2, <3>1, CallLasts
  <2>. QED
    BY <2>1, <2>2
<1>. QED
    BY <1>1, <1>2 DEF CallsSound

LEMMA TokenLasts ==
    ASSUME SessionsInv, Lasting, NEW t \in Tokens,
           sessions'[t] = sessions[t], issued'[t] = issued[t],
           t \in loggedOut' <=> t \in loggedOut
    PROVE  TokenSound(t)'
<1>1. TokenSound(t)
    BY DEF SessionsInv, TokensSound
<1>2. ASSUME sessions[t] # NoSession, sessions[t].role = "customer"
      PROVE  sessions[t].id \in Stored'
    BY <1>1, <1>2 DEF TokenSound, Stored, Lasting, RowsStay
<1>3. ASSUME sessions[t] # NoSession, issued[t] # NoToken
      PROVE  Entitled(sessions[t].role, sessions[t].id, issued[t].email, issued[t].password)'
  <2>1. Entitled(sessions[t].role, sessions[t].id, issued[t].email, issued[t].password)
    BY <1>1, <1>3 DEF TokenSound
  <2>. QED
    BY <2>1 DEF Lasting, RowsStay, Entitled, Stored
<1>. QED
    BY <1>1, <1>2, <1>3 DEF TokenSound

LEMMA TokensLast ==
    ASSUME SessionsInv, Lasting, UNCHANGED <<sessions, issued, loggedOut>>
    PROVE  TokensSound'
BY TokenLasts DEF TokensSound

(* Somebody logged in with a password of the administrator that the row of *)
(* c names.                                                                *)
Signed(c) ==
    \E t \in Tokens : /\ issued[t] # NoToken
                      /\ issued[t].email = reviewedBy[c]
                      /\ [email |-> issued[t].email, password |-> issued[t].password]
                            \in everAdmin

LEMMA SignedLasts ==
    ASSUME Lasting, NEW c \in CustomerIDs, Signed(c), reviewedBy'[c] = reviewedBy[c]
    PROVE  Signed(c)'
BY DEF Signed, Lasting, TokensStay

(* Reviews that were there stay signed; the step may review d. *)
LEMMA ReviewsLast ==
    ASSUME SessionsInv, Lasting, NEW d,
           \A c \in CustomerIDs \ {d} : /\ customers'[c] = customers[c]
                                        /\ reviewedBy'[c] = reviewedBy[c],
           d \in CustomerIDs /\ customers'[d].status \in {"approved", "rejected"} => Signed(d)'
    PROVE  ReviewedByAnAdmin'
<1>1. SUFFICES ASSUME NEW c \in Stored', customers'[c].status \in {"approved", "rejected"}
               PROVE  Signed(c)'
    BY DEF ReviewedByAnAdmin, Signed
<1>2. c \in CustomerIDs
    BY DEF Stored
<1>3. ASSUME c # d PROVE Signed(c)'
  <2>1. Signed(c)
    BY <1>1, <1>2, <1>3 DEF SessionsInv, ReviewedByAnAdmin, Signed, Stored
  <2>. QED
    BY <1>2, <1>3, <2>1, SignedLasts
<1>. QED
    BY <1>1, <1>2, <1>3

LEMMA OnboardingAlone ==
    ASSUME OnboardingInv, UNCHANGED <<customers, objects, opened, submission, accepted>>,
           faults' \in 0..MaxFaults
    PROVE  OnboardingInv'
BY DEF OnboardingInv, TypeOK, SubmissionsSound, AcceptedEnded,
       OnePersonOneRow, OneAccountPerApproval, Stored, At

LEMMA FaultsType ==
    ASSUME SessionsInv, NoFault \/ \E kind : Fault(kind)
    PROVE  faults' \in 0..MaxFaults
BY FaultCount DEF SessionsInv, OnboardingInv

-----------------------------------------------------------------------------
(* Steps that change only what a request has read *)

LEMMA CallsOnly ==
    ASSUME SessionsInv, faults' \in 0..MaxFaults,
           UNCHANGED <<customers, objects, opened, submission, accepted,
                       admins, sessions, now, reviewedBy, issued, loggedOut, everAdmin>>,
           NEW r \in Requests, NEW x \in Calls, CallSound(x), Becomes(r, x)
    PROVE  SessionsInv'
<1>1. Lasting
    BY DEF Lasting, RowsStay, TokensStay
<1>2. SessionsTypeOK /\ OnboardingInv
    BY DEF SessionsInv
<1>3. OnboardingInv'
    BY <1>2, OnboardingAlone
<1>4. calls' \in [Requests -> Calls] /\ CallsSound'
    BY <1>1, <1>2, CallLasts, CallsLast
<1>5. SessionsTypeOK'
    BY <1>2, <1>3, <1>4 DEF SessionsTypeOK, OnboardingInv
<1>6. AdminsKnown'
    BY DEF SessionsInv, AdminsKnown
<1>7. TokensSound'
    BY <1>1, TokensLast
<1>8. ReviewedByAnAdmin'
    BY DEF SessionsInv, ReviewedByAnAdmin, Stored
<1>. QED
    BY <1>3, <1>4, <1>5, <1>6, <1>7, <1>8 DEF SessionsInv

LEMMA LoginFindAdminKeeps ==
    ASSUME SessionsInv, NEW r \in Requests, LoginFindAdmin(r)
    PROVE  SessionsInv'
<1>1. faults' \in 0..MaxFaults
    BY FaultsType DEF LoginFindAdmin
<1>2. PICK e \in Emails, p \in Passwords :
        \/ /\ e \in AdminEmails /\ verifyPassword(admins[e], p)
           /\ Login(r, "admin", e, e, p)
        \/ Becomes(r, [at |-> "customer", email |-> e, password |-> p])
    BY DEF LoginFindAdmin
<1>3. CASE e \in AdminEmails /\ verifyPassword(admins[e], p) /\ Login(r, "admin", e, e, p)
  <2> DEFINE x == [at |-> "create", role |-> "admin", id |-> e, email |-> e, password |-> p]
  <2>1. x \in Calls
    BY <1>3 DEF Calls
  <2>2. [email |-> e, password |-> p] \in everAdmin
    BY <1>3 DEF SessionsInv, AdminsKnown, verifyPassword
  <2>3. CallSound(x)
    BY <2>2 DEF CallSound, Entitled
  <2>4. Becomes(r, x)
    BY <1>3 DEF Login
  <2>. HIDE DEF x
  <2>. QED
    BY <1>1, <2>1, <2>3, <2>4, CallsOnly DEF LoginFindAdmin
<1>4. CASE Becomes(r, [at |-> "customer", email |-> e, password |-> p])
  <2> DEFINE x == [at |-> "customer", email |-> e, password |-> p]
  <2>1. x \in Calls
    BY DEF Calls
  <2>2. CallSound(x)
    BY DEF CallSound
  <2>3. Becomes(r, x)
    BY <1>4
  <2>. HIDE DEF x
  <2>. QED
    BY <1>1, <2>1, <2>2, <2>3, CallsOnly DEF LoginFindAdmin
<1>. QED
    BY <1>2, <1>3, <1>4

LEMMA LoginFindCustomerKeeps ==
    ASSUME SessionsInv, NEW r \in Requests, LoginFindCustomer(r)
    PROVE  SessionsInv'
<1>1. faults' \in 0..MaxFaults
    BY FaultsType DEF LoginFindCustomer
<1> DEFINE e == calls[r].email
           p == calls[r].password
<1>2. e \in Emails /\ p \in Passwords
    BY CustomerCall DEF SessionsInv, SessionsTypeOK, LoginFindCustomer
<1>3. CASE Becomes(r, Idle)
    BY <1>1, <1>3, IdleCall, CallsOnly DEF LoginFindCustomer
<1>4. ASSUME NEW c \in Matching(e, p), Login(r, "customer", c, e, p) PROVE SessionsInv'
  <2> DEFINE x == [at |-> "create", role |-> "customer", id |-> c, email |-> e, password |-> p]
  <2>1. /\ c \in Stored /\ c \in CustomerIDs
        /\ customers[c].identity.email = e /\ customers[c].identity.password = p
    BY DEF Matching, verifyPassword, hashPassword, Stored
  <2>2. x \in Calls
    BY <1>2, <2>1 DEF Calls
  <2>3. CallSound(x)
    BY <2>1 DEF CallSound, Entitled
  <2>4. Becomes(r, x)
    BY <1>4 DEF Login
  <2>. HIDE DEF x
  <2>. QED
    BY <1>1, <2>2, <2>3, <2>4, CallsOnly DEF LoginFindCustomer
<1>. QED
    BY <1>3, <1>4 DEF LoginFindCustomer

LEMMA AuthenticateKeeps ==
    ASSUME SessionsInv, NEW r \in Requests, NEW t \in Tokens, NEW q \in Routes,
           Authenticate(r, t, q)
    PROVE  SessionsInv'
<1> DEFINE s == sessions[t]
           p == Principal(s)
           x == [at |-> "handler", token |-> t, principal |-> p, request |-> q]
<1>1. SessionsTypeOK /\ TokenSound(t) /\ faults \in 0..MaxFaults
    BY DEF SessionsInv, TokensSound, OnboardingInv, TypeOK
<1>2. s \in SessionRows /\ s # NoSession /\ issued[t] # NoToken /\ Admitted(p, q)
    BY <1>1, SessionTypes DEF Authenticate, Live
<1>3. /\ s.role \in {"customer", "admin"} /\ s.id \in CustomerIDs \cup AdminEmails
      /\ Entitled(s.role, s.id, issued[t].email, issued[t].password)
    BY <1>1, <1>2 DEF SessionRows, TokenSound
<1>4. s.role = "customer" => s.id \in Stored /\ customers[s.id] \in Rows
    BY <1>1, <1>3, SessionTypes DEF Entitled, Stored
<1>5. /\ p.role = s.role /\ p.id = s.id
      /\ p.account = IF s.role = "customer" THEN customers[s.id].account ELSE Nobody
      /\ p.status = IF s.role = "customer" THEN customers[s.id].status ELSE "none"
    BY DEF Principal
<1>6. p \in Principals
    BY <1>3, <1>4 DEF Principal, Principals, Rows
<1>. HIDE DEF s, p
<1>7. x \in Calls
    BY <1>6 DEF Calls
<1>8. /\ q.route = "banking" =>
           /\ p.role = "customer" /\ customers[p.id].status = "approved"
           /\ customers[p.id].account = q.account
      /\ q.route \in {"approve", "reject"} => p.role = "admin"
    BY <1>2, <1>5 DEF Admitted, requireApprovedCustomer, authorizedAccount, requireAdmin
<1>9. HandlerSound(x)
    BY <1>2, <1>3, <1>5, <1>8 DEF HandlerSound
<1>10. CallSound(x)
    BY <1>9 DEF CallSound
<1>11. Becomes(r, x) /\ UNCHANGED <<vars, admins, sessions, now, reviewedBy, issued,
                                    loggedOut, everAdmin>>
    BY DEF Authenticate, p, s
<1>. HIDE DEF x
<1>. QED
    BY <1>1, <1>7, <1>10, <1>11, CallsOnly DEF vars

(* The end of a handler that changes nothing, or of the process. *)
LEMMA EndsKeep ==
    ASSUME SessionsInv, NEW r \in Requests, HandleBanking(r) \/ Interrupted(r)
    PROVE  SessionsInv'
<1>1. faults \in 0..MaxFaults
    BY DEF SessionsInv, OnboardingInv, TypeOK
<1>2. faults' \in 0..MaxFaults
    BY <1>1, FaultsType DEF HandleBanking, Interrupted, vars
<1>. QED
    BY <1>2, IdleCall, CallsOnly DEF HandleBanking, Interrupted, vars

-----------------------------------------------------------------------------
(* Sessions begin and end *)

LEMMA LoginCreateSessionKeeps ==
    ASSUME SessionsInv, NEW r \in Requests, NEW t \in Tokens, LoginCreateSession(r, t)
    PROVE  SessionsInv'
<1> DEFINE x == calls[r]
           s == [role |-> x.role, id |-> x.id, expiresAt |-> now + Lifetime]
           k == [email |-> x.email, password |-> x.password, since |-> now]
<1>1. /\ SessionsTypeOK /\ OnboardingInv /\ now \in 0..MaxTime
      /\ sessions \in [Tokens -> {NoSession} \cup SessionRows]
      /\ issued \in [Tokens -> {NoToken} \cup Credentials]
    BY SessionTypes DEF SessionsInv, SessionsTypeOK
<1>2. /\ x.role \in {"customer", "admin"} /\ x.id \in CustomerIDs \cup AdminEmails
      /\ x.email \in Emails /\ x.password \in Passwords
    BY <1>1, CreateCall DEF SessionsTypeOK, LoginCreateSession
<1>3. Entitled(x.role, x.id, x.email, x.password)
    BY DEF LoginCreateSession, SessionsInv, CallsSound, CallSound
<1>4. s \in SessionRows /\ s # NoSession /\ s.role = x.role /\ s.id = x.id
      /\ s.expiresAt = now + Lifetime
  <2>1. now + Lifetime \in Lifetime..(MaxTime + Lifetime)
    BY <1>1, SessionsAssumption
  <2>. QED
    BY <1>2, <2>1, SessionIsNotNone DEF SessionRows
<1>5. k \in Credentials /\ k # NoToken /\ k.email = x.email /\ k.password = x.password
      /\ k.since = now
    BY <1>1, <1>2, CredentialsAreNotNone DEF Credentials
<1>6. /\ Unused(t) /\ Becomes(r, Idle) /\ faults' \in 0..MaxFaults
      /\ UNCHANGED <<customers, objects, opened, submission, accepted,
                     admins, now, reviewedBy, loggedOut, everAdmin>>
      /\ \/ sessions' = [sessions EXCEPT ![t] = s] /\ issued' = [issued EXCEPT ![t] = k]
         \/ UNCHANGED <<sessions, issued>>
         \/ sessions' = [sessions EXCEPT ![t] = s] /\ UNCHANGED issued
    BY FaultsType DEF LoginCreateSession, Insert, Answer, NoAnswer
<1>. HIDE DEF s, k, x
<1>7. /\ sessions' \in [Tokens -> {NoSession} \cup SessionRows]
      /\ issued' \in [Tokens -> {NoToken} \cup Credentials]
      /\ \A u \in Tokens : u # t => sessions'[u] = sessions[u] /\ issued'[u] = issued[u]
      /\ \/ sessions'[t] = s /\ issued'[t] = k
         \/ sessions'[t] = sessions[t] /\ issued'[t] = issued[t]
         \/ sessions'[t] = s /\ issued'[t] = issued[t]
    BY <1>1, <1>4, <1>5, <1>6
<1>8. Lasting
    BY <1>6, <1>7 DEF Lasting, RowsStay, TokensStay, Unused
<1>9. OnboardingInv'
    BY <1>1, <1>6, OnboardingAlone
<1>10. calls' \in [Requests -> Calls] /\ CallsSound'
    BY <1>6, <1>8, IdleCall, CallsLast
<1>11. SessionsTypeOK'
  <2>1. /\ admins \in [AdminEmails -> {NoHash} \cup {hashPassword(p) : p \in Passwords}]
        /\ now \in 0..MaxTime
        /\ reviewedBy \in [CustomerIDs -> AdminEmails \cup {Nobody}]
        /\ loggedOut \subseteq Tokens
        /\ everAdmin \subseteq [email : AdminEmails, password : Passwords]
    BY <1>1 DEF SessionsTypeOK
  <2>. QED
    BY <1>6, <1>7, <1>9, <1>10, <2>1
       DEF SessionsTypeOK, OnboardingInv, SessionRows, Credentials
<1>12. AdminsKnown'
    BY <1>6 DEF SessionsInv, AdminsKnown
<1>13. TokensSound'
  <2>1. ASSUME NEW u \in Tokens, u # t PROVE TokenSound(u)'
    BY <1>6, <1>7, <1>8, <2>1, TokenLasts
  <2>2. TokenSound(t)'
    <3>1. sessions[t] = NoSession /\ issued[t] = NoToken /\ t \notin loggedOut
      BY <1>6 DEF Unused
    <3>3. s.role = "customer" => s.id \in Stored'
      BY <1>3, <1>4, <1>6 DEF Entitled, Stored
    <3>4. CASE sessions'[t] = sessions[t] /\ issued'[t] = issued[t]
      BY <1>6, <3>1, <3>4 DEF TokenSound
    <3>5. CASE sessions'[t] = s /\ issued'[t] = issued[t]
      BY <1>6, <3>1, <3>3, <3>5, <1>4 DEF TokenSound
    <3>6. CASE sessions'[t] = s /\ issued'[t] = k
      <4>1. Entitled(sessions[t].role, sessions[t].id, issued[t].email, issued[t].password)'
        BY <1>3, <1>4, <1>5, <1>6, <3>6 DEF Entitled, Stored
      <4>. QED
        BY <1>4, <1>5, <1>6, <3>1, <3>3, <3>6, <4>1 DEF TokenSound
    <3>. QED
      BY <1>7, <3>4, <3>5, <3>6
  <2>. QED
    BY <2>1, <2>2 DEF TokensSound
<1>14. ReviewedByAnAdmin'
  <2>1. \A c \in CustomerIDs : customers'[c] = customers[c] /\ reviewedBy'[c] = reviewedBy[c]
    BY <1>6
  <2>2. ASSUME NEW c \in Stored', customers'[c].status \in {"approved", "rejected"}
        PROVE  Signed(c)'
    <3>1. c \in CustomerIDs /\ Signed(c)
      BY <1>6, <2>2 DEF SessionsInv, ReviewedByAnAdmin, Signed, Stored
    <3>. QED
      BY <1>8, <2>1, <3>1, SignedLasts
  <2>. QED
    BY <2>2 DEF ReviewedByAnAdmin, Signed
<1>. QED
    BY <1>9, <1>10, <1>11, <1>12, <1>13, <1>14 DEF SessionsInv

LEMMA HandleLogoutKeeps ==
    ASSUME SessionsInv, NEW r \in Requests, HandleLogout(r)
    PROVE  SessionsInv'
<1>1. /\ SessionsTypeOK /\ OnboardingInv
      /\ sessions \in [Tokens -> {NoSession} \cup SessionRows]
      /\ loggedOut \subseteq Tokens
    BY SessionTypes DEF SessionsInv, SessionsTypeOK
<1>2. PICK t \in Tokens : t = calls[r].token
    BY <1>1, HandlerCall DEF SessionsTypeOK, HandleLogout, Handling
<1>3. /\ Becomes(r, Idle) /\ faults' \in 0..MaxFaults
      /\ UNCHANGED <<customers, objects, opened, submission, accepted,
                     admins, now, reviewedBy, issued, everAdmin>>
      /\ \/ /\ sessions' = [sessions EXCEPT ![t] = NoSession]
            /\ loggedOut' = loggedOut \cup {t}
         \/ UNCHANGED <<sessions, loggedOut>>
    BY <1>2, FaultsType DEF HandleLogout, DeleteSession
<1>4. Lasting
    BY <1>3 DEF Lasting, RowsStay, TokensStay
<1>5. OnboardingInv'
    BY <1>1, <1>3, OnboardingAlone
<1>6. calls' \in [Requests -> Calls] /\ CallsSound'
    BY <1>3, <1>4, IdleCall, CallsLast
<1>7. /\ sessions' \in [Tokens -> {NoSession} \cup SessionRows] /\ loggedOut' \subseteq Tokens
      /\ \A u \in Tokens : u # t => sessions'[u] = sessions[u]
      /\ \A u \in Tokens : u # t => (u \in loggedOut' <=> u \in loggedOut)
      /\ \/ sessions'[t] = NoSession /\ t \in loggedOut'
         \/ sessions'[t] = sessions[t] /\ loggedOut' = loggedOut
    BY <1>1, <1>2, <1>3
<1>8. SessionsTypeOK'
  <2>1. /\ admins \in [AdminEmails -> {NoHash} \cup {hashPassword(p) : p \in Passwords}]
        /\ now \in 0..MaxTime
        /\ reviewedBy \in [CustomerIDs -> AdminEmails \cup {Nobody}]
        /\ issued \in [Tokens -> {NoToken} \cup
              [email : Emails, password : Passwords, since : 0..MaxTime]]
        /\ everAdmin \subseteq [email : AdminEmails, password : Passwords]
    BY <1>1 DEF SessionsTypeOK
  <2>. QED
    BY <1>3, <1>5, <1>6, <1>7, <2>1 DEF SessionsTypeOK, OnboardingInv, SessionRows
<1>9. AdminsKnown' /\ ReviewedByAnAdmin'
    BY <1>3 DEF SessionsInv, AdminsKnown, ReviewedByAnAdmin, Stored
<1>10. TokensSound'
  <2>1. ASSUME NEW u \in Tokens, u # t PROVE TokenSound(u)'
    BY <1>3, <1>4, <1>7, <2>1, TokenLasts
  <2>2. TokenSound(t)'
    <3>1. CASE sessions'[t] = NoSession /\ t \in loggedOut'
      BY <3>1 DEF TokenSound
    <3>2. CASE sessions'[t] = sessions[t] /\ loggedOut' = loggedOut
      BY <1>2, <1>3, <1>4, <3>2, TokenLasts
    <3>. QED
      BY <1>7, <3>1, <3>2
  <2>. QED
    BY <2>1, <2>2 DEF TokensSound
<1>. QED
    BY <1>5, <1>6, <1>8, <1>9, <1>10 DEF SessionsInv

-----------------------------------------------------------------------------
(* Time, administrators and customers *)

LEMMA TickKeeps ==
    ASSUME SessionsInv, Tick
    PROVE  SessionsInv'
<1>1. /\ UNCHANGED <<customers, objects, opened, submission, accepted, faults,
                     admins, sessions, calls, reviewedBy, issued, loggedOut, everAdmin>>
      /\ now < MaxTime /\ now' = now + 1
    BY DEF Tick, vars
<1>2. OnboardingInv /\ SessionsTypeOK /\ faults \in 0..MaxFaults /\ now \in 0..MaxTime
    BY DEF SessionsInv, OnboardingInv, TypeOK, SessionsTypeOK
<1>3. OnboardingInv'
    BY <1>1, <1>2, OnboardingAlone
<1>4. now' \in 0..MaxTime
    BY <1>1, <1>2, SessionsAssumption
<1>5. SessionsTypeOK'
    BY <1>1, <1>2, <1>3, <1>4 DEF SessionsTypeOK, OnboardingInv
<1>6. AdminsKnown' /\ ReviewedByAnAdmin'
    BY <1>1 DEF SessionsInv, AdminsKnown, ReviewedByAnAdmin, Stored
<1>7. CallsSound' /\ TokensSound'
    BY <1>1 DEF SessionsInv, CallsSound, CallSound, HandlerSound, TokensSound, TokenSound,
                Entitled, Stored
<1>. QED
    BY <1>3, <1>5, <1>6, <1>7 DEF SessionsInv

LEMMA UpsertAdminKeeps ==
    ASSUME SessionsInv, NEW e \in AdminEmails, NEW p \in Passwords, UpsertAdmin(e, p)
    PROVE  SessionsInv'
<1> DEFINE k == [email |-> e, password |-> p]
<1>1. /\ UNCHANGED <<customers, objects, opened, submission, accepted, faults,
                     sessions, now, calls, reviewedBy, issued, loggedOut>>
      /\ admins' = [admins EXCEPT ![e] = hashPassword(p)]
      /\ everAdmin' = everAdmin \cup {k}
    BY DEF UpsertAdmin, Upsert, vars
<1>2. /\ OnboardingInv /\ SessionsTypeOK /\ faults \in 0..MaxFaults
      /\ admins \in [AdminEmails -> {NoHash} \cup {hashPassword(q) : q \in Passwords}]
      /\ everAdmin \subseteq [email : AdminEmails, password : Passwords]
    BY DEF SessionsInv, OnboardingInv, TypeOK, SessionsTypeOK
<1>3. Lasting
    BY <1>1 DEF Lasting, RowsStay, TokensStay
<1>4. OnboardingInv'
    BY <1>1, <1>2, OnboardingAlone
<1>5. /\ admins' \in [AdminEmails -> {NoHash} \cup {hashPassword(q) : q \in Passwords}]
      /\ everAdmin' \subseteq [email : AdminEmails, password : Passwords]
    BY <1>1, <1>2
<1>6. SessionsTypeOK'
    BY <1>1, <1>2, <1>4, <1>5 DEF SessionsTypeOK, OnboardingInv
<1>7. AdminsKnown'
    BY <1>1, <1>2 DEF SessionsInv, AdminsKnown, hashPassword
<1>8. CallsSound'
    BY <1>1, <1>2, <1>3, CallLasts DEF SessionsInv, CallsSound, SessionsTypeOK
<1>9. TokensSound'
    BY <1>1, <1>3, TokensLast
<1>10. ReviewedByAnAdmin'
    BY <1>1 DEF SessionsInv, ReviewedByAnAdmin, Stored
<1>. QED
    BY <1>4, <1>6, <1>7, <1>8, <1>9, <1>10 DEF SessionsInv

LEMMA OnboardKeeps ==
    ASSUME SessionsInv, NEW c \in CustomerIDs, Onboard(c)
    PROVE  SessionsInv'
<1>1. /\ OnboardingInv /\ SessionsTypeOK
      /\ TypeOK /\ SubmissionsSound /\ AcceptedEnded
    BY DEF SessionsInv, OnboardingInv
<1>2. /\ customers[c] = NoRow /\ At(c, "new") /\ Goto(c, "ended")
      /\ accepted' = accepted \cup {c} /\ objects' = objects \cup {c}
      /\ UNCHANGED <<opened, faults, admins, sessions, now, calls, reviewedBy, issued,
                     loggedOut, everAdmin>>
    BY <1>1 DEF Onboard, Committed, SubmissionsSound, sessionVars
<1>3. PICK i \in Identities :
        /\ ~Known(i)
        /\ customers' = [customers EXCEPT ![c] = Row(i, "waiting_for_approval", Nobody)]
    BY DEF Onboard
<1>4. /\ customers' \in [CustomerIDs -> {NoRow} \cup Rows]
      /\ customers'[c] # NoRow
      /\ \A d \in CustomerIDs : d # c => customers'[d] = customers[d]
      /\ OnePersonOneRow' /\ OneAccountPerApproval'
    BY <1>1, <1>2, <1>3, InsertedKeeps
<1>5. customers'[c].status = "waiting_for_approval"
    BY <1>1, <1>3 DEF TypeOK, Row
<1> DEFINE Places == [at : {"new", "ended"}] \cup
                     [at : {"stored", "cleanup", "ended"}, identity : Identities]
<1>6. /\ submission' \in [CustomerIDs -> Places] /\ submission'[c].at = "ended"
      /\ \A d \in CustomerIDs : d # c => submission'[d] = submission[d]
  <2>1. submission \in [CustomerIDs -> Places] /\ submission[c] \in [at : {"new", "ended"}]
    BY <1>1, <1>2 DEF TypeOK, At
  <2>2. [submission[c] EXCEPT !.at = "ended"] \in [at : {"new", "ended"}]
    BY <2>1
  <2>3. [submission[c] EXCEPT !.at = "ended"].at = "ended"
    BY <2>1
  <2>4. submission' = [submission EXCEPT ![c] = [submission[c] EXCEPT !.at = "ended"]]
    BY <1>2 DEF Goto
  <2>. QED
    BY <2>1, <2>2, <2>3, <2>4
<1>7. TypeOK'
    BY <1>1, <1>2, <1>4, <1>6 DEF TypeOK, Rows
<1>8. SubmissionsSound' /\ AcceptedEnded'
    BY <1>1, <1>2, <1>4, <1>6 DEF SubmissionsSound, AcceptedEnded, At, TypeOK
<1>9. OnboardingInv'
    BY <1>4, <1>7, <1>8 DEF OnboardingInv
<1>10. Lasting
    BY <1>2, <1>4 DEF Lasting, RowsStay, TokensStay
<1>11. SessionsTypeOK'
    BY <1>1, <1>2, <1>7 DEF SessionsTypeOK
<1>12. AdminsKnown'
    BY <1>2 DEF SessionsInv, AdminsKnown
<1>13. CallsSound'
    BY <1>1, <1>2, <1>10, CallLasts DEF SessionsInv, CallsSound, SessionsTypeOK
<1>14. TokensSound'
    BY <1>2, <1>10, TokensLast
<1>15. ReviewedByAnAdmin'
    BY <1>2, <1>4, <1>5, <1>10, ReviewsLast
<1>. QED
    BY <1>9, <1>11, <1>12, <1>13, <1>14, <1>15 DEF SessionsInv

LEMMA ReviewedRow ==
    ASSUME SessionsTypeOK, NEW c \in CustomerIDs, NEW status, NEW a, Waiting(c),
           Review(c, status, a)
    PROVE  /\ customers[c] # NoRow
           /\ customers'[c].identity = customers[c].identity
           /\ \A d \in CustomerIDs : d # c => customers'[d] = customers[d]
<1>1. customers \in [CustomerIDs -> {NoRow} \cup Rows]
    BY SessionTypes
<1>2. customers[c] \in Rows /\ customers[c] # NoRow
    BY <1>1, RowIsNotAbsent DEF Waiting, NoRow
<1>3. customers' = [customers EXCEPT ![c] =
                      [customers[c] EXCEPT !.status = status, !.account = a]]
    BY <1>1 DEF Review
<1>4. [customers[c] EXCEPT !.status = status, !.account = a].identity = customers[c].identity
    BY <1>2 DEF Rows
<1>. QED
    BY <1>1, <1>2, <1>3, <1>4

LEMMA HandleReviewKeeps ==
    ASSUME SessionsInv, NEW r \in Requests, HandleReview(r)
    PROVE  SessionsInv'
<1>1. /\ SessionsTypeOK /\ OnboardingInv /\ calls[r] \in Calls /\ faults \in 0..MaxFaults
      /\ everAdmin \subseteq [email : AdminEmails, password : Passwords]
      /\ reviewedBy \in [CustomerIDs -> AdminEmails \cup {Nobody}]
    BY DEF SessionsInv, SessionsTypeOK, OnboardingInv, TypeOK
<1>2. /\ calls[r].at = "handler" /\ calls[r].request.route \in {"approve", "reject"}
      /\ Becomes(r, Idle)
      /\ UNCHANGED <<admins, sessions, now, issued, loggedOut, everAdmin>>
    BY DEF HandleReview, Handling
<1>3. CASE UNCHANGED <<vars, reviewedBy>>
    BY <1>1, <1>2, <1>3, IdleCall, CallsOnly DEF vars
<1>4. CASE ~UNCHANGED <<vars, reviewedBy>>
  <2>1. PICK c \in CustomerIDs : c = calls[r].request.customer
    BY <1>1, <1>2, HandlerCall, CustomerRequest
  <2>2. PICK t \in Tokens : t = calls[r].token
    BY <1>1, <1>2, HandlerCall
  <2>3. HandlerSound(calls[r])
    BY <1>2 DEF SessionsInv, CallsSound, CallSound
  <2>4. PICK admin \in AdminEmails :
          /\ issued[t] # NoToken /\ issued[t].email = admin
          /\ AdminID(calls[r].principal) = admin
          /\ [email |-> issued[t].email, password |-> issued[t].password] \in everAdmin
    BY <1>1, <1>2, <2>2, <2>3 DEF HandlerSound, Entitled, AdminID
  <2>5. /\ \/ \E a \in AccountIDs : ApproveApplication(c, a)
           \/ RejectApplication(c)
        /\ reviewedBy' = [reviewedBy EXCEPT ![c] = admin]
    BY <1>4, <2>1, <2>4 DEF HandleReview, ReviewBy
  <2>6. OnboardingInv'
    BY <1>1, <2>5, ApproveApplicationKeeps, RejectApplicationKeeps
  <2>7. /\ customers[c] # NoRow /\ customers'[c] # NoRow
        /\ customers'[c].identity = customers[c].identity
        /\ customers[c].status # "approved"
        /\ \A d \in CustomerIDs : d # c => customers'[d] = customers[d]
    <3>1. /\ customers[c] # NoRow
          /\ customers'[c].identity = customers[c].identity
          /\ \A d \in CustomerIDs : d # c => customers'[d] = customers[d]
      BY <1>1, <2>5, ReviewedRow DEF ApproveApplication, RejectApplication, Open
    <3>2. customers'[c].status \in {"approved", "rejected"} /\ customers[c].status # "approved"
      <4>1. customers \in [CustomerIDs -> {NoRow} \cup Rows] /\ customers[c] \in Rows
        BY <1>1, <3>1, SessionTypes
      <4>. QED
        BY <2>5, <4>1 DEF ApproveApplication, RejectApplication, Open, Review, Waiting, Rows
    <3>. QED
      BY <3>1, <3>2 DEF NoRow
  <2>8. Lasting
    BY <1>2, <2>7 DEF Lasting, RowsStay, TokensStay
  <2>9. calls' \in [Requests -> Calls] /\ CallsSound'
    BY <1>2, <2>8, IdleCall, CallsLast
  <2>10. /\ reviewedBy' \in [CustomerIDs -> AdminEmails \cup {Nobody}]
         /\ reviewedBy'[c] = admin
         /\ \A d \in CustomerIDs : d # c => reviewedBy'[d] = reviewedBy[d]
    BY <1>1, <2>5
  <2>11. SessionsTypeOK'
    BY <1>1, <1>2, <2>6, <2>9, <2>10 DEF SessionsTypeOK, OnboardingInv
  <2>12. AdminsKnown'
    BY <1>2 DEF SessionsInv, AdminsKnown
  <2>13. TokensSound'
    BY <1>2, <2>8, TokensLast
  <2>14. Signed(c)'
    BY <1>2, <2>4, <2>10 DEF Signed
  <2>15. ReviewedByAnAdmin'
    BY <2>7, <2>8, <2>10, <2>14, ReviewsLast
  <2>. QED
    BY <2>6, <2>9, <2>11, <2>12, <2>13, <2>15 DEF SessionsInv
<1>. QED
    BY <1>3, <1>4

-----------------------------------------------------------------------------

LEMMA SessionsInitSound == SessionsInit => SessionsInv
<1> SUFFICES ASSUME SessionsInit PROVE SessionsInv
    OBVIOUS
<1>1. OnboardingInv
    BY OnboardingInit DEF SessionsInit
<1>2. SessionsTypeOK
    BY <1>1, SessionsAssumption, IdleCall DEF OnboardingInv, SessionsInit, SessionsTypeOK
<1>3. AdminsKnown
    BY DEF SessionsInit, AdminsKnown, hashPassword, NoHash
<1>4. CallsSound
    BY IdleCall DEF SessionsInit, CallsSound
<1>5. TokensSound
    BY DEF SessionsInit, TokensSound, TokenSound
<1>6. ReviewedByAnAdmin
    BY DEF SessionsInit, Init, ReviewedByAnAdmin, Stored
<1>. QED
    BY <1>1, <1>2, <1>3, <1>4, <1>5, <1>6 DEF SessionsInv

LEMMA SessionsAlone ==
    ASSUME SessionsInv, UNCHANGED allVars
    PROVE  SessionsInv'
<1>1. UNCHANGED <<customers, objects, opened, submission, accepted, faults,
                  admins, sessions, now, calls, reviewedBy, issued, loggedOut, everAdmin>>
    BY DEF allVars, vars, sessionVars
<1>2. OnboardingInv /\ SessionsTypeOK /\ faults \in 0..MaxFaults
    BY DEF SessionsInv, OnboardingInv, TypeOK
<1>3. OnboardingInv'
    BY <1>1, <1>2, OnboardingAlone
<1>4. SessionsTypeOK'
    BY <1>1, <1>2, <1>3 DEF SessionsTypeOK, OnboardingInv
<1>5. AdminsKnown' /\ ReviewedByAnAdmin'
    BY <1>1 DEF SessionsInv, AdminsKnown, ReviewedByAnAdmin, Stored
<1>6. CallsSound' /\ TokensSound'
    BY <1>1 DEF SessionsInv, CallsSound, CallSound, HandlerSound, TokensSound, TokenSound,
                Entitled, Stored
<1>. QED
    BY <1>3, <1>4, <1>5, <1>6 DEF SessionsInv

LEMMA SessionsNextSound == SessionsInv /\ [SessionsNext]_allVars => SessionsInv'
<1> SUFFICES ASSUME SessionsInv, [SessionsNext]_allVars PROVE SessionsInv'
    OBVIOUS
<1>1. CASE UNCHANGED allVars
    BY <1>1, SessionsAlone
<1>2. CASE \E c \in CustomerIDs : Onboard(c)
    BY <1>2, OnboardKeeps
<1>3. CASE \E e \in AdminEmails, p \in Passwords : UpsertAdmin(e, p)
    BY <1>3, UpsertAdminKeeps
<1>4. ASSUME NEW r \in Requests, Serve(r) \/ Interrupted(r) PROVE SessionsInv'
  <2>1. CASE LoginFindAdmin(r) \/ LoginFindCustomer(r)
    BY <2>1, LoginFindAdminKeeps, LoginFindCustomerKeeps
  <2>2. CASE \E t \in Tokens : LoginCreateSession(r, t)
    BY <2>2, LoginCreateSessionKeeps
  <2>3. CASE \E t \in Tokens, q \in Routes : Authenticate(r, t, q)
    BY <2>3, AuthenticateKeeps
  <2>4. CASE HandleBanking(r) \/ HandleReview(r) \/ HandleLogout(r) \/ Interrupted(r)
    BY <2>4, EndsKeep, HandleReviewKeeps, HandleLogoutKeeps
  <2>. QED
    BY <1>4, <2>1, <2>2, <2>3, <2>4 DEF Serve
<1>5. CASE Tick
    BY <1>5, TickKeeps
<1>. QED
    BY <1>1, <1>2, <1>3, <1>4, <1>5 DEF SessionsNext

(* The inductive invariant of logins, sessions and handlers. *)
THEOREM SessionsInvariant == SessionsSpec => []SessionsInv
BY SessionsInitSound, SessionsNextSound, PTL DEF SessionsSpec

(* The state keeps its types, the records of requests under way included. *)
THEOREM SessionsTypeCorrect == SessionsSpec => []SessionsTypeOK
<1>1. SessionsInv => SessionsTypeOK
    BY DEF SessionsInv
<1>. QED
    BY <1>1, SessionsInvariant, PTL

(* A banking handler works on an account of the customer who logged in     *)
(* (requireAuth, requireApprovedCustomer, authorizedAccount).              *)
THEOREM AccountsAreTheOwners == SessionsSpec => []OwnAccountOnly
<1>1. ASSUME SessionsInv PROVE OwnAccountOnly
  <2>1. SUFFICES ASSUME NEW r \in Requests, Handling(r, "banking")
                 PROVE  LET owner == opened[calls[r].request.account]
                            login == issued[calls[r].token]
                        IN  /\ owner # Nobody
                            /\ customers[owner].status = "approved"
                            /\ customers[owner].identity.email = login.email
                            /\ customers[owner].identity.password = login.password
    BY DEF OwnAccountOnly
  <2> DEFINE c == calls[r].principal.id
             a == calls[r].request.account
  <2>2. HandlerSound(calls[r]) /\ calls[r].request.route = "banking"
    BY <1>1, <2>1 DEF SessionsInv, CallsSound, CallSound, Handling
  <2>3. /\ c \in CustomerIDs /\ customers[c].status = "approved" /\ customers[c].account = a
        /\ customers[c].identity.email = issued[calls[r].token].email
        /\ customers[c].identity.password = issued[calls[r].token].password
    BY <2>2 DEF HandlerSound, Entitled, Stored
  <2>4. opened[a] = c
    <3>1. {b \in AccountIDs : opened[b] = c} = {customers[c].account}
      BY <1>1, <2>3 DEF SessionsInv, OnboardingInv, OneAccountPerApproval
    <3>. HIDE DEF a, c
    <3>. QED
      BY <2>3, <3>1
  <2>. QED
    BY <2>3, <2>4, OnboardingAssumption
<1>. QED
    BY <1>1, SessionsInvariant, PTL

(* Only who logged in as an administrator reviews (Login, requireAdmin). *)
THEOREM ReviewersAreAdmins == SessionsSpec => []ReviewedByAnAdmin
<1>1. SessionsInv => ReviewedByAnAdmin
    BY DEF SessionsInv
<1>. QED
    BY <1>1, SessionsInvariant, PTL

(* A token that a login returned works until it expires or is logged out   *)
(* (CreateSession, FindSession).                                           *)
THEOREM TokensWork == SessionsSpec => []IssuedIsUsable
<1>1. ASSUME SessionsInv PROVE IssuedIsUsable
    BY <1>1 DEF SessionsInv, TokensSound, TokenSound, IssuedIsUsable, Live
<1>. QED
    BY <1>1, SessionsInvariant, PTL

(* No handler begins with a session that was deleted or has expired        *)
(* (FindSession, Logout).                                                  *)
THEOREM EndedSessionsStayEnded == SessionsSpec => SessionEndsForGood
<1> DEFINE Begins(r) ==
        calls[r] = Idle /\ calls'[r].at = "handler" =>
          LET t == calls'[r].token
          IN  t \notin loggedOut /\ now < issued[t].since + Lifetime
<1>1. ASSUME SessionsInv, [SessionsNext]_allVars, NEW r \in Requests
      PROVE  Begins(r)
  <2>1. SUFFICES ASSUME calls[r] = Idle, calls'[r].at = "handler" PROVE Begins(r)
    OBVIOUS
  <2>2. PICK t \in Tokens, q \in Routes : Authenticate(r, t, q)
    <3>1. calls'[r] # calls[r] /\ calls[r] = Idle
      BY <2>1 DEF Idle
    <3>2. calls \in [Requests -> Calls]
      BY <1>1 DEF SessionsInv, SessionsTypeOK
    <3>3. PICK s \in Requests : Serve(s) \/ Interrupted(s)
      BY <1>1, <3>1 DEF SessionsNext, allVars, sessionVars, Onboard, UpsertAdmin, Tick
    <3>4. ASSUME NEW x, Becomes(s, x) PROVE s = r /\ calls'[r] = x
      BY <3>1, <3>2, <3>4 DEF Becomes
    <3>5. ~Becomes(s, Idle)
      BY <3>1, <3>4
    <3>6. ~Interrupted(s) /\ ~HandleBanking(s) /\ ~HandleReview(s) /\ ~HandleLogout(s)
          /\ \A t \in Tokens : ~LoginCreateSession(s, t)
      BY <3>5 DEF Interrupted, HandleBanking, HandleReview, HandleLogout, LoginCreateSession
    <3>7. ~LoginFindAdmin(s) /\ ~LoginFindCustomer(s)
      <4>1. \A role, id, e, p : ~Login(s, role, id, e, p)
        BY <2>1, <3>4 DEF Login
      <4>2. \A e, p : ~Becomes(s, [at |-> "customer", email |-> e, password |-> p])
        BY <2>1, <3>4
      <4>. QED
        BY <3>5, <4>1, <4>2 DEF LoginFindAdmin, LoginFindCustomer
    <3>8. PICK t \in Tokens, q \in Routes : Authenticate(s, t, q)
      BY <3>3, <3>6, <3>7 DEF Serve
    <3>9. s = r
      BY <3>4, <3>8 DEF Authenticate
    <3>. QED
      BY <3>8, <3>9
  <2>3. calls'[r].token = t
    BY <1>1, <2>2 DEF SessionsInv, SessionsTypeOK, Authenticate, Becomes
  <2>4. TokenSound(t) /\ issued[t] # NoToken /\ sessions[t] # NoSession
        /\ sessions[t].expiresAt > now
    BY <1>1, <2>2 DEF SessionsInv, TokensSound, Authenticate, Live
  <2>5. t \notin loggedOut /\ now < issued[t].since + Lifetime
    <3>1. sessions[t].expiresAt = issued[t].since + Lifetime /\ t \notin loggedOut
      BY <2>4 DEF TokenSound
    <3>. QED
      BY <2>4, <3>1
  <2>. QED
    BY <2>3, <2>5
<1>2. SessionsInv /\ [SessionsNext]_allVars
        => [\A r \in Requests : Begins(r)]_allVars
    BY <1>1
<1>. QED
    BY <1>2, SessionsInvariant, PTL DEF SessionsSpec, SessionEndsForGood
=============================================================================
