----------------------------- MODULE Onboarding -----------------------------
(***************************************************************************)
(* Applications of new customers and their review.  An application is two  *)
(* writes to two stores: the passport image goes to the object store, then *)
(* the customer row to PostgreSQL; when the row is not known to be         *)
(* committed, the image is deleted again.  An approval opens the account   *)
(* in the transaction that marks the row.                                  *)
(*                                                                         *)
(* A call to either store may fail: "lost" (nothing happened) or "unacked" *)
(* (it happened, and the caller sees an error).  A process may end between *)
(* two calls.                                                              *)
(***************************************************************************)
EXTENDS Naturals, FiniteSets

CONSTANTS
    CustomerIDs,   \* customer ids (random), one per submission
    AccountIDs,    \* account ids (random), one per approval attempted
    Identities,    \* what applicants send: records with email, document
    FaultKinds,    \* which faults happen, a subset of Faults
    MaxFaults      \* bound: how many faults happen in a behaviour

Faults == {"lost", "unacked", "crash"}

Nobody == "none"

ASSUME OnboardingAssumption ==
    /\ FaultKinds \subseteq Faults /\ MaxFaults \in Nat
    /\ Nobody \notin CustomerIDs               \* ids start with a prefix of their kind

VARIABLES
    customers,     \* the customers table
    objects,       \* the object store: the customers whose image it has
    opened,        \* AccountOpened events: [AccountIDs -> CustomerIDs or none]
    submission,    \* per customer id drawn: where CreateCustomerApplication is
    accepted,      \* history: the submissions whose call returned without error
    faults         \* history: faults so far

vars == <<customers, objects, opened, submission, accepted, faults>>

NoRow  == [status |-> "absent"]

Row(i, status, a) == [status |-> status, identity |-> i, account |-> a]

Init ==
    /\ customers = [c \in CustomerIDs |-> NoRow]
    /\ objects = {}
    /\ opened = [a \in AccountIDs |-> Nobody]
    /\ submission = [c \in CustomerIDs |-> [at |-> "new"]]
    /\ accepted = {}
    /\ faults = 0

Fault(kind) ==
    /\ kind \in FaultKinds
    /\ faults < MaxFaults
    /\ faults' = faults + 1

NoFault == UNCHANGED faults

At(c, where) == submission[c].at = where
Goto(c, where) == submission' = [submission EXCEPT ![c].at = where]

-----------------------------------------------------------------------------
(* CreateCustomerApplication *)

(* An id is drawn and the image put.  When Put reports an error the call   *)
(* returns without a Delete, whether or not the image arrived.             *)
PutObject(c) ==
    /\ At(c, "new")
    /\ \E i \in Identities :
       \/ /\ NoFault
          /\ objects' = objects \cup {c}
          /\ submission' = [submission EXCEPT ![c] = [at |-> "stored", identity |-> i]]
       \/ /\ Fault("lost")
          /\ submission' = [submission EXCEPT ![c] = [at |-> "ended"]]
          /\ UNCHANGED objects
       \/ /\ Fault("unacked")
          /\ objects' = objects \cup {c}
          /\ submission' = [submission EXCEPT ![c] = [at |-> "ended"]]
    /\ UNCHANGED <<customers, opened, accepted>>

(* variant: only the email has to be new *)
EmailKnown(i) ==
    \E c \in CustomerIDs : /\ customers[c] # NoRow
                           /\ customers[c].identity.email = i.email

(* The unique keys: the email, and the government document. *)
Known(i) ==
    \E c \in CustomerIDs : /\ customers[c] # NoRow
                           /\ \/ customers[c].identity.email = i.email
                              \/ customers[c].identity.document = i.document

(* The call returns an error; its deferred clean-up comes next. *)
CleanUp(c) == Goto(c, "cleanup") /\ UNCHANGED accepted

(* variant: committed is not set, and the deferred clean-up runs *)
CommittedUnset(c) == Goto(c, "cleanup") /\ accepted' = accepted \cup {c}

Committed(c) == Goto(c, "ended") /\ accepted' = accepted \cup {c}

(* Begin, INSERT and COMMIT. *)
InsertCustomer(c) ==
    LET i == submission[c].identity
        inserted == customers' = [customers EXCEPT ![c] = Row(i, "waiting_for_approval", Nobody)]
    IN
    /\ At(c, "stored")
    /\ \/ NoFault /\ ~Known(i) /\ inserted /\ Committed(c)
       \/ NoFault /\ Known(i) /\ UNCHANGED customers /\ CleanUp(c)   \* ErrCustomerAlreadyExists
       \/ Fault("lost") /\ UNCHANGED customers /\ CleanUp(c)
       \/ Fault("unacked") /\ ~Known(i) /\ inserted /\ CleanUp(c)
    /\ UNCHANGED <<objects, opened>>

(* An error of Delete is ignored. *)
DeleteObject(c) ==
    /\ At(c, "cleanup")
    /\ \/ NoFault /\ objects' = objects \ {c}
       \/ Fault("lost") /\ UNCHANGED objects
       \/ Fault("unacked") /\ objects' = objects \ {c}
    /\ Goto(c, "ended")
    /\ UNCHANGED <<customers, opened, accepted>>

(* The process ends; deferred calls do not run. *)
Crash(c) ==
    /\ At(c, "stored") \/ At(c, "cleanup")
    /\ Fault("crash")
    /\ Goto(c, "ended")
    /\ UNCHANGED <<customers, objects, opened, accepted>>

-----------------------------------------------------------------------------
(* The review *)

(* variant: the row is not looked at *)
AnyRow(c) == customers[c] # NoRow

Waiting(c) == customers[c].status = "waiting_for_approval"

Review(c, status, a) == customers' = [customers EXCEPT ![c].status = status,
                                                        ![c].account = a]

(* AccountOpened and the row, in one transaction. *)
Open(c, a) ==
    /\ opened' = [opened EXCEPT ![a] = c]
    /\ Review(c, "approved", a)

(* Every attempt draws an account id of its own.  A lost attempt changes   *)
(* nothing; an unacknowledged one leaves the same state as an acknowledged *)
(* one, and the administrator may try again.                               *)
ApproveApplication(c, a) ==
    /\ Waiting(c)
    /\ opened[a] = Nobody
    /\ Open(c, a)
    /\ UNCHANGED <<objects, submission, accepted, faults>>

RejectApplication(c) ==
    /\ Waiting(c)
    /\ Review(c, "rejected", Nobody)
    /\ UNCHANGED <<objects, opened, submission, accepted, faults>>

-----------------------------------------------------------------------------

Submission(c) == PutObject(c) \/ InsertCustomer(c) \/ DeleteObject(c)

Next ==
    \E c \in CustomerIDs :
        \/ Submission(c)
        \/ Crash(c)
        \/ \E a \in AccountIDs : ApproveApplication(c, a)
        \/ RejectApplication(c)

Spec == Init /\ [][Next]_vars

-----------------------------------------------------------------------------
(* Properties *)

Stored == {c \in CustomerIDs : customers[c] # NoRow}

TypeOK ==
    /\ customers \in [CustomerIDs -> {NoRow} \cup
          [status : {"waiting_for_approval", "approved", "rejected"},
           identity : Identities, account : AccountIDs \cup {Nobody}]]
    /\ objects \subseteq CustomerIDs
    /\ opened \in [AccountIDs -> CustomerIDs \cup {Nobody}]
    /\ submission \in [CustomerIDs -> [at : {"new", "ended"}] \cup
          [at : {"stored", "cleanup", "ended"}, identity : Identities]]
    /\ accepted \subseteq CustomerIDs
    /\ faults \in 0..MaxFaults

(* One person, one customer: no two rows share an email or a document,     *)
(* however submissions race (customers_email_unique,                       *)
(* customers_document_unique, memory_store.go CreateCustomerApplication).  *)
OnePersonOneRow ==
    \A c, d \in Stored :
        c # d => /\ customers[c].identity.email # customers[d].identity.email
                 /\ customers[c].identity.document # customers[d].identity.document

(* An approved customer has exactly the one account its row names, and     *)
(* nobody else has one: approvals that race, are repeated after a lost     *)
(* answer, or meet a rejection open no second account.                     *)
OneAccountPerApproval ==
    \A c \in CustomerIDs :
        {a \in AccountIDs : opened[a] = c} =
            IF customers[c].status = "approved" THEN {customers[c].account} ELSE {}

(* An application that was accepted keeps its row and its passport image,  *)
(* whatever fails around it and however it is reviewed: the clean-up of    *)
(* failed submissions never touches it (CreateCustomerApplication).        *)
AcceptedIsComplete == accepted \subseteq Stored \cap objects

(* The reviewer of an application can see the passport image it was made   *)
(* with (GetPassportImage reads the object the row names).                 *)
ImageOfEveryRow == Stored \subseteq objects
=============================================================================
