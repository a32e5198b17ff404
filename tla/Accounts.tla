------------------------------ MODULE Accounts ------------------------------
(***************************************************************************)
(* Accounts, invitations, activations and refresh sessions of the api: the *)
(* handlers of auth/, each a few statements with an await between them, on *)
(* four tables.  NODE_ENV is production and DEMO_MODE off, so an account   *)
(* that registers has to be activated, and a deletion keeps its row; the   *)
(* hard deletion of a guest is in GuestAdmission.                          *)
(*                                                                         *)
(* A row is named after the request that inserted it, and so is a token:   *)
(* both are drawn at random by that request.  What is left of a handler    *)
(* when a statement throws, a password, a token's age or an argument is    *)
(* refused, or the process dies, is one action (GiveUp).                   *)
(*                                                                         *)
(* A definition marked "Seeded fault" is a plausible bug in the code of    *)
(* the definition below it and not part of the specification.              *)
(***************************************************************************)

CONSTANTS
  Requests,  \* requests, each sent at most once
  KindOf,    \* the use case each is for
  Emails,
  EmailOf,   \* the address in its body
  Installer, \* the request that installs the first admin, or did before
  Loads,     \* bound: the sets of requests that come in one behaviour
  None

Kinds == {"bootstrap", "invite", "resend", "revoke", "accept", "register", "activate", "remind",
          "delete", "reactivate", "login", "refresh", "logout", "email"}

ASSUME AccountsAssumption ==
  /\ KindOf \in [Requests -> Kinds]
  /\ EmailOf \in [Requests -> Emails]
  /\ Installer \in Requests /\ KindOf[Installer] = "bootstrap"
  /\ Loads \subseteq SUBSET Requests
  /\ None \notin Requests

VARIABLES
  load,       \* bound: the requests that come
  pc,         \* the await a request is at
  row,        \* the row or token its reads have chosen
  owner,      \* the user of that row, for a session
  user,       \* table User, without passwords
  invitation, \* table Invitation
  activation, \* table AccountActivation: the token of each user's row
  session,    \* table RefreshSession: its user, and the login it descends from
  known       \* tokens that were mailed or answered

tables == <<user, invitation, activation, session>>
vars == <<load, pc, row, owner, tables, known>>

Stages == {"idle", "pending", "create", "mail", "rotate", "revoke", "join", "collide",
           "verify", "row", "tx", "reactivate", "sign", "owner", "drop", "taken",
           "write", "end"}

User == [email : Emails, active : BOOLEAN, verified : BOOLEAN]
Invitation == [status : {"pending", "accepted", "revoked"}, token : Requests]
Session == [user : Requests, login : Requests]
ASSUME NoneAssumption == None \notin User \cup Invitation \cup Session

TypeOK ==
  /\ load \in Loads
  /\ pc \in [Requests -> Stages]
  /\ row \in [Requests -> Requests \cup {None}]
  /\ owner \in [Requests -> Requests \cup {None}]
  /\ user \in [Requests -> User \cup {None}]
  /\ invitation \in [Requests -> Invitation \cup {None}]
  /\ activation \in [Requests -> Requests \cup {None}]
  /\ session \in [Requests -> Session \cup {None}]
  /\ known \subseteq Requests

Verified(q) == [email |-> EmailOf[q], active |-> TRUE, verified |-> TRUE]

Init ==
  /\ load \in Loads
  /\ pc = [q \in Requests |-> "idle"]
  /\ row = [q \in Requests |-> None]
  /\ owner = [q \in Requests |-> None]
  /\ user = [q \in Requests |-> IF q = Installer /\ q \notin load THEN Verified(q) ELSE None]
  /\ invitation = [q \in Requests |-> None]
  /\ activation = [q \in Requests |-> None]
  /\ session = [q \in Requests |-> None]
  /\ known = {}

-----------------------------------------------------------------------------
(* Reads *)

Taken(e) == \E u \in Requests : user[u] # None /\ user[u].email = e
IsPending(i) == invitation[i] # None /\ invitation[i].status = "pending"
PendingFor(e) == {i \in Requests : IsPending(i) /\ EmailOf[i] = e}

IsAdmin(u) == user[u] # None /\ KindOf[u] = "bootstrap"
HasAdmin == \E u \in Requests : IsAdmin(u)

Begins(q, kind) == pc[q] = "idle" /\ q \in load /\ KindOf[q] = kind
AdminBegins(q, kind) == Begins(q, kind) /\ HasAdmin
At(q, kind, stage) == pc[q] = stage /\ KindOf[q] = kind

Goto(q, stage) == pc' = [pc EXCEPT ![q] = stage]
End(q) == Goto(q, "end")
Chooses(q, r, stage) == row' = [row EXCEPT ![q] = r] /\ Goto(q, stage)

reads == <<load, owner, tables, known>>  \* unchanged by a read that chooses a row

-----------------------------------------------------------------------------
(* The first admin *)

BootstrapCounts(q) ==
  /\ Begins(q, "bootstrap")
  /\ IF HasAdmin THEN End(q) ELSE Goto(q, "create")
  /\ UNCHANGED <<row, reads>>

\* createAdminIfNone: the admins are counted again in the transaction.
BootstrapCreates(q) ==
  /\ At(q, "bootstrap", "create")
  /\ IF HasAdmin \/ Taken(EmailOf[q])
       THEN End(q) /\ UNCHANGED <<row, user>>
       ELSE user' = [user EXCEPT ![q] = Verified(q)] /\ Chooses(q, q, "sign")
  /\ UNCHANGED <<load, owner, invitation, activation, session, known>>

-----------------------------------------------------------------------------
(* Invitations: invite, resend, revoke, accept *)

InviteFindsUser(q) ==
  /\ AdminBegins(q, "invite")
  /\ IF Taken(EmailOf[q]) THEN End(q) ELSE Goto(q, "pending")
  /\ UNCHANGED <<row, reads>>

InviteFindsPending(q) ==
  /\ At(q, "invite", "pending")
  /\ IF PendingFor(EmailOf[q]) # {} THEN End(q) ELSE Goto(q, "create")
  /\ UNCHANGED <<row, reads>>

\* The index on pending addresses refuses what came in between.
InviteCreates(q) ==
  /\ At(q, "invite", "create")
  /\ IF PendingFor(EmailOf[q]) # {}
       THEN End(q) /\ UNCHANGED invitation
       ELSE /\ invitation' = [invitation EXCEPT ![q] = [status |-> "pending", token |-> q]]
            /\ Goto(q, "mail")
  /\ UNCHANGED <<load, row, owner, user, activation, session, known>>

\* The link of an invitation or of an activation leaves.
Mail(q) ==
  /\ pc[q] = "mail"
  /\ known' = known \cup {q}
  /\ End(q)
  /\ UNCHANGED <<load, row, owner, tables>>

ResendFinds(q) ==
  /\ AdminBegins(q, "resend")
  /\ \E i \in Requests : IsPending(i) /\ Chooses(q, i, "rotate")
  /\ UNCHANGED reads

\* By id, whatever has become of the invitation.
ResendRotates(q) ==
  /\ At(q, "resend", "rotate")
  /\ invitation' = [invitation EXCEPT ![row[q]].token = q]
  /\ Goto(q, "mail")
  /\ UNCHANGED <<load, row, owner, user, activation, session, known>>

RevokeFinds(q) ==
  /\ AdminBegins(q, "revoke")
  /\ \E i \in Requests : IsPending(i) /\ Chooses(q, i, "revoke")
  /\ UNCHANGED reads

\* InvitationRepository.revoke, for the administrator and for a registration.
Revokes(q) ==
  /\ pc[q] = "revoke"
  /\ invitation' = [invitation EXCEPT ![row[q]].status = "revoked"]
  /\ Goto(q, IF KindOf[q] = "register" THEN "join" ELSE "end")
  /\ UNCHANGED <<load, row, owner, user, activation, session, known>>

AcceptFinds(q) ==
  /\ Begins(q, "accept")
  /\ \E i \in Requests :
       IsPending(i) /\ invitation[i].token \in known /\ Chooses(q, i, "join")
  /\ UNCHANGED reads

\* One transaction, which looks at the address and not at the status.
AcceptJoins(q) ==
  /\ At(q, "accept", "join")
  /\ LET e == EmailOf[row[q]]
     IN IF Taken(e)
          THEN Goto(q, "collide") /\ UNCHANGED <<user, invitation>>
          ELSE /\ user' = [user EXCEPT
                     ![q] = [email |-> e, active |-> TRUE, verified |-> TRUE]]
               /\ invitation' = [invitation EXCEPT ![row[q]].status = "accepted"]
               /\ End(q)
  /\ UNCHANGED <<load, row, owner, activation, session, known>>

\* Seeded fault: the loser of a collision revokes what the winner accepted.
AcceptCollidesAnyway(q) ==
  /\ At(q, "accept", "collide")
  /\ invitation' = [invitation EXCEPT ![row[q]].status = "revoked"]
  /\ End(q)
  /\ UNCHANGED <<load, row, owner, user, activation, session, known>>
AcceptCollides(q) ==
  /\ At(q, "accept", "collide")
  /\ invitation' = IF IsPending(row[q])
                     THEN [invitation EXCEPT ![row[q]].status = "revoked"] ELSE invitation
  /\ End(q)
  /\ UNCHANGED <<load, row, owner, user, activation, session, known>>

-----------------------------------------------------------------------------
(* Registration and activation *)

RegisterFindsUser(q) ==
  /\ Begins(q, "register")
  /\ IF Taken(EmailOf[q]) THEN End(q) ELSE Goto(q, "pending")
  /\ UNCHANGED <<row, reads>>

RegisterFindsPending(q) ==
  /\ At(q, "register", "pending")
  /\ IF PendingFor(EmailOf[q]) = {}
       THEN Goto(q, "join") /\ UNCHANGED row
       ELSE \E i \in PendingFor(EmailOf[q]) : Chooses(q, i, "revoke")
  /\ UNCHANGED reads

\* createPendingUser; the address may have been taken since.
RegisterJoins(q) ==
  /\ At(q, "register", "join")
  /\ IF Taken(EmailOf[q])
       THEN End(q) /\ UNCHANGED <<user, activation>>
       ELSE /\ user' = [user EXCEPT
                  ![q] = [email |-> EmailOf[q], active |-> TRUE, verified |-> FALSE]]
            /\ activation' = [activation EXCEPT ![q] = q]
            /\ Goto(q, "mail")
  /\ UNCHANGED <<load, row, owner, invitation, session, known>>

ActivateFinds(q) ==
  /\ Begins(q, "activate")
  /\ \E u \in Requests :
       activation[u] # None /\ activation[u] \in known /\ Chooses(q, u, "verify")
  /\ UNCHANGED reads

\* consumeAndVerify, by the user's id
ActivateVerifies(q) ==
  /\ At(q, "activate", "verify")
  /\ user' = [user EXCEPT ![row[q]].verified = TRUE]
  /\ activation' = [activation EXCEPT ![row[q]] = None]
  /\ End(q)
  /\ UNCHANGED <<load, row, owner, invitation, session, known>>

\* resend-activation
RemindFinds(q) ==
  /\ Begins(q, "remind")
  /\ \E u \in Requests :
       /\ user[u] # None /\ user[u].email = EmailOf[q]
       /\ user[u].active /\ ~user[u].verified
       /\ Chooses(q, u, "row")
  /\ UNCHANGED reads

RemindFindsRow(q) ==
  /\ At(q, "remind", "row")
  /\ IF activation[row[q]] = None THEN End(q) ELSE Goto(q, "rotate")
  /\ UNCHANGED <<row, reads>>

\* Seeded fault: the token is put in with an upsert.
RemindUpserts(q) ==
  /\ At(q, "remind", "rotate")
  /\ activation' = [activation EXCEPT ![row[q]] = q]
  /\ Goto(q, "mail")
  /\ UNCHANGED <<load, row, owner, user, invitation, session, known>>

\* The update finds no row if the account was activated or deleted meanwhile.
RemindRotates(q) ==
  /\ At(q, "remind", "rotate")
  /\ IF activation[row[q]] = None
       THEN End(q) /\ UNCHANGED activation
       ELSE activation' = [activation EXCEPT ![row[q]] = q] /\ Goto(q, "mail")
  /\ UNCHANGED <<load, row, owner, user, invitation, session, known>>

-----------------------------------------------------------------------------
(* Deletion, reactivation, change of address *)

DeleteFinds(q) ==
  /\ AdminBegins(q, "delete")
  /\ \E u \in Requests : user[u] # None /\ ~IsAdmin(u) /\ Chooses(q, u, "tx")
  /\ UNCHANGED reads

\* Seeded fault: the sessions of the account stay.
DeleteKeepsSessions(q) ==
  /\ At(q, "delete", "tx")
  /\ user' = [user EXCEPT ![row[q]].active = FALSE]
  /\ activation' = [activation EXCEPT ![row[q]] = None]
  /\ End(q)
  /\ UNCHANGED <<load, row, owner, invitation, session, known>>
\* softDeleteUser: one transaction
Deletes(q) ==
  /\ At(q, "delete", "tx")
  /\ user' = [user EXCEPT ![row[q]].active = FALSE]
  /\ session' = [t \in Requests |->
                   IF session[t] # None /\ session[t].user = row[q] THEN None ELSE session[t]]
  /\ activation' = [activation EXCEPT ![row[q]] = None]
  /\ End(q)
  /\ UNCHANGED <<load, row, owner, invitation, known>>

ReactivateFinds(q) ==
  /\ AdminBegins(q, "reactivate")
  /\ \E u \in Requests :
       /\ user[u] # None /\ ~IsAdmin(u)
       /\ Chooses(q, u, IF user[u].active THEN "end" ELSE "reactivate")
  /\ UNCHANGED reads

Reactivates(q) ==
  /\ At(q, "reactivate", "reactivate")
  /\ user' = [user EXCEPT ![row[q]].active = TRUE]
  /\ End(q)
  /\ UNCHANGED <<load, row, owner, invitation, activation, session, known>>

\* The caller has a session or had one: the access token outlives it.
EmailFinds(q) ==
  /\ Begins(q, "email")
  /\ \E u \in Requests :
       /\ user[u] # None /\ user[u].active /\ user[u].verified
       /\ Chooses(q, u, IF user[u].email = EmailOf[q] THEN "end" ELSE "taken")
  /\ UNCHANGED reads

EmailFindsTaken(q) ==
  /\ At(q, "email", "taken")
  /\ IF Taken(EmailOf[q]) THEN End(q) ELSE Goto(q, "write")
  /\ UNCHANGED <<row, reads>>

\* updateEmail: the unique index decides.
EmailWrites(q) ==
  /\ At(q, "email", "write")
  /\ user' = IF Taken(EmailOf[q]) THEN user
                                  ELSE [user EXCEPT ![row[q]].email = EmailOf[q]]
  /\ End(q)
  /\ UNCHANGED <<load, row, owner, invitation, activation, session, known>>

-----------------------------------------------------------------------------
(* Sessions *)

LoginFinds(q) ==
  /\ Begins(q, "login")
  /\ \E u \in Requests :
       /\ user[u] # None /\ user[u].email = EmailOf[q]
       /\ user[u].active /\ user[u].verified
       /\ Chooses(q, u, "sign")
  /\ UNCHANGED reads

\* The password was compared and the token signed: the account is not read again.
LoginCreates(q) ==
  /\ pc[q] = "sign"  \* of a login, or of a bootstrap
  /\ session' = [session EXCEPT ![q] = [user |-> row[q], login |-> q]]
  /\ known' = known \cup {q}
  /\ End(q)
  /\ UNCHANGED <<load, row, owner, user, invitation, activation>>

RefreshFinds(q) ==
  /\ Begins(q, "refresh")
  /\ \E t \in known :
       /\ session[t] # None
       /\ owner' = [owner EXCEPT ![q] = session[t].user]
       /\ Chooses(q, t, "owner")
  /\ UNCHANGED <<load, tables, known>>

RefreshFindsOwner(q) ==
  /\ At(q, "refresh", "owner")
  /\ IF user[owner[q]].active THEN Goto(q, "rotate") ELSE End(q)
  /\ UNCHANGED <<row, reads>>

\* Seeded fault: a new session although the old one is gone.
RefreshRotatesAnyway(q) ==
  /\ At(q, "refresh", "rotate")
  /\ session' = [session EXCEPT ![row[q]] = None,
                                ![q] = [user |-> owner[q],
                                        login |-> IF session[row[q]] = None THEN row[q]
                                                  ELSE session[row[q]].login]]
  /\ known' = known \cup {q}
  /\ End(q)
  /\ UNCHANGED <<load, row, owner, user, invitation, activation>>
\* One transaction: only who deletes the old session inserts the new one.
RefreshRotates(q) ==
  /\ At(q, "refresh", "rotate")
  /\ End(q)
  /\ IF session[row[q]] = None
       THEN UNCHANGED <<session, known>>
       ELSE /\ session' = [session EXCEPT ![row[q]] = None,
                                          ![q] = [user |-> owner[q],
                                                  login |-> session[row[q]].login]]
            /\ known' = known \cup {q}
  /\ UNCHANGED <<load, row, owner, user, invitation, activation>>

\* With its cookie, or without one: then every session of the user goes.
LogoutFinds(q) ==
  /\ Begins(q, "logout")
  /\ \/ \E t \in known : /\ session[t] # None
                         /\ Chooses(q, t, "drop")
                         /\ UNCHANGED session
     \/ \E u \in Requests :
          /\ user[u] # None
          /\ session' = [t \in Requests |->
               IF session[t] # None /\ session[t].user = u THEN None ELSE session[t]]
          /\ End(q) /\ UNCHANGED row
  /\ UNCHANGED <<load, owner, user, invitation, activation, known>>

LogoutDrops(q) ==
  /\ At(q, "logout", "drop")
  /\ session' = [session EXCEPT ![row[q]] = None]
  /\ End(q)
  /\ UNCHANGED <<load, row, owner, user, invitation, activation, known>>

-----------------------------------------------------------------------------

GiveUp(q) ==
  /\ pc[q] \notin {"idle", "end"}
  /\ End(q)
  /\ UNCHANGED <<row, reads>>

Installing(q) == BootstrapCounts(q) \/ BootstrapCreates(q)

Inviting(q) ==
  \/ InviteFindsUser(q) \/ InviteFindsPending(q) \/ InviteCreates(q)
  \/ ResendFinds(q) \/ ResendRotates(q) \/ RevokeFinds(q) \/ Revokes(q)
  \/ AcceptFinds(q) \/ AcceptJoins(q) \/ AcceptCollides(q)

Registering(q) ==
  \/ RegisterFindsUser(q) \/ RegisterFindsPending(q) \/ RegisterJoins(q)
  \/ ActivateFinds(q) \/ ActivateVerifies(q)
  \/ RemindFinds(q) \/ RemindFindsRow(q) \/ RemindRotates(q) \/ Mail(q)

Changing(q) ==
  \/ DeleteFinds(q) \/ Deletes(q) \/ ReactivateFinds(q) \/ Reactivates(q)
  \/ EmailFinds(q) \/ EmailFindsTaken(q) \/ EmailWrites(q)

Signing(q) ==
  \/ LoginFinds(q) \/ LoginCreates(q)
  \/ RefreshFinds(q) \/ RefreshFindsOwner(q) \/ RefreshRotates(q)
  \/ LogoutFinds(q) \/ LogoutDrops(q)

Next == \E q \in Requests :
  Installing(q) \/ Inviting(q) \/ Registering(q) \/ Changing(q) \/ Signing(q) \/ GiveUp(q)

Spec == Init /\ [][Next]_vars

-----------------------------------------------------------------------------
(* Properties *)

\* A login has one live refresh token, however many refreshes race with it: two
\* requests with the same token cannot both get a successor
\* (prisma-refresh-session.adapter.ts:72).
OneTokenPerLogin ==
  \A s, t \in Requests :
    /\ session[s] # None /\ session[t] # None
    /\ session[s].login = session[t].login
    => s = t

\* A refresh reads the account two awaits before it rotates; should the account
\* be deleted in between, the rotation finds nothing (delete-user.use-case.ts:45).
RotatesOnlyActive ==
  [][\A q \in Requests :
       /\ KindOf[q] = "refresh"
       /\ session[q] = None /\ session'[q] # None
       => user[session'[q].user].active]_vars

\* The link of an activation dies with the activation: a reminder that raced with
\* it does not bring a token back (prisma-account-activation.adapter.ts:127).
ActivationMeansUnverified ==
  \A u \in Requests : activation[u] # None => user[u] # None /\ ~user[u].verified

\* An invitation that was accepted stays so, unless a handler revokes it that had
\* found it pending before: the loser of two acceptances does not
\* (prisma-invitation.adapter.ts:212).
AcceptedLostOnlyToStaleReader ==
  [][\A i \in Requests :
       /\ invitation[i] # None /\ invitation[i].status = "accepted"
       /\ invitation'[i].status # "accepted"
       => \E q \in Requests : row[q] = i /\ pc[q] = "revoke"]_vars
=============================================================================
