--------------------------- MODULE AccountsProofs ---------------------------
(***************************************************************************)
(* What holds of the accounts and sessions for every set of requests.      *)
(*                                                                         *)
(* RowInv says what a handler may rely on between two awaits: the row it   *)
(* has chosen is still there, and a refresh that is about to rotate either *)
(* finds its session gone or has an active owner.  TableInv ties the       *)
(* tables to each other and a row to the request that inserted it.  The    *)
(* lemmas on the user table say what an EXCEPT of one field keeps; each    *)
(* part of the invariant is then kept by every statement of every handler. *)
(***************************************************************************)
EXTENDS Accounts, TLAPS

\* What a handler has chosen is what it still can rely on.
RowInv == \A q \in Requests :
  /\ \/ pc[q] \in {"revoke", "collide"}
     \/ At(q, "resend", "rotate") \/ At(q, "accept", "join")
     => row[q] \in Requests /\ invitation[row[q]] # None
  /\ \/ pc[q] \in {"verify", "row", "tx", "reactivate", "taken", "write", "sign"}
     \/ At(q, "remind", "rotate")
     => row[q] \in Requests /\ user[row[q]] # None
  /\ pc[q] = "sign" => KindOf[q] \in {"login", "bootstrap"}
  /\ At(q, "refresh", "owner") \/ At(q, "refresh", "rotate")
     => /\ row[q] \in Requests /\ pc[row[q]] = "end"
        /\ owner[q] \in Requests /\ user[owner[q]] # None
        /\ session[row[q]] # None
           => /\ session[row[q]].user = owner[q]
              /\ pc[q] = "rotate" => user[owner[q]].active
  /\ At(q, "logout", "drop") => row[q] \in Requests

\* A session was inserted by a request that has ended, an activation by the
\* registration of a user not yet verified, an invitation by its invite.
TableInv == \A r \in Requests :
  /\ session[r] # None => /\ pc[r] = "end" /\ pc[session[r].login] = "end"
                          /\ user[session[r].user] # None
  /\ activation[r] # None => KindOf[r] = "register" /\ user[r] # None /\ ~user[r].verified
  /\ invitation[r] # None => KindOf[r] = "invite" /\ pc[r] \in {"mail", "end"}
  /\ r \in known => pc[r] = "end"

Steps(q) ==
  Installing(q) \/ Inviting(q) \/ Registering(q) \/ Changing(q) \/ Signing(q) \/ GiveUp(q)

-----------------------------------------------------------------------------
(* The user table *)

Users == [Requests -> User \cup {None}]

LEMMA NewUsers ==
  ASSUME NEW q \in Requests, NEW e \in Emails, NEW b \in BOOLEAN
  PROVE  /\ Verified(q) \in User /\ Verified(q).active
         /\ [email |-> e, active |-> TRUE, verified |-> b] \in User
BY AccountsAssumption DEF Verified, User

LEMMA ChangedUsers ==
  ASSUME NEW w \in User
  PROVE  /\ \A b \in BOOLEAN :
              /\ [w EXCEPT !.active = b] \in User
              /\ [w EXCEPT !.active = b].active = b
              /\ [w EXCEPT !.active = b].verified = w.verified
         /\ \A b \in BOOLEAN :
              /\ [w EXCEPT !.verified = b] \in User
              /\ [w EXCEPT !.verified = b].active = w.active
         /\ \A e \in Emails :
              /\ [w EXCEPT !.email = e] \in User
              /\ [w EXCEPT !.email = e].active = w.active
              /\ [w EXCEPT !.email = e].verified = w.verified
BY DEF User

LEMMA UserTable ==
  ASSUME NEW f \in Users, NEW r \in Requests, NEW w \in User
  PROVE  /\ [f EXCEPT ![r] = w] \in Users
         /\ \A u \in Requests : f[u] # None => [f EXCEPT ![r] = w][u] # None
         /\ \A u \in Requests : u # r => [f EXCEPT ![r] = w][u] = f[u]
         /\ [f EXCEPT ![r] = w][r] = w
BY NoneAssumption DEF Users

\* What an update of one row leaves as it was.
Kept(q) ==
  /\ user' \in Users
  /\ \A u \in Requests : user[u] # None => user'[u] # None
  /\ \A u \in Requests : u # row[q] => user'[u] = user[u]
KeptActive(q) == user[row[q]].active => user'[row[q]].active
KeptVerified(q) == ~user[row[q]].verified => ~user'[row[q]].verified

LEMMA ActiveSet ==
  ASSUME TypeOK, NEW q \in Requests, row[q] \in Requests, user[row[q]] # None,
         NEW b \in BOOLEAN, user' = [user EXCEPT ![row[q]].active = b]
  PROVE  Kept(q) /\ KeptVerified(q) /\ user'[row[q]].active = b
<1> DEFINE w == user[row[q]]
<1>1. user \in Users BY DEF TypeOK, Users
<1>2. w \in User BY <1>1 DEF Users
<1> DEFINE n == [w EXCEPT !.active = b]
<1>3. user' = [user EXCEPT ![row[q]] = n] BY Zenon
<1> HIDE DEF w
<1>4. n \in User /\ n.active = b /\ n.verified = w.verified
  <2>1. [w EXCEPT !.active = b] \in User /\ [w EXCEPT !.active = b].active = b
    BY <1>2, ChangedUsers
  <2>2. [w EXCEPT !.active = b].verified = w.verified BY <1>2, ChangedUsers
  <2>3. QED BY <2>1, <2>2
<1> HIDE DEF n
<1>5. /\ user' \in Users
      /\ \A u \in Requests : user[u] # None => user'[u] # None
      /\ \A u \in Requests : u # row[q] => user'[u] = user[u]
      /\ user'[row[q]] = n
  BY <1>1, <1>3, <1>4, UserTable DEF Users
<1>6. QED BY <1>4, <1>5 DEF Kept, KeptVerified, w

LEMMA VerifiedSet ==
  ASSUME TypeOK, NEW q \in Requests, row[q] \in Requests, user[row[q]] # None,
         NEW b \in BOOLEAN, user' = [user EXCEPT ![row[q]].verified = b]
  PROVE  Kept(q) /\ KeptActive(q)
<1> DEFINE w == user[row[q]]
<1>1. user \in Users BY DEF TypeOK, Users
<1>2. w \in User BY <1>1 DEF Users
<1> DEFINE n == [w EXCEPT !.verified = b]
<1>3. user' = [user EXCEPT ![row[q]] = n] BY Zenon
<1> HIDE DEF w
<1>4. n \in User /\ n.active = w.active BY <1>2, ChangedUsers, Zenon
<1> HIDE DEF n
<1>5. /\ user' \in Users
      /\ \A u \in Requests : user[u] # None => user'[u] # None
      /\ \A u \in Requests : u # row[q] => user'[u] = user[u]
      /\ user'[row[q]] = n
  BY <1>1, <1>3, <1>4, UserTable DEF Users
<1>6. QED BY <1>4, <1>5 DEF Kept, KeptActive, w

LEMMA EmailSet ==
  ASSUME TypeOK, NEW q \in Requests, row[q] \in Requests, user[row[q]] # None,
         NEW e \in Emails, user' = [user EXCEPT ![row[q]].email = e]
  PROVE  Kept(q) /\ KeptActive(q) /\ KeptVerified(q)
<1> DEFINE w == user[row[q]]
<1>1. user \in Users BY DEF TypeOK, Users
<1>2. w \in User BY <1>1 DEF Users
<1> DEFINE n == [w EXCEPT !.email = e]
<1>3. user' = [user EXCEPT ![row[q]] = n] BY Zenon
<1> HIDE DEF w
<1>4. n \in User /\ n.active = w.active /\ n.verified = w.verified BY <1>2, ChangedUsers, Zenon
<1> HIDE DEF n
<1>5. /\ user' \in Users
      /\ \A u \in Requests : user[u] # None => user'[u] # None
      /\ \A u \in Requests : u # row[q] => user'[u] = user[u]
      /\ user'[row[q]] = n
  BY <1>1, <1>3, <1>4, UserTable DEF Users
<1>6. QED BY <1>4, <1>5 DEF Kept, KeptActive, KeptVerified, w

\* A new row is the request's own; no other row changes.
Added(q) ==
  /\ user' \in Users
  /\ \A u \in Requests : user[u] # None => user'[u] # None
  /\ \A u \in Requests : u # q => user'[u] = user[u]
  /\ user'[q] # None /\ user'[q].active

LEMMA VerifiedAdded ==
  ASSUME TypeOK, NEW q \in Requests, user' = [user EXCEPT ![q] = Verified(q)]
  PROVE  Added(q)
<1>1. user \in Users BY DEF TypeOK, Users
<1>2. Verified(q) \in User /\ Verified(q).active BY AccountsAssumption DEF Verified, User
<1>3. /\ user' \in Users
      /\ \A u \in Requests : user[u] # None => user'[u] # None
      /\ \A u \in Requests : u # q => user'[u] = user[u]
      /\ user'[q] = Verified(q)
  BY <1>1, <1>2, UserTable DEF Users
<1>4. QED BY <1>2, <1>3, NoneAssumption DEF Added

LEMMA RowAdded ==
  ASSUME TypeOK, NEW q \in Requests, NEW e \in Emails, NEW b \in BOOLEAN,
         \/ user' = [user EXCEPT ![q] = Verified(q)]
         \/ user' = [user EXCEPT ![q] = [email |-> e, active |-> TRUE, verified |-> b]]
  PROVE  Added(q)
<1>1. user \in Users BY DEF TypeOK, Users
<1>2. CASE user' = [user EXCEPT ![q] = Verified(q)]
  BY <1>2, VerifiedAdded
<1>3. CASE user' = [user EXCEPT ![q] = [email |-> e, active |-> TRUE, verified |-> b]]
  <2> DEFINE w == [email |-> e, active |-> TRUE, verified |-> b]
  <2>1. w \in User /\ w.active BY NewUsers
  <2>2. user' = [user EXCEPT ![q] = w] BY <1>3
  <2> HIDE DEF w
  <2>3. /\ user' \in Users
        /\ \A u \in Requests : user[u] # None => user'[u] # None
        /\ \A u \in Requests : u # q => user'[u] = user[u]
        /\ user'[q] = w
    BY <1>1, <2>1, <2>2, UserTable DEF Users
  <2>4. QED BY <2>1, <2>3, NoneAssumption DEF Added
<1>4. QED BY <1>2, <1>3

LEMMA Inserted ==
  ASSUME TypeOK, RowInv, NEW q \in Requests,
         BootstrapCreates(q) \/ AcceptJoins(q) \/ RegisterJoins(q)
  PROVE  Added(q) \/ user' = user
<1>1. \A r \in Requests : EmailOf[r] \in Emails BY AccountsAssumption
<1>2. CASE BootstrapCreates(q)
  <2>1. user' = [user EXCEPT ![q] = Verified(q)] \/ user' = user
    BY <1>2 DEF BootstrapCreates
  <2>2. QED BY <1>1, <2>1, RowAdded
<1>3. CASE AcceptJoins(q)
  <2>1. row[q] \in Requests BY <1>3 DEF RowInv, AcceptJoins, At
  <2>2. \/ user' = user
        \/ user' = [user EXCEPT
                      ![q] = [email |-> EmailOf[row[q]], active |-> TRUE, verified |-> TRUE]]
    BY <1>3 DEF AcceptJoins
  <2>3. QED BY <1>1, <2>1, <2>2, RowAdded
<1>4. CASE RegisterJoins(q)
  <2>1. \/ user' = user
        \/ user' = [user EXCEPT
                      ![q] = [email |-> EmailOf[q], active |-> TRUE, verified |-> FALSE]]
    BY <1>4 DEF RegisterJoins
  <2>2. QED BY <1>1, <2>1, RowAdded
<1>5. QED BY <1>2, <1>3, <1>4

LEMMA Updated ==
  ASSUME TypeOK, RowInv, NEW q \in Requests
  PROVE  /\ ActivateVerifies(q) => Kept(q) /\ KeptActive(q)
         /\ Reactivates(q) => Kept(q) /\ KeptActive(q) /\ KeptVerified(q)
         /\ EmailWrites(q) => \/ user' = user
                              \/ (Kept(q) /\ KeptActive(q) /\ KeptVerified(q))
         /\ Deletes(q) => Kept(q) /\ KeptVerified(q)
<1>1. ASSUME pc[q] \in {"verify", "tx", "reactivate", "write"}
      PROVE  row[q] \in Requests /\ user[row[q]] # None
  BY <1>1 DEF RowInv
<1>2. ASSUME ActivateVerifies(q) PROVE Kept(q) /\ KeptActive(q)
  <2>1. pc[q] = "verify" /\ user' = [user EXCEPT ![row[q]].verified = TRUE]
    BY <1>2 DEF ActivateVerifies, At
  <2>2. QED BY <1>1, <2>1, VerifiedSet
<1>3. ASSUME Reactivates(q) PROVE Kept(q) /\ KeptActive(q) /\ KeptVerified(q)
  <2>1. pc[q] = "reactivate" /\ user' = [user EXCEPT ![row[q]].active = TRUE]
    BY <1>3 DEF Reactivates, At
  <2>2. QED BY <1>1, <2>1, ActiveSet DEF KeptActive
<1>4. ASSUME EmailWrites(q)
      PROVE user' = user \/ (Kept(q) /\ KeptActive(q) /\ KeptVerified(q))
  <2> DEFINE f == [user EXCEPT ![row[q]].email = EmailOf[q]]
  <2>1. pc[q] = "write" BY <1>4 DEF EmailWrites, At
  <2>2. user' = user \/ user' = f BY <1>4 DEF EmailWrites
  <2>3. EmailOf[q] \in Emails BY AccountsAssumption
  <2>4. CASE user' = f
    BY <1>1, <2>1, <2>3, <2>4, EmailSet, Zenon
  <2> HIDE DEF f
  <2>5. QED BY <2>2, <2>4
<1>5. ASSUME Deletes(q) PROVE Kept(q) /\ KeptVerified(q)
  <2>1. pc[q] = "tx" /\ user' = [user EXCEPT ![row[q]].active = FALSE]
    BY <1>5 DEF Deletes, At
  <2>2. QED BY <1>1, <2>1, ActiveSet
<1>6. QED BY <1>2, <1>3, <1>4, <1>5

LEMMA TypeStep ==
  ASSUME TypeOK, RowInv, NEW q \in Requests, Steps(q)
  PROVE  TypeOK'
<1> USE AccountsAssumption, NoneAssumption DEF TypeOK, RowInv, At, User, Invitation, Session, Stages
<1>1. ASSUME BootstrapCounts(q) PROVE TypeOK'
  BY <1>1 DEF BootstrapCounts, Begins, HasAdmin, End, reads, Goto, tables
<1>2. ASSUME BootstrapCreates(q) PROVE TypeOK'
  <2>1. Added(q) \/ user' = user BY <1>2, Inserted
  <2>2. QED BY <1>2, <2>1 DEF BootstrapCreates, Taken, HasAdmin, Chooses, End,
    Verified, Goto, tables, Added, Users
<1>3. ASSUME InviteFindsUser(q) PROVE TypeOK'
  BY <1>3 DEF InviteFindsUser, AdminBegins, Begins, HasAdmin, IsAdmin, Taken,
    End, reads, Goto, tables
<1>4. ASSUME InviteFindsPending(q) PROVE TypeOK'
  BY <1>4 DEF InviteFindsPending, PendingFor, End, reads, IsPending, Goto,
    tables
<1>5. ASSUME InviteCreates(q) PROVE TypeOK'
  <2> DEFINE i == [status |-> "pending", token |-> q]
  <2>1. i \in Invitation OBVIOUS
  <2>2. invitation' = invitation \/ invitation' = [invitation EXCEPT ![q] = i]
    BY <1>5 DEF InviteCreates
  <2> HIDE DEF i
  <2>3. invitation' \in [Requests -> Invitation \cup {None}] BY <2>1, <2>2
  <2>4. QED BY <1>5, <2>3 DEF InviteCreates, End, Goto, tables
<1>6. ASSUME Mail(q) PROVE TypeOK'
  BY <1>6 DEF Mail, End, Goto, tables
<1>7. ASSUME ResendFinds(q) PROVE TypeOK'
  BY <1>7 DEF ResendFinds, AdminBegins, Begins, HasAdmin, IsAdmin, IsPending,
    Chooses, reads, Goto, tables
<1>8. ASSUME ResendRotates(q) PROVE TypeOK'
  BY <1>8 DEF ResendRotates, Goto, tables
<1>9. ASSUME RevokeFinds(q) PROVE TypeOK'
  BY <1>9 DEF RevokeFinds, AdminBegins, Begins, HasAdmin, IsAdmin, IsPending,
    Chooses, reads, Goto, tables
<1>10. ASSUME Revokes(q) PROVE TypeOK'
  BY <1>10 DEF Revokes, Goto, tables
<1>11. ASSUME AcceptFinds(q) PROVE TypeOK'
  BY <1>11 DEF AcceptFinds, Begins, IsPending, Chooses, reads, Goto, tables
<1>12. ASSUME AcceptJoins(q) PROVE TypeOK'
  <2>1. row[q] \in Requests /\ invitation[row[q]] # None /\ pc[q] = "join"
    BY <1>12 DEF AcceptJoins
  <2>2. CASE Taken(EmailOf[row[q]])
    <3>1. /\ pc' = [pc EXCEPT ![q] = "collide"]
          /\ UNCHANGED <<load, row, owner, user, invitation, activation, session, known>>
      BY <1>12, <2>2 DEF AcceptJoins, Goto
    <3>2. QED BY <2>1, <3>1
  <2>3. CASE ~Taken(EmailOf[row[q]])
    <3>1. /\ pc' = [pc EXCEPT ![q] = "end"]
          /\ invitation' = [invitation EXCEPT ![row[q]].status = "accepted"]
          /\ UNCHANGED <<load, row, owner, activation, session, known>>
      BY <1>12, <2>3 DEF AcceptJoins, Goto, End
    <3>2. /\ invitation' \in [Requests -> Invitation \cup {None}]
          /\ \A i \in Requests : invitation[i] # None => invitation'[i] # None
      BY <2>1, <3>1
    <3>3. user' = user \/ Added(q) BY <1>12, Inserted
    <3>4. /\ user' \in Users
          /\ \A u \in Requests : user[u] # None => user'[u] # None
          /\ \A u \in Requests : user[u] # None /\ user[u].active => user'[u].active
      BY <3>3 DEF Added, Users
    <3>5. QED BY <2>1, <3>1, <3>2, <3>4 DEF Users
  <2>4. QED BY <2>2, <2>3
<1>13. ASSUME AcceptCollides(q) PROVE TypeOK'
  BY <1>13 DEF AcceptCollides, IsPending, End, Goto, tables
<1>14. ASSUME RegisterFindsUser(q) PROVE TypeOK'
  BY <1>14 DEF RegisterFindsUser, Begins, Taken, End, reads, Goto, tables
<1>15. ASSUME RegisterFindsPending(q) PROVE TypeOK'
  BY <1>15 DEF RegisterFindsPending, PendingFor, Chooses, reads, IsPending,
    Goto, tables
<1>16. ASSUME RegisterJoins(q) PROVE TypeOK'
  <2>1. Added(q) \/ user' = user BY <1>16, Inserted
  <2>2. QED BY <1>16, <2>1 DEF RegisterJoins, Taken, End, Goto, tables, Added,
    Users
<1>17. ASSUME ActivateFinds(q) PROVE TypeOK'
  BY <1>17 DEF ActivateFinds, Begins, Chooses, reads, Goto, tables
<1>18. ASSUME ActivateVerifies(q) PROVE TypeOK'
  <2>1. Kept(q) /\ KeptActive(q) BY <1>18, Updated, Zenon
  <2>2. QED BY <1>18, <2>1 DEF ActivateVerifies, End, Goto, tables, Kept,
    KeptActive, KeptVerified, Users
<1>19. ASSUME RemindFinds(q) PROVE TypeOK'
  BY <1>19 DEF RemindFinds, Begins, Chooses, reads, Goto, tables
<1>20. ASSUME RemindFindsRow(q) PROVE TypeOK'
  BY <1>20 DEF RemindFindsRow, End, reads, Goto, tables
<1>21. ASSUME RemindRotates(q) PROVE TypeOK'
  BY <1>21, SMTT(20) DEF RemindRotates, End, Goto, tables
<1>22. ASSUME DeleteFinds(q) PROVE TypeOK'
  BY <1>22 DEF DeleteFinds, AdminBegins, Begins, HasAdmin, IsAdmin, Chooses,
    reads, Goto, tables
<1>23. ASSUME Deletes(q) PROVE TypeOK'
  <2>1. Kept(q) /\ KeptVerified(q) BY <1>23, Updated, Zenon
  <2>2. QED BY <1>23, <2>1 DEF Deletes, End, Goto, tables, Kept, KeptActive,
    KeptVerified, Users
<1>24. ASSUME ReactivateFinds(q) PROVE TypeOK'
  BY <1>24 DEF ReactivateFinds, AdminBegins, Begins, HasAdmin, IsAdmin,
    Chooses, reads, Goto, tables
<1>25. ASSUME Reactivates(q) PROVE TypeOK'
  <2>1. Kept(q) /\ KeptActive(q) /\ KeptVerified(q) BY <1>25, Updated, Zenon
  <2>2. QED BY <1>25, <2>1 DEF Reactivates, End, Goto, tables, Kept,
    KeptActive, KeptVerified, Users
<1>26. ASSUME EmailFinds(q) PROVE TypeOK'
  BY <1>26 DEF EmailFinds, Begins, Chooses, reads, Goto, tables
<1>27. ASSUME EmailFindsTaken(q) PROVE TypeOK'
  BY <1>27 DEF EmailFindsTaken, Taken, End, reads, Goto, tables
<1>28. ASSUME EmailWrites(q) PROVE TypeOK'
  <2>1. CASE user' = user
    BY <1>28, <2>1 DEF EmailWrites, End, Goto, tables
  <2>2. CASE Kept(q) /\ KeptActive(q) /\ KeptVerified(q)
    <3>1. /\ pc' = [pc EXCEPT ![q] = "end"] /\ pc[q] = "write"
          /\ UNCHANGED <<load, row, owner, invitation, activation, session, known>>
      BY <1>28 DEF EmailWrites, End, Goto
    <3>2. QED BY <2>2, <3>1 DEF Kept, KeptActive, KeptVerified, Users
  <2>3. QED BY <1>28, <2>1, <2>2, Updated, Zenon
<1>29. ASSUME LoginFinds(q) PROVE TypeOK'
  BY <1>29 DEF LoginFinds, Begins, Chooses, reads, Goto, tables
<1>30. ASSUME LoginCreates(q) PROVE TypeOK'
  BY <1>30 DEF LoginCreates, End, Goto, tables
<1>31. ASSUME RefreshFinds(q) PROVE TypeOK'
  BY <1>31 DEF RefreshFinds, Begins, Chooses, Goto, tables
<1>32. ASSUME RefreshFindsOwner(q) PROVE TypeOK'
  BY <1>32 DEF RefreshFindsOwner, End, reads, Goto, tables
<1>33. ASSUME RefreshRotates(q) PROVE TypeOK'
  BY <1>33 DEF RefreshRotates, End, Goto, tables
<1>34. ASSUME LogoutFinds(q) PROVE TypeOK'
  BY <1>34 DEF LogoutFinds, Begins, Chooses, End, Goto, tables
<1>35. ASSUME LogoutDrops(q) PROVE TypeOK'
  BY <1>35 DEF LogoutDrops, End, Goto, tables
<1>36. ASSUME GiveUp(q) PROVE TypeOK'
  BY <1>36 DEF GiveUp, End, reads, Goto, tables
<1> QED BY <1>1, <1>2, <1>3, <1>4, <1>5, <1>6, <1>7, <1>8, <1>9, <1>10, <1>11,
  <1>12, <1>13, <1>14, <1>15, <1>16, <1>17, <1>18, <1>19, <1>20, <1>21, <1>22,
  <1>23, <1>24, <1>25, <1>26, <1>27, <1>28, <1>29, <1>30, <1>31, <1>32, <1>33,
  <1>34, <1>35, <1>36 DEF Steps, Installing, Inviting, Registering, Changing,
  Signing

\* What the step of an accepting guest whose address is taken does.
LEMMA CollidesDoes ==
  ASSUME NEW q \in Requests, AcceptCollides(q)
  PROVE  /\ pc' = [pc EXCEPT ![q] = "end"] /\ pc[q] = "collide"
         /\ UNCHANGED <<load, row, owner, user, activation, session, known>>
         /\ \/ invitation' = invitation
            \/ invitation' = [invitation EXCEPT ![row[q]].status = "revoked"]
BY DEF AcceptCollides, At, Goto, End

LEMMA RowStep ==
  ASSUME TypeOK, RowInv, TableInv, NEW q \in Requests, Steps(q)
  PROVE  RowInv'
<1>a. ASSUME user' = [user EXCEPT ![q] = Verified(q)] PROVE Added(q)
  BY <1>a, VerifiedAdded
<1>b. ASSUME Kept(q), KeptActive(q)
      PROVE  \A u \in Requests : user[u] # None =>
               user'[u] # None /\ (user[u].active => user'[u].active)
  BY <1>b DEF Kept, KeptActive
<1> USE AccountsAssumption, NoneAssumption DEF TypeOK, RowInv, TableInv, At, User, Invitation, Session
<1>1. ASSUME BootstrapCounts(q) PROVE RowInv'
  BY <1>1 DEF BootstrapCounts, Begins, HasAdmin, End, reads, Goto, tables
<1>2. ASSUME BootstrapCreates(q) PROVE RowInv'
  <2>1. CASE HasAdmin \/ Taken(EmailOf[q])
    <3>1. /\ pc' = [pc EXCEPT ![q] = "end"]
          /\ UNCHANGED <<load, row, owner, user, invitation, activation, session, known>>
      BY <1>2, <2>1 DEF BootstrapCreates, Goto, End
    <3>2. QED BY <3>1
  <2>2. CASE ~(HasAdmin \/ Taken(EmailOf[q]))
    <3>1. /\ pc' = [pc EXCEPT ![q] = "sign"] /\ row' = [row EXCEPT ![q] = q]
          /\ pc[q] = "create" /\ KindOf[q] = "bootstrap"
          /\ user' = [user EXCEPT ![q] = Verified(q)]
          /\ UNCHANGED <<load, owner, invitation, activation, session, known>>
      BY <1>2, <2>2 DEF BootstrapCreates, Goto, Chooses
    <3>2. Added(q) BY <1>a, <3>1
    <3>3. /\ user'[q] # None
          /\ \A u \in Requests : user[u] # None => user'[u] # None
          /\ \A u \in Requests : user[u] # None /\ user[u].active => user'[u].active
      BY <3>2 DEF Added
    <3>4. /\ pc' = [pc EXCEPT ![q] = "sign"] /\ row' = [row EXCEPT ![q] = q]
          /\ UNCHANGED <<load, owner, invitation, activation, session, known>>
      BY <3>1
    <3>5. QED BY <3>1, <3>3, <3>4
  <2>3. QED BY <2>1, <2>2
<1>3. ASSUME InviteFindsUser(q) PROVE RowInv'
  BY <1>3 DEF InviteFindsUser, AdminBegins, Begins, HasAdmin, IsAdmin, Taken,
    End, reads, Goto, tables
<1>4. ASSUME InviteFindsPending(q) PROVE RowInv'
  BY <1>4 DEF InviteFindsPending, PendingFor, End, reads, IsPending, Goto,
    tables
<1>5. ASSUME InviteCreates(q) PROVE RowInv'
  BY <1>5 DEF InviteCreates, PendingFor, End, IsPending, Goto, tables
<1>6. ASSUME Mail(q) PROVE RowInv'
  BY <1>6 DEF Mail, End, Goto, tables
<1>7. ASSUME ResendFinds(q) PROVE RowInv'
  BY <1>7 DEF ResendFinds, AdminBegins, Begins, HasAdmin, IsAdmin, IsPending,
    Chooses, reads, Goto, tables
<1>8. ASSUME ResendRotates(q) PROVE RowInv'
  BY <1>8 DEF ResendRotates, Goto, tables
<1>9. ASSUME RevokeFinds(q) PROVE RowInv'
  BY <1>9 DEF RevokeFinds, AdminBegins, Begins, HasAdmin, IsAdmin, IsPending,
    Chooses, reads, Goto, tables
<1>10. ASSUME Revokes(q) PROVE RowInv'
  BY <1>10 DEF Revokes, Goto, tables
<1>11. ASSUME AcceptFinds(q) PROVE RowInv'
  BY <1>11 DEF AcceptFinds, Begins, IsPending, Chooses, reads, Goto, tables
<1>12. ASSUME AcceptJoins(q) PROVE RowInv'
  <2>1. row[q] \in Requests /\ invitation[row[q]] # None /\ pc[q] = "join"
    BY <1>12 DEF AcceptJoins
  <2>2. CASE Taken(EmailOf[row[q]])
    <3>1. /\ pc' = [pc EXCEPT ![q] = "collide"]
          /\ UNCHANGED <<load, row, owner, user, invitation, activation, session, known>>
      BY <1>12, <2>2 DEF AcceptJoins, Goto
    <3>2. QED BY <2>1, <3>1
  <2>3. CASE ~Taken(EmailOf[row[q]])
    <3>1. /\ pc' = [pc EXCEPT ![q] = "end"]
          /\ invitation' = [invitation EXCEPT ![row[q]].status = "accepted"]
          /\ UNCHANGED <<load, row, owner, activation, session, known>>
      BY <1>12, <2>3 DEF AcceptJoins, Goto, End
    <3>2. /\ invitation' \in [Requests -> Invitation \cup {None}]
          /\ \A i \in Requests : invitation[i] # None => invitation'[i] # None
      BY <2>1, <3>1
    <3>3. user' = user \/ Added(q) BY <1>12, Inserted
    <3>4. /\ user' \in Users
          /\ \A u \in Requests : user[u] # None => user'[u] # None
          /\ \A u \in Requests : user[u] # None /\ user[u].active => user'[u].active
      BY <3>3 DEF Added, Users
    <3>5. QED BY <2>1, <3>1, <3>2, <3>4 DEF Users
  <2>4. QED BY <2>2, <2>3
<1>13. ASSUME AcceptCollides(q) PROVE RowInv'
  <2>1. /\ pc' = [pc EXCEPT ![q] = "end"]
        /\ UNCHANGED <<load, row, owner, user, activation, session, known>>
    BY <1>13, CollidesDoes
  <2>2. row[q] \in Requests /\ invitation[row[q]] # None
    BY <1>13, CollidesDoes
  <2>3. \A i \in Requests : invitation[i] # None => invitation'[i] # None
    BY <1>13, <2>2, CollidesDoes
  <2>4. QED BY <2>1, <2>3
<1>14. ASSUME RegisterFindsUser(q) PROVE RowInv'
  BY <1>14 DEF RegisterFindsUser, Begins, Taken, End, reads, Goto, tables
<1>15. ASSUME RegisterFindsPending(q) PROVE RowInv'
  BY <1>15 DEF RegisterFindsPending, PendingFor, Chooses, reads, IsPending,
    Goto, tables
<1>16. ASSUME RegisterJoins(q) PROVE RowInv'
  <2>1. Added(q) \/ user' = user BY <1>16, Inserted
  <2>2. QED BY <1>16, <2>1 DEF RegisterJoins, Taken, End, Goto, tables, Added,
    Users
<1>17. ASSUME ActivateFinds(q) PROVE RowInv'
  BY <1>17 DEF ActivateFinds, Begins, Chooses, reads, Goto, tables
<1>18. ASSUME ActivateVerifies(q) PROVE RowInv'
  <2>1. Kept(q) /\ KeptActive(q) BY <1>18, Updated, Zenon
  <2>2. QED BY <1>18, <2>1 DEF ActivateVerifies, End, Goto, tables, Kept,
    KeptActive, KeptVerified, Users
<1>19. ASSUME RemindFinds(q) PROVE RowInv'
  BY <1>19 DEF RemindFinds, Begins, Chooses, reads, Goto, tables
<1>20. ASSUME RemindFindsRow(q) PROVE RowInv'
  BY <1>20 DEF RemindFindsRow, End, reads, Goto, tables
<1>21. ASSUME RemindRotates(q) PROVE RowInv'
  BY <1>21 DEF RemindRotates, End, Goto, tables
<1>22. ASSUME DeleteFinds(q) PROVE RowInv'
  BY <1>22 DEF DeleteFinds, AdminBegins, Begins, HasAdmin, IsAdmin, Chooses,
    reads, Goto, tables
<1>23. ASSUME Deletes(q) PROVE RowInv'
  <2>1. Kept(q) /\ KeptVerified(q) BY <1>23, Updated, Zenon
  <2>2. QED BY <1>23, <2>1 DEF Deletes, End, Goto, tables, Kept, KeptActive,
    KeptVerified, Users
<1>24. ASSUME ReactivateFinds(q) PROVE RowInv'
  BY <1>24 DEF ReactivateFinds, AdminBegins, Begins, HasAdmin, IsAdmin,
    Chooses, reads, Goto, tables
<1>25. ASSUME Reactivates(q) PROVE RowInv'
  <2>1. Kept(q) /\ KeptActive(q) /\ KeptVerified(q) BY <1>25, Updated, Zenon
  <2>2. QED BY <1>25, <2>1 DEF Reactivates, End, Goto, tables, Kept,
    KeptActive, KeptVerified, Users
<1>26. ASSUME EmailFinds(q) PROVE RowInv'
  BY <1>26 DEF EmailFinds, Begins, Chooses, reads, Goto, tables
<1>27. ASSUME EmailFindsTaken(q) PROVE RowInv'
  BY <1>27 DEF EmailFindsTaken, Taken, End, reads, Goto, tables
<1>28. ASSUME EmailWrites(q) PROVE RowInv'
  <2>1. CASE user' = user
    BY <1>28, <2>1 DEF EmailWrites, End, Goto, tables
  <2>2. CASE Kept(q) /\ KeptActive(q) /\ KeptVerified(q)
    <3>1. /\ pc' = [pc EXCEPT ![q] = "end"] /\ pc[q] = "write"
          /\ UNCHANGED <<load, row, owner, invitation, activation, session, known>>
      BY <1>28 DEF EmailWrites, End, Goto
    <3>2. \A u \in Requests : user[u] # None =>
            user'[u] # None /\ (user[u].active => user'[u].active)
      BY <1>b, <2>2
    <3>3. QED BY <3>1, <3>2
  <2>3. QED BY <1>28, <2>1, <2>2, Updated, Zenon
<1>29. ASSUME LoginFinds(q) PROVE RowInv'
  BY <1>29 DEF LoginFinds, Begins, Chooses, reads, Goto, tables
<1>30. ASSUME LoginCreates(q) PROVE RowInv'
  BY <1>30 DEF LoginCreates, End, Goto, tables
<1>31. ASSUME RefreshFinds(q) PROVE RowInv'
  BY <1>31 DEF RefreshFinds, Begins, Chooses, Goto, tables
<1>32. ASSUME RefreshFindsOwner(q) PROVE RowInv'
  BY <1>32 DEF RefreshFindsOwner, End, reads, Goto, tables
<1>33. ASSUME RefreshRotates(q) PROVE RowInv'
  BY <1>33 DEF RefreshRotates, End, Goto, tables
<1>34. ASSUME LogoutFinds(q) PROVE RowInv'
  BY <1>34 DEF LogoutFinds, Begins, Chooses, End, Goto, tables
<1>35. ASSUME LogoutDrops(q) PROVE RowInv'
  BY <1>35 DEF LogoutDrops, End, Goto, tables
<1>36. ASSUME GiveUp(q) PROVE RowInv'
  BY <1>36 DEF GiveUp, End, reads, Goto, tables
<1> QED BY <1>1, <1>2, <1>3, <1>4, <1>5, <1>6, <1>7, <1>8, <1>9, <1>10, <1>11,
  <1>12, <1>13, <1>14, <1>15, <1>16, <1>17, <1>18, <1>19, <1>20, <1>21, <1>22,
  <1>23, <1>24, <1>25, <1>26, <1>27, <1>28, <1>29, <1>30, <1>31, <1>32, <1>33,
  <1>34, <1>35, <1>36 DEF Steps, Installing, Inviting, Registering, Changing,
  Signing

LEMMA TableStep ==
  ASSUME TypeOK, RowInv, TableInv, NEW q \in Requests, Steps(q)
  PROVE  TableInv'
<1> USE AccountsAssumption, NoneAssumption DEF TypeOK, RowInv, TableInv, At, User, Invitation, Session
<1>1. ASSUME BootstrapCounts(q) PROVE TableInv'
  BY <1>1 DEF BootstrapCounts, Begins, HasAdmin, End, reads, Goto, tables
<1>2. ASSUME BootstrapCreates(q) PROVE TableInv'
  <2>1. Added(q) \/ user' = user BY <1>2, Inserted
  <2>2. QED BY <1>2, <2>1 DEF BootstrapCreates, Taken, HasAdmin, Chooses, End,
    Verified, Goto, tables, Added, Users
<1>3. ASSUME InviteFindsUser(q) PROVE TableInv'
  BY <1>3 DEF InviteFindsUser, AdminBegins, Begins, HasAdmin, IsAdmin, Taken,
    End, reads, Goto, tables
<1>4. ASSUME InviteFindsPending(q) PROVE TableInv'
  BY <1>4 DEF InviteFindsPending, PendingFor, End, reads, IsPending, Goto,
    tables
<1>5. ASSUME InviteCreates(q) PROVE TableInv'
  BY <1>5 DEF InviteCreates, PendingFor, End, IsPending, Goto, tables
<1>6. ASSUME Mail(q) PROVE TableInv'
  BY <1>6 DEF Mail, End, Goto, tables
<1>7. ASSUME ResendFinds(q) PROVE TableInv'
  BY <1>7 DEF ResendFinds, AdminBegins, Begins, HasAdmin, IsAdmin, IsPending,
    Chooses, reads, Goto, tables
<1>8. ASSUME ResendRotates(q) PROVE TableInv'
  BY <1>8 DEF ResendRotates, Goto, tables
<1>9. ASSUME RevokeFinds(q) PROVE TableInv'
  BY <1>9 DEF RevokeFinds, AdminBegins, Begins, HasAdmin, IsAdmin, IsPending,
    Chooses, reads, Goto, tables
<1>10. ASSUME Revokes(q) PROVE TableInv'
  BY <1>10 DEF Revokes, Goto, tables
<1>11. ASSUME AcceptFinds(q) PROVE TableInv'
  BY <1>11 DEF AcceptFinds, Begins, IsPending, Chooses, reads, Goto, tables
<1>12. ASSUME AcceptJoins(q) PROVE TableInv'
  <2>1. Added(q) \/ user' = user BY <1>12, Inserted
  <2>2. QED BY <1>12, <2>1 DEF AcceptJoins, Taken, End, Goto, tables, Added,
    Users
<1>13. ASSUME AcceptCollides(q) PROVE TableInv'
  BY <1>13 DEF AcceptCollides, IsPending, End, Goto, tables
<1>14. ASSUME RegisterFindsUser(q) PROVE TableInv'
  BY <1>14 DEF RegisterFindsUser, Begins, Taken, End, reads, Goto, tables
<1>15. ASSUME RegisterFindsPending(q) PROVE TableInv'
  BY <1>15 DEF RegisterFindsPending, PendingFor, Chooses, reads, IsPending,
    Goto, tables
<1>16. ASSUME RegisterJoins(q) PROVE TableInv'
  <2>1. CASE Taken(EmailOf[q])
    <3>1. /\ pc' = [pc EXCEPT ![q] = "end"]
          /\ UNCHANGED <<load, row, owner, user, invitation, activation, session, known>>
      BY <1>16, <2>1 DEF RegisterJoins, Goto, End
    <3>2. QED BY <3>1
  <2>2. CASE ~Taken(EmailOf[q])
    <3> DEFINE w == [email |-> EmailOf[q], active |-> TRUE, verified |-> FALSE]
    <3>1. /\ pc' = [pc EXCEPT ![q] = "mail"] /\ pc[q] = "join" /\ KindOf[q] = "register"
          /\ activation' = [activation EXCEPT ![q] = q]
          /\ UNCHANGED <<load, row, owner, invitation, session, known>>
      BY <1>16, <2>2 DEF RegisterJoins, Goto
    <3>2. user' = [user EXCEPT ![q] = w] BY <1>16, <2>2 DEF RegisterJoins
    <3>3. ~w.verified /\ w \in User OBVIOUS
    <3> HIDE DEF w
    <3>4. /\ user'[q] # None /\ ~user'[q].verified
          /\ \A u \in Requests : user[u] # None => user'[u] # None
          /\ \A u \in Requests : u # q => user'[u] = user[u]
      BY <3>2, <3>3
    <3>5. QED BY <3>1, <3>4
  <2>3. QED BY <2>1, <2>2
<1>17. ASSUME ActivateFinds(q) PROVE TableInv'
  BY <1>17 DEF ActivateFinds, Begins, Chooses, reads, Goto, tables
<1>18. ASSUME ActivateVerifies(q) PROVE TableInv'
  <2>1. Kept(q) /\ KeptActive(q) BY <1>18, Updated, Zenon
  <2>2. QED BY <1>18, <2>1 DEF ActivateVerifies, End, Goto, tables, Kept,
    KeptActive, KeptVerified, Users
<1>19. ASSUME RemindFinds(q) PROVE TableInv'
  BY <1>19 DEF RemindFinds, Begins, Chooses, reads, Goto, tables
<1>20. ASSUME RemindFindsRow(q) PROVE TableInv'
  BY <1>20 DEF RemindFindsRow, End, reads, Goto, tables
<1>21. ASSUME RemindRotates(q) PROVE TableInv'
  BY <1>21 DEF RemindRotates, End, Goto, tables
<1>22. ASSUME DeleteFinds(q) PROVE TableInv'
  BY <1>22 DEF DeleteFinds, AdminBegins, Begins, HasAdmin, IsAdmin, Chooses,
    reads, Goto, tables
<1>23. ASSUME Deletes(q) PROVE TableInv'
  <2>1. Kept(q) /\ KeptVerified(q) BY <1>23, Updated, Zenon
  <2>2. QED BY <1>23, <2>1 DEF Deletes, End, Goto, tables, Kept, KeptActive,
    KeptVerified, Users
<1>24. ASSUME ReactivateFinds(q) PROVE TableInv'
  BY <1>24 DEF ReactivateFinds, AdminBegins, Begins, HasAdmin, IsAdmin,
    Chooses, reads, Goto, tables
<1>25. ASSUME Reactivates(q) PROVE TableInv'
  <2>1. Kept(q) /\ KeptActive(q) /\ KeptVerified(q) BY <1>25, Updated, Zenon
  <2>2. QED BY <1>25, <2>1 DEF Reactivates, End, Goto, tables, Kept,
    KeptActive, KeptVerified, Users
<1>26. ASSUME EmailFinds(q) PROVE TableInv'
  BY <1>26 DEF EmailFinds, Begins, Chooses, reads, Goto, tables
<1>27. ASSUME EmailFindsTaken(q) PROVE TableInv'
  BY <1>27 DEF EmailFindsTaken, Taken, End, reads, Goto, tables
<1>28. ASSUME EmailWrites(q) PROVE TableInv'
  <2>1. CASE user' = user
    BY <1>28, <2>1 DEF EmailWrites, End, Goto, tables
  <2>2. CASE Kept(q) /\ KeptActive(q) /\ KeptVerified(q)
    <3>1. /\ pc' = [pc EXCEPT ![q] = "end"] /\ pc[q] = "write"
          /\ UNCHANGED <<load, row, owner, invitation, activation, session, known>>
      BY <1>28 DEF EmailWrites, End, Goto
    <3>2. QED BY <2>2, <3>1 DEF Kept, KeptActive, KeptVerified, Users
  <2>3. QED BY <1>28, <2>1, <2>2, Updated, Zenon
<1>29. ASSUME LoginFinds(q) PROVE TableInv'
  BY <1>29 DEF LoginFinds, Begins, Chooses, reads, Goto, tables
<1>30. ASSUME LoginCreates(q) PROVE TableInv'
  BY <1>30 DEF LoginCreates, End, Goto, tables
<1>31. ASSUME RefreshFinds(q) PROVE TableInv'
  BY <1>31 DEF RefreshFinds, Begins, Chooses, Goto, tables
<1>32. ASSUME RefreshFindsOwner(q) PROVE TableInv'
  BY <1>32 DEF RefreshFindsOwner, End, reads, Goto, tables
<1>33. ASSUME RefreshRotates(q) PROVE TableInv'
  BY <1>33 DEF RefreshRotates, End, Goto, tables
<1>34. ASSUME LogoutFinds(q) PROVE TableInv'
  BY <1>34 DEF LogoutFinds, Begins, Chooses, End, Goto, tables
<1>35. ASSUME LogoutDrops(q) PROVE TableInv'
  BY <1>35 DEF LogoutDrops, End, Goto, tables
<1>36. ASSUME GiveUp(q) PROVE TableInv'
  BY <1>36 DEF GiveUp, End, reads, Goto, tables
<1> QED BY <1>1, <1>2, <1>3, <1>4, <1>5, <1>6, <1>7, <1>8, <1>9, <1>10, <1>11,
  <1>12, <1>13, <1>14, <1>15, <1>16, <1>17, <1>18, <1>19, <1>20, <1>21, <1>22,
  <1>23, <1>24, <1>25, <1>26, <1>27, <1>28, <1>29, <1>30, <1>31, <1>32, <1>33,
  <1>34, <1>35, <1>36 DEF Steps, Installing, Inviting, Registering, Changing,
  Signing

-----------------------------------------------------------------------------
(* The inductive invariant *)

IInv == TypeOK /\ RowInv /\ TableInv

LEMMA Initially == Init => IInv /\ OneTokenPerLogin
<1> SUFFICES ASSUME Init PROVE IInv /\ OneTokenPerLogin OBVIOUS
<1> USE AccountsAssumption, NoneAssumption
<1>1. \A q \in Requests : Verified(q) \in User
  <2>1. \A q \in Requests : EmailOf[q] \in Emails OBVIOUS
  <2>2. QED BY <2>1 DEF Verified, User
<1>2. user \in [Requests -> User \cup {None}] BY <1>1 DEF Init
<1>3. TypeOK BY <1>2 DEF Init, TypeOK, Stages
<1>4. RowInv BY DEF Init, RowInv, At
<1>5. TableInv BY DEF Init, TableInv
<1>6. OneTokenPerLogin BY DEF Init, OneTokenPerLogin
<1>7. QED BY <1>3, <1>4, <1>5, <1>6 DEF IInv

LEMMA StepKeepsIInv == IInv /\ [Next]_vars => IInv'
<1> SUFFICES ASSUME IInv, [Next]_vars PROVE IInv' OBVIOUS
<1>1. CASE Next
  <2>1. PICK q \in Requests : Steps(q) BY <1>1 DEF Next, Steps
  <2>2. QED BY <2>1, TypeStep, RowStep, TableStep DEF IInv
<1>2. CASE UNCHANGED vars
  BY <1>2 DEF IInv, TypeOK, RowInv, TableInv, At, vars, tables
<1>3. QED BY <1>1, <1>2

\* Everything a handler holds between two awaits, and every row, is of its type:
\* no update of auth/ is by the id of a row that was never there.
THEOREM TypeCorrect == Spec => []TypeOK
<1>1. IInv => TypeOK BY DEF IInv
<1>2. QED BY Initially, StepKeepsIInv, <1>1, PTL DEF Spec

\* The link of an activation dies with the activation
\* (prisma-account-activation.adapter.ts:127).
THEOREM ActivationsAreOpen == Spec => []ActivationMeansUnverified
<1>1. IInv => ActivationMeansUnverified
  BY DEF IInv, TableInv, ActivationMeansUnverified
<1>2. QED BY Initially, StepKeepsIInv, <1>1, PTL DEF Spec

-----------------------------------------------------------------------------
(* Sessions *)

\* Only a login, a bootstrap and a refresh insert a session.
LEMMA SessionsShrink ==
  ASSUME TypeOK, NEW q \in Requests, Steps(q), ~LoginCreates(q), ~RefreshRotates(q)
  PROVE  \A t \in Requests : session'[t] # None => session'[t] = session[t]
<1>1. CASE session' = session BY <1>1
<1>2. CASE Installing(q)
  <2>1. session' = session
    BY <1>2 DEF Installing, BootstrapCounts, BootstrapCreates, reads, tables
  <2>2. QED BY <2>1
<1>3. CASE Inviting(q)
  <2>1. session' = session
    BY <1>3 DEF Inviting, InviteFindsUser, InviteFindsPending, InviteCreates,
    ResendFinds, ResendRotates, RevokeFinds, Revokes, AcceptFinds, AcceptJoins,
    AcceptCollides, reads, tables
  <2>2. QED BY <2>1
<1>4. CASE Registering(q)
  <2>1. session' = session
    BY <1>4 DEF Registering, RegisterFindsUser, RegisterFindsPending,
    RegisterJoins, ActivateFinds, ActivateVerifies, RemindFinds,
    RemindFindsRow, RemindRotates, Mail, reads, tables
  <2>2. QED BY <2>1
<1>5. CASE Deletes(q) BY <1>5 DEF Deletes, TypeOK
<1>6. CASE Changing(q) /\ ~Deletes(q)
  <2>1. session' = session
    BY <1>6 DEF Changing, DeleteFinds, ReactivateFinds, Reactivates, EmailFinds,
    EmailFindsTaken, EmailWrites, reads, tables
  <2>2. QED BY <2>1
<1>7. CASE LogoutFinds(q) BY <1>7 DEF LogoutFinds, TypeOK
<1>8. CASE LogoutDrops(q) BY <1>8 DEF LogoutDrops, TypeOK
<1>9. CASE Signing(q) /\ ~LogoutFinds(q) /\ ~LogoutDrops(q)
  <2>1. session' = session
    BY <1>9 DEF Signing, LoginFinds, RefreshFinds, RefreshFindsOwner, reads,
    tables
  <2>2. QED BY <2>1
<1>10. CASE GiveUp(q) BY <1>10 DEF GiveUp, reads, tables
<1>11. QED
  BY <1>2, <1>3, <1>4, <1>5, <1>6, <1>7, <1>8, <1>9, <1>10 DEF Steps

\* What a login or a bootstrap inserts, and what a refresh puts for what it deletes.
LEMMA LoginInserts ==
  ASSUME IInv, NEW q \in Requests, LoginCreates(q)
  PROVE  /\ session' = [session EXCEPT ![q] = [user |-> row[q], login |-> q]]
         /\ session[q] = None /\ pc[q] = "sign" /\ KindOf[q] \in {"login", "bootstrap"}
BY DEF LoginCreates, IInv, TypeOK, RowInv, TableInv

LEMMA RefreshReplaces ==
  ASSUME IInv, NEW q \in Requests, RefreshRotates(q), session' # session
  PROVE  /\ row[q] \in Requests /\ session[row[q]] # None /\ session[q] = None
         /\ session' = [session EXCEPT ![row[q]] = None,
                           ![q] = [user |-> owner[q], login |-> session[row[q]].login]]
         /\ user[owner[q]] # None /\ user[owner[q]].active
BY DEF RefreshRotates, IInv, TypeOK, RowInv, TableInv, At

LEMMA StepKeepsOneToken == IInv /\ OneTokenPerLogin /\ [Next]_vars => OneTokenPerLogin'
<1> SUFFICES ASSUME IInv, OneTokenPerLogin, [Next]_vars PROVE OneTokenPerLogin' OBVIOUS
<1> USE DEF OneTokenPerLogin
<1>1. CASE UNCHANGED session BY <1>1
<1>2. ASSUME NEW q \in Requests, LoginCreates(q) PROVE OneTokenPerLogin'
  <2>1. \A t \in Requests : session[t] # None => session[t].login # q
    BY <1>2, LoginInserts DEF IInv, TableInv
  <2>2. /\ session'[q].login = q
        /\ \A t \in Requests : t # q => session'[t] = session[t]
    BY <1>2, LoginInserts DEF IInv, TypeOK
  <2>3. QED BY <2>1, <2>2
<1>3. ASSUME NEW q \in Requests, RefreshRotates(q), session' # session
      PROVE  OneTokenPerLogin'
  <2>1. /\ row[q] \in Requests /\ row[q] # q /\ session[row[q]] # None
        /\ session'[row[q]] = None /\ session'[q].login = session[row[q]].login
        /\ \A t \in Requests \ {q, row[q]} : session'[t] = session[t]
    BY <1>3, RefreshReplaces DEF IInv, TypeOK
  <2>2. QED BY <2>1
<1>4. ASSUME NEW q \in Requests, Steps(q), ~LoginCreates(q), ~RefreshRotates(q)
      PROVE  OneTokenPerLogin'
  BY <1>4, SessionsShrink DEF IInv
<1>5. QED BY <1>1, <1>2, <1>3, <1>4 DEF Next, Steps, vars, tables

\* However many refreshes race with one token, one of them gets a successor
\* (prisma-refresh-session.adapter.ts:72).
THEOREM OneLiveToken == Spec => []OneTokenPerLogin
BY Initially, StepKeepsIInv, StepKeepsOneToken, PTL DEF Spec

Rotation ==
  \A q \in Requests :
    /\ KindOf[q] = "refresh"
    /\ session[q] = None /\ session'[q] # None
    => user[session'[q].user].active

LEMMA StepRotatesActive == IInv /\ [Next]_vars => [Rotation]_vars
<1> SUFFICES ASSUME IInv, Next PROVE Rotation OBVIOUS
<1> SUFFICES ASSUME NEW q \in Requests, KindOf[q] = "refresh",
                    session[q] = None, session'[q] # None
             PROVE  user[session'[q].user].active
  BY DEF Rotation
<1>1. PICK p \in Requests : Steps(p) BY DEF Next, Steps
<1>2. LoginCreates(p) \/ RefreshRotates(p) BY <1>1, SessionsShrink DEF IInv
<1>3. ~LoginCreates(p) BY LoginInserts DEF IInv, TypeOK
<1>4. /\ session' = [session EXCEPT ![row[p]] = None,
                        ![p] = [user |-> owner[p], login |-> session[row[p]].login]]
      /\ row[p] \in Requests /\ user[owner[p]].active
  BY <1>2, <1>3, RefreshReplaces
<1>5. p = q /\ session'[q].user = owner[p] BY <1>4 DEF IInv, TypeOK
<1>6. QED BY <1>4, <1>5

\* A refresh that read the account before it was deleted finds its session gone
\* (delete-user.use-case.ts:45).
THEOREM RefreshesAreOfActive == Spec => RotatesOnlyActive
<1>1. IInv /\ [Next]_vars => [Rotation]_vars BY StepRotatesActive
<1>2. QED BY Initially, StepKeepsIInv, <1>1, PTL DEF Spec, RotatesOnlyActive, Rotation

-----------------------------------------------------------------------------
(* Invitations *)

Loss ==
  \A i \in Requests :
    /\ invitation[i] # None /\ invitation[i].status = "accepted"
    /\ invitation'[i].status # "accepted"
    => \E q \in Requests : row[q] = i /\ pc[q] = "revoke"

LEMMA StepLoses == IInv /\ [Next]_vars => [Loss]_vars
<1> SUFFICES ASSUME IInv, Next PROVE Loss OBVIOUS
<1> SUFFICES ASSUME NEW i \in Requests, invitation[i] # None,
                    invitation[i].status = "accepted",
                    invitation'[i].status # "accepted"
             PROVE  \E q \in Requests : row[q] = i /\ pc[q] = "revoke"
  BY DEF Loss
<1> USE DEF IInv
<1>1. PICK q \in Requests : Steps(q) BY DEF Next, Steps
<1>2. invitation' # invitation OBVIOUS
<1>3. ~Installing(q)
  BY <1>2 DEF Installing, BootstrapCounts, BootstrapCreates, reads, tables
<1>4. ~Registering(q)
  BY <1>2 DEF Registering, RegisterFindsUser, RegisterFindsPending,
    RegisterJoins, ActivateFinds, ActivateVerifies, RemindFinds,
    RemindFindsRow, RemindRotates, Mail, reads, tables
<1>5. ~Changing(q)
  BY <1>2 DEF Changing, DeleteFinds, Deletes, ReactivateFinds, Reactivates,
    EmailFinds, EmailFindsTaken, EmailWrites, reads, tables
<1>6. ~Signing(q)
  BY <1>2 DEF Signing, LoginFinds, LoginCreates, RefreshFinds,
    RefreshFindsOwner, RefreshRotates, LogoutFinds, LogoutDrops, reads, tables
<1>7. ~GiveUp(q) BY <1>2 DEF GiveUp, reads, tables
<1>8. ~InviteCreates(q)
  <2>1. pc[q] = "create" => invitation[q] = None BY DEF TableInv
  <2>2. QED BY <2>1 DEF InviteCreates, At, TypeOK
<1>9. ~ResendRotates(q)
  BY DEF ResendRotates, TypeOK, Invitation
<1>10. ~AcceptJoins(q) BY DEF AcceptJoins, TypeOK, Invitation
<1>11. ~AcceptCollides(q) BY DEF AcceptCollides, IsPending, TypeOK
<1>12. CASE Revokes(q) BY <1>12 DEF Revokes, TypeOK
<1>13. QED
  BY <1>1, <1>2, <1>3, <1>4, <1>5, <1>6, <1>7, <1>8, <1>9, <1>10, <1>11, <1>12
    DEF Steps, Inviting, InviteFindsUser, InviteFindsPending, ResendFinds,
    RevokeFinds, AcceptFinds, reads, tables

\* The loser of two acceptances does not touch what the winner accepted; only who
\* found the invitation pending and then revokes it does
\* (prisma-invitation.adapter.ts:159, 212).
THEOREM AcceptanceStays == Spec => AcceptedLostOnlyToStaleReader
<1>1. IInv /\ [Next]_vars => [Loss]_vars BY StepLoses
<1>2. QED
  BY Initially, StepKeepsIInv, <1>1, PTL DEF Spec, AcceptedLostOnlyToStaleReader, Loss
=============================================================================
