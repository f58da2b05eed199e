---------------------------- MODULE AccountsProofs ----------------------------
(***************************************************************************)
(* Proofs about accounts and sessions, for any number of users, rows and    *)
(* commands at a time.                                                     *)
(***************************************************************************)
EXTENDS Accounts, TLAPS

InviteRows ==
    [user : Users, state : {"live", "revoked", "consumed"}, fresh : BOOLEAN, mailed : BOOLEAN, accepted : Nat]
ResetRows == [user : Users, consumed : BOOLEAN, fresh : BOOLEAN, used : Nat]
TokenRows == [user : Users, parent : Nat, reason : Reasons \cup {None}, mfa : BOOLEAN, fresh : BOOLEAN]

AccountTypes ==
    /\ user \in [Users -> UserRows \cup {None}]
    /\ invite \in Seq(InviteRows) /\ reset \in Seq(ResetRows) /\ token \in Seq(TokenRows)
    /\ secret \in Nat
    /\ tx = [p \in Procs |-> tx[p]]

\* The rows refer to accounts that exist.
AccountRefers ==
    /\ \A i \in DOMAIN invite : user[invite[i].user] # None
    /\ \A i \in DOMAIN reset : user[reset[i].user] # None
    /\ \A i \in DOMAIN token : user[token[i].user] # None

\* What a command has read is there, and of the right kind.
AccountRead(r) ==
    /\ r.cmd # "idle" => r.user \in Users
    /\ r.cmd \in {"create", "provision"} => r.saw \in Roles
    /\ r.cmd = "create_admin" => r.saw = None
    /\ r.cmd = "bootstrap" => /\ r.saw \in UserRows \cup {None}
                              /\ r.saw # None => user[r.user] # None
    /\ r.cmd \notin {"idle", "create", "provision", "create_admin", "bootstrap"} => user[r.user] # None
    /\ r.cmd = "accept" => r.id \in DOMAIN invite /\ invite[r.id].user = r.user
    /\ r.cmd = "reset_confirm" => r.id \in DOMAIN reset
    /\ r.cmd \in {"refresh", "logout", "verify"} => r.id \in DOMAIN token
    /\ r.cmd = "refresh" => r.saw \in BOOLEAN
    /\ r.cmd = "verify" => r.saw \in [mfa : BOOLEAN, secret : Nat]

AccountReads == \A p \in Procs : AccountRead(tx[p])

AccountInvariant ==
    /\ AccountTypes /\ AccountRefers /\ AccountReads
    /\ InvitedHasInvitation /\ InvitationWasMailed

\* No row is deleted or changes hands.
AccountsGrow ==
    /\ \A u \in Users : user[u] # None => user'[u] # None
    /\ DOMAIN invite \subseteq DOMAIN invite' /\ \A i \in DOMAIN invite : invite'[i].user = invite[i].user
    /\ DOMAIN reset \subseteq DOMAIN reset' /\ \A i \in DOMAIN reset : reset'[i].user = reset[i].user
    /\ DOMAIN token \subseteq DOMAIN token' /\ \A i \in DOMAIN token : token'[i].user = token[i].user

\* An element of a sequence is of the sequence's set.
LEMMA SeqElement == ASSUME NEW S, NEW s \in Seq(S), NEW n \in 1..Len(s) PROVE s[n] \in S
OBVIOUS

\* A sequence is a function on the numbers up to its length.
LEMMA SeqLength ==
    ASSUME NEW S, NEW s \in Seq(S)
    PROVE  Len(s) \in Nat /\ s \in [1..Len(s) -> S] /\ DOMAIN s = 1..Len(s)
OBVIOUS

\* The empty sequence is the one of length zero.
LEMMA SeqEmpty ==
    ASSUME NEW S
    PROVE  <<>> \in Seq(S) /\ Len(<<>>) = 0 /\ \A s \in Seq(S) : s # <<>> => Len(s) \in Nat \ {0}
OBVIOUS

\* A function on the numbers up to n is a sequence.
LEMMA SeqMade == ASSUME NEW S, NEW n \in Nat, NEW f \in [1..n -> S] PROVE f \in Seq(S)
OBVIOUS

\* Append adds one element at the end.
LEMMA SeqExtended ==
    ASSUME NEW S, NEW s \in Seq(S), NEW e \in S
    PROVE  /\ Append(s, e) \in Seq(S) /\ Len(Append(s, e)) = Len(s) + 1
           /\ \A i \in 1..Len(s) : Append(s, e)[i] = s[i]
           /\ Append(s, e)[Len(s) + 1] = e
OBVIOUS

\* A function over the places of a sequence is a sequence.
LEMMA SeqUpdate ==
    ASSUME NEW S, NEW s \in Seq(S), NEW f \in [DOMAIN s -> S]
    PROVE  f \in Seq(S) /\ DOMAIN f = DOMAIN s
<1>1. Len(s) \in Nat /\ DOMAIN s = 1 .. Len(s)
  BY SeqLength
<1>2. f \in [1 .. Len(s) -> S]
  BY <1>1
<1> QED
  BY <1>1, <1>2, SeqMade

\* A row is appended behind the others.
LEMMA SeqAppend ==
    ASSUME NEW S, NEW s \in Seq(S), NEW e \in S
    PROVE  LET t == Append(s, e) IN
           /\ t \in Seq(S) /\ DOMAIN t = DOMAIN s \cup {Len(s) + 1} /\ Len(s) + 1 \notin DOMAIN s
           /\ t[Len(s) + 1] = e /\ \A i \in DOMAIN s : t[i] = s[i]
<1>1. Len(s) \in Nat /\ DOMAIN s = 1 .. Len(s)
  BY SeqLength
<1> QED
  BY <1>1, SeqExtended

\* What a command has read stays there while others write.
LEMMA AccountReadStays ==
    ASSUME AccountTypes, AccountTypes', AccountsGrow, NEW r, AccountRead(r)
    PROVE  AccountRead(r)'
BY DEF AccountRead, AccountsGrow

\* The commit of a command, or of the clock, keeps what the others have read.
LEMMA AccountCommits ==
    ASSUME AccountTypes, AccountReads, AccountsGrow,
           user' \in [Users -> UserRows \cup {None}],
           invite' \in Seq(InviteRows), reset' \in Seq(ResetRows), token' \in Seq(TokenRows), secret' \in Nat,
           UNCHANGED tx \/ \E p \in Procs : End(p)
    PROVE  AccountTypes' /\ AccountReads'
<1>1. AccountTypes'
  BY DEF AccountTypes, End
<1>2. ASSUME NEW q \in Procs PROVE AccountRead(tx[q])'
  <2>1. PICK r : r = tx'[q] /\ (r = tx[q] \/ r = Idle)
    BY DEF AccountTypes, End
  <2>2. AccountRead(r)
    BY <2>1 DEF AccountReads, AccountRead, Idle
  <2>3. AccountRead(r)'
    BY <1>1, <2>2, AccountReadStays
  <2> QED
    BY <2>1, <2>3 DEF AccountRead
<1> QED
  BY <1>1, <1>2 DEF AccountReads

\* What the second factor depends on in what a command has read is still so.
AccountFresh(r) ==
    /\ r.cmd = "refresh" => token[r.id].user = r.user /\ r.saw = token[r.id].mfa
    /\ r.cmd = "bootstrap" /\ r.saw # None => r.saw.mfa \/ ~ user[r.user].mfa
    /\ r.cmd = "setup" => ~ user[r.user].mfa
    /\ r.cmd = "verify" => token[r.id].user = r.user /\ r.saw.secret = user[r.user].secret

\* The first step of a command reads what is there.
LEMMA AccountReadsStep ==
    ASSUME AccountsAssumption, AccountInvariant, NEW p \in Procs, Read(p)
    PROVE  \E r : AccountRead(r) /\ AccountFresh(r) /\ tx' = [tx EXCEPT ![p] = r] /\ UNCHANGED tables
<1> DEFINE Goal == \E r : AccountRead(r) /\ AccountFresh(r) /\ tx' = [tx EXCEPT ![p] = r] /\ UNCHANGED tables
           Rec(cmd, u, id, saw) == [cmd |-> cmd, user |-> u, id |-> id, saw |-> saw]
<1> SUFFICES Goal
  BY Zenon
<1>0. ASSUME NEW cmd, NEW u, NEW id, NEW saw, Begin(p, cmd, u, id, saw),
             AccountRead(Rec(cmd, u, id, saw)), AccountFresh(Rec(cmd, u, id, saw))
      PROVE  Goal
  BY <1>0, Zenon DEF Begin
<1>types. /\ user \in [Users -> UserRows \cup {None}] /\ None \notin UserRows
          /\ \A i \in DOMAIN invite : invite[i] \in InviteRows /\ user[invite[i].user] # None
          /\ \A i \in DOMAIN reset : reset[i] \in ResetRows /\ user[reset[i].user] # None
          /\ \A i \in DOMAIN token : token[i] \in TokenRows /\ user[token[i].user] # None
  BY SeqElement, SeqLength DEF AccountInvariant, AccountTypes, AccountRefers, AccountsAssumption
<1> HIDE DEF Goal
<1>1. CASE create_user(p)
  <2>1. PICK u \in Users, role \in Roles : BeginCreateUser(p, u, role)
    BY <1>1 DEF create_user
  <2> QED
    BY <1>0, <2>1 DEF BeginCreateUser, AccountRead, AccountFresh
<1>2. CASE provision_user(p)
  <2>1. PICK u \in Users, role \in Roles : BeginProvisionUser(p, u, role)
    BY <1>2 DEF provision_user
  <2> QED
    BY <1>0, <2>1 DEF BeginProvisionUser, AccountRead, AccountFresh
<1>3. CASE disable_user(p)
  <2>1. PICK u \in Users : BeginDisableUser(p, u)
    BY <1>3 DEF disable_user
  <2> QED
    BY <1>0, <2>1 DEF BeginDisableUser, AccountRead, AccountFresh
<1>4. CASE reactivate_user(p)
  <2>1. PICK u \in Users : BeginReactivateUser(p, u)
    BY <1>4 DEF reactivate_user
  <2> QED
    BY <1>0, <2>1 DEF BeginReactivateUser, AccountRead, AccountFresh, Status
<1>5. CASE resend_invitation(p)
  <2>1. PICK u \in Users : BeginResendInvitation(p, u)
    BY <1>5 DEF resend_invitation
  <2> QED
    BY <1>0, <2>1 DEF BeginResendInvitation, AccountRead, AccountFresh, Status
<1>6. CASE setup_two_factor(p)
  <2>1. PICK t \in DOMAIN token : BeginSetupTwoFactor(p, t)
    BY <1>6 DEF setup_two_factor
  <2>2. PICK u \in Users : u = token[t].user /\ user[u] # None
    BY <1>types DEF TokenRows
  <2> QED
    BY <1>0, <2>1, <2>2 DEF BeginSetupTwoFactor, AccountRead, AccountFresh
<1>7. CASE verify_two_factor(p)
  <2>1. PICK t \in DOMAIN token : BeginVerifyTwoFactor(p, t)
    BY <1>7 DEF verify_two_factor
  <2>2. PICK u \in Users : u = token[t].user /\ user[u] # None
    BY <1>types DEF TokenRows
  <2>3. user[u] \in UserRows
    BY <1>types, <2>2
  <2>4. PICK saw \in [mfa : BOOLEAN, secret : Nat] : saw = [mfa |-> user[u].mfa, secret |-> user[u].secret]
    BY <2>3, Zenon DEF UserRows
  <2> QED
    BY <1>0, <2>1, <2>2, <2>4 DEF BeginVerifyTwoFactor, AccountRead, AccountFresh
<1>8. CASE login(p)
  <2>1. PICK u \in Users : BeginLogin(p, u)
    BY <1>8 DEF login
  <2> QED
    BY <1>0, <2>1 DEF BeginLogin, AccountRead, AccountFresh, Status
<1>9. CASE accept_invitation(p)
  <2>1. PICK i \in DOMAIN invite : BeginAcceptInvitation(p, i)
    BY <1>9 DEF accept_invitation
  <2>2. PICK u \in Users : u = invite[i].user /\ user[u] # None
    BY <1>types DEF InviteRows
  <2> QED
    BY <1>0, <2>1, <2>2 DEF BeginAcceptInvitation, AccountRead, AccountFresh
<1>10. CASE refresh(p)
  <2>1. PICK t \in DOMAIN token : BeginReuse(p, t) \/ BeginRefresh(p, t)
    BY <1>10 DEF refresh
  <2>2. PICK u \in Users, mfa \in BOOLEAN : u = token[t].user /\ user[u] # None /\ mfa = token[t].mfa
    BY <1>types DEF TokenRows
  <2>3. CASE BeginReuse(p, t)
    BY <1>0, <2>2, <2>3 DEF BeginReuse, AccountRead, AccountFresh
  <2>4. CASE BeginRefresh(p, t)
    <3>1. Begin(p, "refresh", u, t, mfa)
      BY <2>2, <2>4 DEF BeginRefresh
    <3> QED
      BY <1>0, <2>2, <3>1 DEF AccountRead, AccountFresh
  <2> QED
    BY <2>1, <2>3, <2>4
<1>11. CASE logout(p)
  <2>1. PICK t \in DOMAIN token : BeginLogout(p, t)
    BY <1>11 DEF logout
  <2>2. PICK u \in Users : u = token[t].user /\ user[u] # None
    BY <1>types DEF TokenRows
  <2> QED
    BY <1>0, <2>1, <2>2 DEF BeginLogout, AccountRead, AccountFresh
<1>12. CASE password_reset_request(p)
  <2>1. PICK u \in Users : BeginResetRequest(p, u)
    BY <1>12 DEF password_reset_request
  <2> QED
    BY <1>0, <2>1 DEF BeginResetRequest, AccountRead, AccountFresh, Status
<1>13. CASE password_reset_confirm(p)
  <2>1. PICK r \in DOMAIN reset : BeginResetConfirm(p, r)
    BY <1>13 DEF password_reset_confirm
  <2>2. PICK u \in Users : u = reset[r].user /\ user[u] # None
    BY <1>types DEF ResetRows
  <2> QED
    BY <1>0, <2>1, <2>2 DEF BeginResetConfirm, AccountRead, AccountFresh
<1>14. CASE bootstrap_admin(p)
  <2>1. PICK u \in Users : BeginBootstrapAdmin(p, u)
    BY <1>14 DEF bootstrap_admin
  <2>2. PICK saw \in UserRows \cup {None} : saw = user[u]
    BY <1>types
  <2> QED
    BY <1>0, <2>1, <2>2 DEF BeginBootstrapAdmin, AccountRead, AccountFresh
<1>15. CASE create_admin(p)
  <2>1. PICK u \in Users : BeginCreateAdmin(p, u)
    BY <1>15 DEF create_admin
  <2> QED
    BY <1>0, <2>1 DEF BeginCreateAdmin, AccountRead, AccountFresh
<1> QED
  BY <1>1, <1>2, <1>3, <1>4, <1>5, <1>6, <1>7, <1>8, <1>9, <1>10, <1>11, <1>12, <1>13, <1>14, <1>15
  DEF Read

\* A write to the users that keeps every account and invites nobody.
UserWrite(f) ==
    /\ f \in [Users -> UserRows \cup {None}]
    /\ \A v \in Users : user[v] # None => f[v] # None
    /\ \A v \in Users : f[v] # None /\ f[v].status = "invited" => user[v] # None /\ user[v].status = "invited"

\* A write to the refresh tokens that keeps every session and its revocation.
TokenWrite(s) ==
    /\ s \in Seq(TokenRows) /\ DOMAIN token \subseteq DOMAIN s
    /\ \A t \in DOMAIN token : /\ s[t].user = token[t].user
                               /\ token[t].reason # None => s[t].reason = token[t].reason
    /\ \A t \in DOMAIN s : user[s[t].user] # None

\* The writes of user_repository to one account.
LEMMA UserWrites ==
    ASSUME AccountsAssumption, AccountTypes, NEW u \in Users, user[u] # None, NEW s \in Nat
    PROVE  /\ UserWrite(activate(u)) /\ activate(u)[u].status = "active"
           /\ UserWrite(disable(u)) /\ UserWrite(reactivate(u))
           /\ UserWrite(set_password(u)) /\ UserWrite(set_mfa_secret(u, s))
           /\ UserWrite(enable_mfa(u))
<1>u. user[u] \in UserRows /\ user \in [Users -> UserRows \cup {None}] /\ None \notin UserRows
  BY DEF AccountTypes, AccountsAssumption
<1>row. ASSUME NEW row \in UserRows, row.status = "active" \/ row.status = "disabled" \/ row.status = user[u].status
        PROVE  UserWrite([user EXCEPT ![u] = row]) /\ [user EXCEPT ![u] = row][u] = row
  <2>1. PICK f : f = [user EXCEPT ![u] = row]
    OBVIOUS
  <2>2. f \in [Users -> UserRows \cup {None}] /\ f[u] = row /\ \A v \in Users \ {u} : f[v] = user[v]
    BY <1>u, <2>1
  <2>3. row.status = "invited" => user[u].status = "invited"
    BY <1>row
  <2>4. UserWrite(f)
    BY <1>u, <2>2, <2>3, Zenon DEF UserWrite
  <2> QED
    BY <2>1, <2>2, <2>4
<1>1. UserWrite(activate(u)) /\ activate(u)[u].status = "active"
  <2>1. PICK row : row = [[user[u] EXCEPT !.password = TRUE] EXCEPT !.status = "active"]
    OBVIOUS
  <2>2. row \in UserRows /\ row.status \in {"active"}
    BY <1>u, <2>1, Zenon DEF UserRows
  <2>3. activate(u) = [user EXCEPT ![u] = row]
    BY <2>1, Zenon DEF activate
  <2> QED
    BY <1>row, <2>2, <2>3
<1>2. UserWrite(disable(u))
  <2>1. PICK row : row = [user[u] EXCEPT !.status = "disabled"]
    OBVIOUS
  <2>2. row \in UserRows /\ row.status \in {"disabled"}
    BY <1>u, <2>1, Zenon DEF UserRows
  <2>3. disable(u) = [user EXCEPT ![u] = row]
    BY <2>1, Zenon DEF disable
  <2> QED
    BY <1>row, <2>2, <2>3
<1>3. UserWrite(reactivate(u))
  <2>1. PICK row : row = [user[u] EXCEPT !.status = "active"]
    OBVIOUS
  <2>2. row \in UserRows /\ row.status \in {"active"}
    BY <1>u, <2>1, Zenon DEF UserRows
  <2>3. reactivate(u) = [user EXCEPT ![u] = row]
    BY <2>1, Zenon DEF reactivate
  <2> QED
    BY <1>row, <2>2, <2>3
<1>4. UserWrite(set_password(u))
  <2>1. PICK row : row = [user[u] EXCEPT !.password = TRUE]
    OBVIOUS
  <2>2. row \in UserRows /\ row.status \in {user[u].status}
    BY <1>u, <2>1, Zenon DEF UserRows
  <2>3. set_password(u) = [user EXCEPT ![u] = row]
    BY <2>1, Zenon DEF set_password
  <2> QED
    BY <1>row, <2>2, <2>3
<1>5. UserWrite(set_mfa_secret(u, s))
  <2>1. PICK row : row = [user[u] EXCEPT !.secret = s]
    OBVIOUS
  <2>2. row \in UserRows /\ row.status \in {user[u].status}
    BY <1>u, <2>1, Zenon DEF UserRows
  <2>3. set_mfa_secret(u, s) = [user EXCEPT ![u] = row]
    BY <2>1, Zenon DEF set_mfa_secret
  <2> QED
    BY <1>row, <2>2, <2>3
<1>6. UserWrite(enable_mfa(u))
  <2>1. PICK row : row = [user[u] EXCEPT !.mfa = TRUE]
    OBVIOUS
  <2>2. row \in UserRows /\ row.status \in {user[u].status}
    BY <1>u, <2>1, Zenon DEF UserRows
  <2>3. enable_mfa(u) = [user EXCEPT ![u] = row]
    BY <2>1, Zenon DEF enable_mfa
  <2> QED
    BY <1>row, <2>2, <2>3
<1> QED
  BY <1>1, <1>2, <1>3, <1>4, <1>5, <1>6

\* The writes of refresh_token_repository.
LEMMA TokenWrites ==
    ASSUME AccountsAssumption, AccountTypes, AccountRefers,
           NEW u \in Users, NEW reason \in Reasons
    PROVE  /\ \A t \in DOMAIN token : /\ TokenWrite(revoke(t, reason))
                                      /\ DOMAIN revoke(t, reason) = DOMAIN token
                                      /\ TokenWrite(mark_mfa_verified(t))
           /\ TokenWrite(revoke_all_active_for_user(u, reason))
<1>1. token \in Seq(TokenRows) /\ token \in [DOMAIN token -> TokenRows]
  BY SeqLength DEF AccountTypes
<1>2. ASSUME NEW f \in [DOMAIN token -> TokenRows],
             \A t \in DOMAIN token : /\ f[t].user = token[t].user
                                     /\ token[t].reason # None => f[t].reason = token[t].reason
      PROVE  TokenWrite(f) /\ DOMAIN f = DOMAIN token
  <2>1. f \in Seq(TokenRows) /\ DOMAIN f = DOMAIN token
    BY <1>1, SeqUpdate
  <2> QED
    BY <1>2, <2>1 DEF TokenWrite, AccountRefers
<1>3. ASSUME NEW t \in DOMAIN token
      PROVE  TokenWrite(revoke(t, reason)) /\ DOMAIN revoke(t, reason) = DOMAIN token
  BY <1>1, <1>2, Zenon DEF revoke, TokenRows
<1>4. ASSUME NEW t \in DOMAIN token PROVE TokenWrite(mark_mfa_verified(t))
  BY <1>1, <1>2, Zenon DEF mark_mfa_verified, TokenRows
<1>5. TokenWrite(revoke_all_active_for_user(u, reason))
  <2>1. \A t \in DOMAIN token : [token[t] EXCEPT !.reason = reason] \in TokenRows
    BY <1>1 DEF TokenRows
  <2> DEFINE f == revoke_all_active_for_user(u, reason)
  <2>2. f = [t \in DOMAIN token |->
               IF token[t].user = u /\ token[t].reason = None THEN [token[t] EXCEPT !.reason = reason] ELSE token[t]]
    BY DEF revoke_all_active_for_user
  <2> HIDE DEF f
  <2>3. f \in [DOMAIN token -> TokenRows]
    BY <1>1, <2>1, <2>2
  <2>4. \A t \in DOMAIN token : f[t].user = token[t].user /\ (token[t].reason # None => f[t].reason = token[t].reason)
    BY <1>1, <2>2 DEF TokenRows
  <2>5. TokenWrite(f)
    BY <1>2, <2>3, <2>4
  <2> QED
    BY <2>5 DEF f
<1> QED
  BY <1>3, <1>4, <1>5

\* A consumed invitation is an invitation of the same user.
LEMMA ConsumedRow ==
    ASSUME NEW x \in InviteRows, NEW w, w = [x EXCEPT !.state = "consumed", !.accepted = @ + 1]
    PROVE  w \in InviteRows /\ w.user = x.user /\ w.mailed = x.mailed
<1>1. PICK n : n = x.accepted + 1
  BY Zenon
<1>2. n \in Nat
  BY <1>1 DEF InviteRows
<1>3. w = [x EXCEPT !.state = "consumed", !.accepted = n]
  BY <1>1, Zenon
<1> QED
  BY <1>2, <1>3 DEF InviteRows

\* A write to the password resets, or to the invitations, that keeps every row.
ResetWrite(s) ==
    /\ s \in Seq(ResetRows) /\ DOMAIN reset \subseteq DOMAIN s
    /\ \A i \in DOMAIN reset : s[i].user = reset[i].user
    /\ \A i \in DOMAIN s : user[s[i].user] # None
InviteWrite(s) ==
    /\ s \in Seq(InviteRows) /\ DOMAIN invite \subseteq DOMAIN s
    /\ \A i \in DOMAIN invite : s[i].user = invite[i].user
    /\ \A i \in DOMAIN s : s[i].mailed

\* What the commit of a command does not write, it keeps.
LEMMA AccountKeeps ==
    ASSUME AccountsAssumption, AccountInvariant
    PROVE  UserWrite(user) /\ TokenWrite(token) /\ ResetWrite(reset) /\ InviteWrite(invite)
<1>1. /\ user \in [Users -> UserRows \cup {None}] /\ AccountRefers
      /\ invite \in Seq(InviteRows) /\ reset \in Seq(ResetRows) /\ token \in Seq(TokenRows)
  BY DEF AccountInvariant, AccountTypes
<1>2. UserWrite(user)
  BY <1>1 DEF UserWrite
<1>3. TokenWrite(token) /\ ResetWrite(reset)
  BY <1>1 DEF TokenWrite, ResetWrite, AccountRefers
<1>4. InviteWrite(invite)
  BY <1>1 DEF InviteWrite, AccountInvariant, InvitationWasMailed
<1> QED
  BY <1>2, <1>3, <1>4

\* Commits of this kind keep the invariant and the revocations.
LEMMA AccountWrite ==
    ASSUME AccountsAssumption, AccountInvariant,
           user' \in [Users -> UserRows \cup {None}], \A u \in Users : user[u] # None => user'[u] # None,
           TokenWrite(token'), ResetWrite(reset'), InviteWrite(invite'),
           \A i \in DOMAIN invite' : user'[invite'[i].user] # None,
           InvitedHasInvitation',
           secret' \in Nat, UNCHANGED tx \/ \E p \in Procs : End(p)
    PROVE  AccountInvariant' /\ RevokedStays
<1>1. AccountsGrow
  BY DEF AccountsGrow, TokenWrite, ResetWrite, InviteWrite
<1>2. AccountTypes' /\ AccountReads'
  BY <1>1, AccountCommits DEF AccountInvariant, TokenWrite, ResetWrite, InviteWrite
<1>3. AccountRefers'
  <2>1. token' \in [DOMAIN token' -> TokenRows] /\ reset' \in [DOMAIN reset' -> ResetRows]
    BY SeqLength DEF TokenWrite, ResetWrite
  <2>2. \A t \in DOMAIN token' : token'[t].user \in Users
    BY <2>1 DEF TokenRows
  <2>3. \A t \in DOMAIN reset' : reset'[t].user \in Users
    BY <2>1 DEF ResetRows
  <2> QED
    BY <2>2, <2>3 DEF AccountRefers, TokenWrite, ResetWrite
<1>4. InvitationWasMailed'
  BY DEF InviteWrite, InvitationWasMailed
<1>5. RevokedStays
  BY DEF TokenWrite, RevokedStays
<1> QED
  BY <1>2, <1>3, <1>4, <1>5 DEF AccountInvariant

\* So do those that leave the invitations and invite nobody.
LEMMA AccountWriteOther ==
    ASSUME AccountsAssumption, AccountInvariant,
           UserWrite(user'), TokenWrite(token'), ResetWrite(reset'), UNCHANGED invite,
           secret' \in Nat, UNCHANGED tx \/ \E p \in Procs : End(p)
    PROVE  AccountInvariant' /\ RevokedStays
<1>1. InvitedHasInvitation'
  BY DEF UserWrite, AccountInvariant, InvitedHasInvitation, Status
<1>2. InviteWrite(invite')
  BY AccountKeeps
<1>3. invite \in [DOMAIN invite -> InviteRows]
  BY SeqLength DEF AccountInvariant, AccountTypes
<1>4. \A i \in DOMAIN invite' : user'[invite'[i].user] # None
  BY <1>3 DEF UserWrite, AccountInvariant, AccountRefers, InviteRows
<1> QED
  BY <1>1, <1>2, <1>4, AccountWrite DEF UserWrite

\* issue_session appends a session of an account that exists.
LEMMA SessionIssued ==
    ASSUME NEW s, TokenWrite(s), NEW e \in TokenRows, user[e.user] # None
    PROVE  LET t == Append(s, e) IN TokenWrite(t) /\ DOMAIN t = DOMAIN s \cup {Len(s) + 1} /\ t[Len(s) + 1] = e
<1> DEFINE t == Append(s, e)
<1>1. /\ t \in Seq(TokenRows) /\ DOMAIN t = DOMAIN s \cup {Len(s) + 1}
      /\ t[Len(s) + 1] = e /\ \A i \in DOMAIN s : t[i] = s[i]
  BY SeqAppend DEF TokenWrite
<1> HIDE DEF t
<1>2. TokenWrite(t)
  BY <1>1 DEF TokenWrite
<1> QED
  BY <1>1, <1>2 DEF t

\* The session of a login or of an accepted invitation.
LEMMA SessionBegins ==
    ASSUME AccountsAssumption, AccountInvariant, NEW u \in Users, user[u] # None,
           token' = issue_session(token, u, 0, FALSE)
    PROVE  TokenWrite(token') /\ DOMAIN token' = DOMAIN token \cup {Len(token) + 1} /\ token'[Len(token) + 1].parent = 0
<1> DEFINE e == [user |-> u, parent |-> 0, reason |-> None, mfa |-> FALSE, fresh |-> TRUE]
<1>1. e \in TokenRows /\ e.user = u /\ e.parent = 0
  BY DEF TokenRows
<1>2. token' = Append(token, e)
  BY DEF issue_session
<1> HIDE DEF e
<1>3. TokenWrite(token) /\ user[e.user] # None
  BY <1>1, AccountKeeps
<1>4. TokenWrite(token') /\ DOMAIN token' = DOMAIN token \cup {Len(token) + 1} /\ token'[Len(token) + 1] = e
  BY <1>1, <1>2, <1>3, SessionIssued, Zenon
<1> QED
  BY <1>1, <1>4, Zenon

\* The session that a refresh puts in the place of session t.
LEMMA SessionRotated ==
    ASSUME AccountsAssumption, AccountInvariant, NEW u \in Users, user[u] # None,
           NEW t \in DOMAIN token, NEW saw, saw \in BOOLEAN,
           token' = issue_session(revoke(t, "rotated"), u, t, saw)
    PROVE  TokenWrite(token') /\ (saw = token[t].mfa => SuccessorCarriesStepUp)
<1> DEFINE e == [user |-> u, parent |-> t, reason |-> None, mfa |-> saw, fresh |-> TRUE]
<1>1. t \in Nat
  BY SeqLength DEF AccountInvariant, AccountTypes
<1>2. e \in TokenRows
  BY <1>1 DEF TokenRows
<1>3. user[e.user] # None
  OBVIOUS
<1>4. PICK s : s = revoke(t, "rotated") /\ TokenWrite(s) /\ DOMAIN s = DOMAIN token
  BY TokenWrites DEF AccountInvariant, Reasons
<1>5. token' = Append(s, e)
  BY <1>4 DEF issue_session
<1>6. e.parent = t /\ e.mfa = saw
  OBVIOUS
<1> HIDE DEF e
<1>7. TokenWrite(token') /\ DOMAIN token' = DOMAIN s \cup {Len(s) + 1} /\ token'[Len(s) + 1] = e
  BY <1>2, <1>3, <1>4, <1>5, SessionIssued, Zenon
<1>8. saw = token[t].mfa => SuccessorCarriesStepUp
  BY <1>4, <1>6, <1>7 DEF SuccessorCarriesStepUp
<1> QED
  BY <1>7, <1>8

\* Every command, whatever commands run at the same time, keeps the invariant
\* and the revocations.
LEMMA AccountStep ==
    ASSUME AccountsAssumption, AccountInvariant, [Next]_vars
    PROVE  AccountInvariant' /\ (RevokedStays \/ UNCHANGED vars)
<1> DEFINE Goal == AccountInvariant' /\ (RevokedStays \/ UNCHANGED vars)
<1> SUFFICES Goal
  OBVIOUS
<1>keep. UserWrite(user) /\ TokenWrite(token) /\ ResetWrite(reset) /\ InviteWrite(invite) /\ secret \in Nat
  BY AccountKeeps DEF AccountInvariant, AccountTypes
<1>inv. AccountTypes /\ AccountRefers /\ AccountsAssumption /\ \A q \in Procs : AccountRead(tx[q])
  BY DEF AccountInvariant, AccountReads
<1>rows. /\ invite \in [DOMAIN invite -> InviteRows] /\ reset \in [DOMAIN reset -> ResetRows]
         /\ token \in [DOMAIN token -> TokenRows]
         /\ \A i \in DOMAIN invite : invite[i].user \in Users /\ user[invite[i].user] # None
  <2>1. /\ invite \in [DOMAIN invite -> InviteRows] /\ reset \in [DOMAIN reset -> ResetRows]
        /\ token \in [DOMAIN token -> TokenRows]
    BY SeqLength DEF AccountInvariant, AccountTypes
  <2>2. \A i \in DOMAIN invite : invite[i].user \in Users
    BY <2>1 DEF InviteRows
  <2> QED
    BY <2>1, <2>2 DEF AccountInvariant, AccountRefers
<1> HIDE DEF Goal
<1>other. ASSUME UserWrite(user'), TokenWrite(token'), ResetWrite(reset'), UNCHANGED invite,
                 secret' \in Nat, UNCHANGED tx \/ \E p \in Procs : End(p)
          PROVE  Goal
  BY <1>other, AccountWriteOther DEF Goal
<1>write. ASSUME user' \in [Users -> UserRows \cup {None}],
                 \A u \in Users : user[u] # None => user'[u] # None,
                 TokenWrite(token'), InviteWrite(invite'),
                 \A i \in DOMAIN invite' : user'[invite'[i].user] # None,
                 InvitedHasInvitation',
                 UNCHANGED <<reset, secret>>, UNCHANGED tx \/ \E p \in Procs : End(p)
          PROVE  Goal
  BY <1>write, <1>keep, AccountWrite DEF Goal
<1>1. ASSUME NEW p \in Procs, Read(p) PROVE Goal
  <2>1. PICK r : AccountRead(r) /\ tx' = [tx EXCEPT ![p] = r] /\ UNCHANGED tables
    BY <1>1, AccountReadsStep
  <2>2. UNCHANGED <<user, invite, reset, token, secret>>
    BY <2>1 DEF tables
  <2>3. AccountTypes'
    BY <2>1, <2>2, <1>inv DEF AccountTypes
  <2>4. ASSUME NEW q \in Procs PROVE AccountRead(tx[q])'
    <3>1. PICK x : x = tx'[q] /\ (x = tx[q] \/ x = r)
      BY <2>1, <1>inv, Zenon DEF AccountTypes
    <3>2. AccountRead(x)
      BY <2>1, <3>1, <1>inv
    <3> QED
      BY <2>2, <3>1, <3>2 DEF AccountRead
  <2> QED
    BY <2>2, <2>3, <2>4
    DEF Goal, AccountInvariant, AccountRefers, AccountReads, InvitedHasInvitation, Status,
        InvitationWasMailed, RevokedStays
<1>2. ASSUME NEW p \in Procs, CreateUser(p) PROVE Goal
  <2>1. PICK u \in Users, role \in Roles : u = tx[p].user /\ role = tx[p].saw
    BY <1>2, <1>inv DEF CreateUser, Running, AccountRead
  <2>2. CASE UNCHANGED <<user, invite>>
    BY <1>2, <2>2, <1>keep, <1>other DEF CreateUser
  <2>3. CASE /\ user[u] = None
             /\ user' = [user EXCEPT ![u] = create_invited(role)]
             /\ invite' = Append(invite, create_invitation(u, TRUE))
    <3> DEFINE e == create_invitation(u, TRUE)
    <3>1. e \in InviteRows /\ e.mailed /\ e.user = u /\ e.state = "live"
      BY DEF create_invitation, InviteRows
    <3>2. create_invited(role) \in UserRows
      BY DEF create_invited, UserRows
    <3>3. /\ user' \in [Users -> UserRows \cup {None}] /\ user'[u] # None
          /\ \A v \in Users \ {u} : user'[v] = user[v]
      BY <2>3, <3>2, <1>inv DEF AccountTypes, AccountsAssumption
    <3>e. invite' = Append(invite, e)
      BY <2>3
    <3> HIDE DEF e
    <3>4. /\ invite' \in Seq(InviteRows) /\ DOMAIN invite' = DOMAIN invite \cup {Len(invite) + 1}
          /\ invite'[Len(invite) + 1] = e /\ \A i \in DOMAIN invite : invite'[i] = invite[i]
      BY <3>e, <3>1, <1>inv, SeqAppend DEF AccountTypes
    <3>5. InviteWrite(invite') /\ \A i \in DOMAIN invite' : user'[invite'[i].user] # None
      BY <3>1, <3>3, <3>4, <1>keep, <1>rows DEF InviteWrite
    <3>6. InvitedHasInvitation'
      BY <3>1, <3>3, <3>4 DEF AccountInvariant, InvitedHasInvitation, Status
    <3> QED
      BY <1>2, <3>3, <3>5, <3>6, <1>keep, <1>write DEF CreateUser
  <2> QED
    BY <1>2, <2>1, <2>2, <2>3, Zenon DEF CreateUser, send_invitation_mail
<1>3. ASSUME NEW p \in Procs, ProvisionUser(p) PROVE Goal
  <2>1. PICK u \in Users, role \in Roles : u = tx[p].user /\ role = tx[p].saw
    BY <1>3, <1>inv DEF ProvisionUser, Running, AccountRead
  <2>2. create_active(role) \in UserRows /\ create_active(role).status = "active"
    BY Zenon DEF create_active, create_invited, UserRows
  <2>3. UserWrite(user')
    BY <1>3, <2>1, <2>2, <1>inv, <1>keep DEF ProvisionUser, UserWrite, AccountsAssumption
  <2> QED
    BY <1>3, <2>3, <1>keep, <1>other DEF ProvisionUser
<1>4. ASSUME NEW p \in Procs, AcceptInvitation(p) PROVE Goal
  <2>1. PICK u \in Users, i \in DOMAIN invite :
           u = tx[p].user /\ i = tx[p].id /\ user[u] # None /\ invite[i].user = u
    <3>1. tx[p].cmd = "accept" /\ AccountRead(tx[p])
      BY <1>4, <1>inv, Zenon DEF AcceptInvitation, Running
    <3> QED
      BY <3>1 DEF AccountRead
  <2>2. UserWrite(user') /\ user'[u].status = "active"
    BY <1>4, <2>1, <1>inv, UserWrites DEF AcceptInvitation
  <2>3. /\ invite' \in [DOMAIN invite -> InviteRows]
        /\ \A j \in DOMAIN invite : invite'[j].user = invite[j].user /\ invite'[j].mailed = invite[j].mailed
        /\ \A j \in DOMAIN invite \ {i} : invite'[j] = invite[j]
    <3>1. invite' = [invite EXCEPT ![i].state = "consumed", ![i].accepted = @ + 1]
      BY <1>4, <2>1, Zenon DEF AcceptInvitation, consume_invitation
    <3>2. PICK w : w = [invite[i] EXCEPT !.state = "consumed", !.accepted = @ + 1]
      BY Zenon
    <3>3. w \in InviteRows /\ w.user = invite[i].user /\ w.mailed = invite[i].mailed
      <4>1. invite[i] \in InviteRows
        BY <1>rows, <2>1, Zenon
      <4> QED
        BY ONLY <3>2, <4>1, ConsumedRow
    <3>4. invite'[i] = w /\ invite' \in [DOMAIN invite -> InviteRows]
          /\ \A j \in DOMAIN invite \ {i} : invite'[j] = invite[j]
      BY ONLY <1>rows, <2>1, <3>1, <3>2, <3>3
    <3> QED
      BY ONLY <3>3, <3>4, Zenon
  <2>4. invite' \in Seq(InviteRows) /\ DOMAIN invite' = DOMAIN invite
    BY <2>3, <1>inv, SeqUpdate DEF AccountTypes
  <2>5. InviteWrite(invite') /\ \A j \in DOMAIN invite' : user'[invite'[j].user] # None
    BY <2>2, <2>3, <2>4, <1>keep, <1>rows DEF InviteWrite, UserWrite
  <2>6. InvitedHasInvitation'
    <3>1. ASSUME NEW v \in Users, Status(v)' = "invited"
          PROVE  \E j \in DOMAIN invite' : invite'[j].user = v /\ invite'[j].state = "live"
      <4>1. v # u /\ Status(v) = "invited"
        BY <2>2, <3>1 DEF UserWrite, Status
      <4>2. PICK j \in DOMAIN invite : invite[j].user = v /\ invite[j].state = "live"
        BY <4>1, Zenon DEF AccountInvariant, InvitedHasInvitation
      <4> QED
        BY <2>1, <2>3, <2>4, <4>1, <4>2, Zenon
    <3> QED
      BY <3>1, Zenon DEF InvitedHasInvitation
  <2>7. TokenWrite(token')
    BY <1>4, <2>1, SessionBegins, Zenon DEF AcceptInvitation
  <2> QED
    BY <1>4, <2>2, <2>5, <2>6, <2>7, <1>keep, <1>write DEF AcceptInvitation, UserWrite
<1>5. ASSUME NEW p \in Procs, DisableUser(p) PROVE Goal
  <2>1. PICK u \in Users : u = tx[p].user /\ user[u] # None
    BY <1>5, <1>inv DEF DisableUser, Running, AccountRead
  <2>2. UserWrite(user') /\ TokenWrite(token')
    BY <1>5, <2>1, <1>inv, UserWrites, TokenWrites DEF DisableUser, Reasons
  <2> QED
    BY <1>5, <2>2, <1>keep, <1>other DEF DisableUser
<1>6. ASSUME NEW p \in Procs, ReactivateUser(p) PROVE Goal
  <2>1. PICK u \in Users : u = tx[p].user /\ user[u] # None
    BY <1>6, <1>inv DEF ReactivateUser, Running, AccountRead
  <2>2. UserWrite(user')
    BY <1>6, <2>1, <1>inv, UserWrites DEF ReactivateUser
  <2> QED
    BY <1>6, <2>2, <1>keep, <1>other DEF ReactivateUser
<1>7. ASSUME NEW p \in Procs, ResendInvitation(p) PROVE Goal
  <2>1. PICK u \in Users : u = tx[p].user /\ user[u] # None
    BY <1>7, <1>inv DEF ResendInvitation, Running, AccountRead
  <2>2. CASE UNCHANGED invite
    BY <1>7, <2>2, <1>keep, <1>other DEF ResendInvitation
  <2>3. CASE invite' = Append(revoke_active_for_user(u), create_invitation(u, TRUE))
    <3> DEFINE e == create_invitation(u, TRUE)
               f == revoke_active_for_user(u)
    <3>1. e \in InviteRows /\ e.mailed /\ e.user = u /\ e.state = "live"
      BY DEF create_invitation, InviteRows
    <3>2. f = [i \in DOMAIN invite |->
                  IF invite[i].user = u /\ invite[i].state = "live"
                  THEN [invite[i] EXCEPT !.state = "revoked"] ELSE invite[i]]
      BY DEF revoke_active_for_user
    <3>e. invite' = Append(f, e)
      BY <2>3
    <3> HIDE DEF e, f
    <3>3. \A i \in DOMAIN invite : /\ [invite[i] EXCEPT !.state = "revoked"] \in InviteRows
                                   /\ [invite[i] EXCEPT !.state = "revoked"].user = invite[i].user
                                   /\ [invite[i] EXCEPT !.state = "revoked"].mailed = invite[i].mailed
      BY <1>rows DEF InviteRows
    <3>4. /\ f \in [DOMAIN invite -> InviteRows]
          /\ \A i \in DOMAIN invite : /\ f[i].user = invite[i].user /\ f[i].mailed = invite[i].mailed
                                      /\ invite[i].user # u => f[i] = invite[i]
      BY <3>2, <3>3, <1>rows
    <3>5. f \in Seq(InviteRows) /\ DOMAIN f = DOMAIN invite
      BY <3>4, <1>inv, SeqUpdate DEF AccountTypes
    <3>6. /\ invite' \in Seq(InviteRows) /\ DOMAIN invite' = DOMAIN invite \cup {Len(f) + 1}
          /\ invite'[Len(f) + 1] = e /\ \A i \in DOMAIN invite : invite'[i] = f[i]
      BY <3>e, <3>1, <3>5, SeqAppend
    <3>7. user' = user
      BY <1>7 DEF ResendInvitation
    <3>8. InviteWrite(invite') /\ \A i \in DOMAIN invite' : user'[invite'[i].user] # None
      <4>1. ASSUME NEW i \in DOMAIN invite'
            PROVE  invite'[i].mailed /\ user'[invite'[i].user] # None
        <5>1. CASE i \in DOMAIN invite
          <6>1. invite'[i].user = invite[i].user /\ invite'[i].mailed = invite[i].mailed
            BY <3>4, <3>6, <5>1, Zenon
          <6>2. invite[i].mailed /\ user[invite[i].user] # None
            BY <5>1, <1>keep, <1>rows, Zenon DEF InviteWrite
          <6> QED
            BY <6>1, <6>2, <3>7, Zenon
        <5>2. CASE i = Len(f) + 1
          BY <2>1, <3>1, <3>6, <3>7, <5>2, Zenon
        <5> QED
          BY <3>6, <4>1, <5>1, <5>2, Zenon
      <4>2. \A i \in DOMAIN invite : invite'[i].user = invite[i].user
        BY <3>4, <3>6
      <4> QED
        BY <3>6, <4>1, <4>2, Zenon DEF InviteWrite
    <3>9. InvitedHasInvitation'
      <4>1. \A v \in Users \ {u}, i \in DOMAIN invite : invite[i].user = v => invite'[i] = invite[i]
        BY <3>4, <3>6
      <4> QED
        BY <3>1, <3>6, <3>7, <4>1 DEF AccountInvariant, InvitedHasInvitation, Status
    <3> QED
      BY <1>7, <3>7, <3>8, <3>9, <1>keep, <1>write DEF ResendInvitation, UserWrite
  <2> QED
    BY <1>7, <2>1, <2>2, <2>3, Zenon DEF ResendInvitation, send_invitation_mail
<1>8. ASSUME NEW p \in Procs, bootstrap_initial_admin(p) PROVE Goal
  <2> DEFINE admin == create_active("admin")
  <2>1. PICK u \in Users, saw \in UserRows \cup {None} :
           u = tx[p].user /\ saw = tx[p].saw /\ (saw # None => user[u] # None)
    BY <1>8, <1>inv DEF bootstrap_initial_admin, Running, AccountRead
  <2>2. admin \in UserRows /\ admin.status = "active"
    BY Zenon DEF create_active, create_invited, UserRows, Roles
  <2>3. DOMAIN admin = {"role", "status", "password", "mfa", "secret", "verified"}
    BY DEF create_active, create_invited
  <2> HIDE DEF admin
  <2>4. CASE saw # None
    <3> DEFINE new == [f \in DOMAIN admin |-> IF admin[f] = saw[f] THEN user[u][f] ELSE admin[f]]
    <3>1. user' = [user EXCEPT ![u] = new]
      BY <1>8, <2>1, <2>4, <1>inv DEF bootstrap_initial_admin, AccountTypes, admin
    <3>2. new \in UserRows
      <4>1. user[u] \in UserRows /\ admin \in UserRows
        BY <2>1, <2>2, <2>4, <1>inv DEF AccountTypes
      <4> QED
        BY ONLY <2>3, <4>1 DEF UserRows
    <3>3. new.status = "invited" => user[u].status = "invited"
      BY <2>2, <2>3
    <3> HIDE DEF new
    <3>4. UserWrite(user')
      BY <2>1, <2>4, <3>1, <3>2, <3>3, <1>inv DEF UserWrite, AccountTypes, AccountsAssumption
    <3> QED
      BY <1>8, <3>4, <1>keep, <1>other DEF bootstrap_initial_admin
  <2>5. CASE saw = None
    <3>1. user' = IF user[u] = None THEN [user EXCEPT ![u] = admin] ELSE user
      BY <1>8, <2>1, <2>5 DEF bootstrap_initial_admin, admin
    <3>2. UserWrite(user')
      BY <2>2, <3>1, <1>inv DEF UserWrite, AccountTypes, AccountsAssumption
    <3> QED
      BY <1>8, <3>2, <1>keep, <1>other DEF bootstrap_initial_admin
  <2> QED
    BY <2>4, <2>5
<1>9. ASSUME NEW p \in Procs, PasswordResetRequest(p) PROVE Goal
  <2>1. PICK u \in Users : u = tx[p].user /\ user[u] # None
    BY <1>9, <1>inv DEF PasswordResetRequest, Running, AccountRead
  <2>2. PICK e \in ResetRows : e = create_reset(u) /\ e.user = u
    <3>1. create_reset(u) \in ResetRows
      BY DEF create_reset, ResetRows
    <3>2. create_reset(u).user = u
      BY DEF create_reset
    <3> QED
      BY <3>1, <3>2
  <2>3. reset' = Append(reset, e)
    BY <1>9, <2>1, <2>2 DEF PasswordResetRequest
  <2>4. /\ reset' \in Seq(ResetRows) /\ DOMAIN reset' = DOMAIN reset \cup {Len(reset) + 1}
        /\ reset'[Len(reset) + 1] = e /\ \A i \in DOMAIN reset : reset'[i] = reset[i]
    BY <2>3, <1>inv, SeqAppend DEF AccountTypes
  <2>5. ResetWrite(reset')
    BY <2>1, <2>2, <2>4, <1>keep DEF ResetWrite
  <2> QED
    BY <1>9, <2>5, <1>keep, <1>other DEF PasswordResetRequest
<1>10. ASSUME NEW p \in Procs, PasswordResetConfirm(p) PROVE Goal
  <2>1. PICK u \in Users, r \in DOMAIN reset : u = tx[p].user /\ user[u] # None /\ r = tx[p].id
    BY <1>10, <1>inv DEF PasswordResetConfirm, Running, AccountRead
  <2>2. UserWrite(user') /\ TokenWrite(token')
    BY <1>10, <2>1, <1>inv, UserWrites, TokenWrites DEF PasswordResetConfirm, Reasons
  <2>3. reset' \in [DOMAIN reset -> ResetRows] /\ \A i \in DOMAIN reset : reset'[i].user = reset[i].user
    <3>1. reset' = [reset EXCEPT ![r].consumed = TRUE, ![r].used = @ + 1]
      BY <1>10, <2>1 DEF PasswordResetConfirm, consume_reset
    <3>2. reset[r] \in ResetRows
      BY <1>rows
    <3>3. PICK e : e = [reset[r] EXCEPT !.consumed = TRUE, !.used = reset[r].used + 1]
      OBVIOUS
    <3>4. e \in ResetRows /\ e.user = reset[r].user
      <4>1. PICK n \in Nat : n = reset[r].used + 1
        BY <3>2 DEF ResetRows
      <4>2. e = [reset[r] EXCEPT !.consumed = TRUE, !.used = n]
        BY <3>3, <4>1
      <4> QED
        BY <3>2, <4>2, Zenon DEF ResetRows
    <3>5. reset' = [reset EXCEPT ![r] = e]
      BY <3>1, <3>2, <3>3, <1>rows, Zenon DEF ResetRows
    <3> QED
      BY <3>4, <3>5, <1>rows
  <2>4. reset' \in Seq(ResetRows) /\ DOMAIN reset' = DOMAIN reset
    BY <2>3, <1>inv, SeqUpdate DEF AccountTypes
  <2>5. ResetWrite(reset')
    BY <2>3, <2>4, <1>keep DEF ResetWrite
  <2> QED
    BY <1>10, <2>2, <2>5, <1>keep, <1>other DEF PasswordResetConfirm
<1>11. ASSUME NEW p \in Procs, Login(p) PROVE Goal
  <2>1. PICK u \in Users : u = tx[p].user /\ user[u] # None
    BY <1>11, <1>inv DEF Login, Running, AccountRead
  <2>2. TokenWrite(token')
    BY <1>11, <2>1, SessionBegins, Zenon DEF Login
  <2> QED
    BY <1>11, <2>2, <1>keep, <1>other DEF Login
<1>12. ASSUME NEW p \in Procs, RefreshReused(p) PROVE Goal
  <2>1. PICK u \in Users : u = tx[p].user
    BY <1>12, <1>inv DEF RefreshReused, Running, AccountRead
  <2>2. TokenWrite(token')
    BY <1>12, <2>1, <1>inv, TokenWrites DEF RefreshReused, Reasons
  <2> QED
    BY <1>12, <2>2, <1>keep, <1>other DEF RefreshReused
<1>13. ASSUME NEW p \in Procs, Refresh(p) PROVE Goal
  <2>1. PICK u \in Users, t \in DOMAIN token :
           u = tx[p].user /\ user[u] # None /\ t = tx[p].id /\ tx[p].saw \in BOOLEAN
    BY <1>13, <1>inv DEF Refresh, Running, AccountRead
  <2>2. TokenWrite(token')
    BY <1>13, <2>1, SessionRotated DEF Refresh
  <2> QED
    BY <1>13, <2>2, <1>keep, <1>other DEF Refresh
<1>14. ASSUME NEW p \in Procs, Logout(p) PROVE Goal
  <2>1. PICK u \in Users, t \in DOMAIN token : u = tx[p].user /\ t = tx[p].id
    BY <1>14, <1>inv DEF Logout, Running, AccountRead
  <2>2. TokenWrite(token')
    BY <1>14, <2>1, <1>inv, TokenWrites DEF Logout, Reasons
  <2> QED
    BY <1>14, <2>2, <1>keep, <1>other DEF Logout
<1>15. ASSUME NEW p \in Procs, SetupTwoFactor(p) PROVE Goal
  <2>1. PICK u \in Users : u = tx[p].user /\ user[u] # None
    BY <1>15, <1>inv DEF SetupTwoFactor, Running, AccountRead
  <2>2. PICK s \in Nat : s = secret'
    BY <1>15, <1>keep DEF SetupTwoFactor
  <2>3. UserWrite(user')
    BY <1>15, <2>1, <2>2, <1>inv, UserWrites DEF SetupTwoFactor
  <2> QED
    BY <1>15, <2>2, <2>3, <1>keep, <1>other DEF SetupTwoFactor
<1>16. ASSUME NEW p \in Procs, VerifyTwoFactor(p) PROVE Goal
  <2>1. PICK u \in Users, t \in DOMAIN token, n \in Nat, mfa \in BOOLEAN :
           u = tx[p].user /\ user[u] # None /\ t = tx[p].id /\ n = tx[p].saw.secret /\ mfa = tx[p].saw.mfa
    BY <1>16, <1>inv DEF VerifyTwoFactor, Running, AccountRead
  <2>2. PICK f : f = (IF mfa THEN user ELSE enable_mfa(u)) /\ UserWrite(f)
    BY <2>1, <1>inv, <1>keep, UserWrites
  <2>3. user' = [f EXCEPT ![u].verified = @ \cup {n}]
    BY <1>16, <2>1, <2>2 DEF VerifyTwoFactor
  <2>4. f[u] \in UserRows
    BY <2>1, <2>2 DEF UserWrite
  <2>5. UserWrite(user')
    BY <2>2, <2>3, <2>4, <1>inv DEF UserWrite, UserRows, AccountsAssumption
  <2>6. TokenWrite(token')
    BY <1>16, <2>1, <1>inv, TokenWrites DEF VerifyTwoFactor, Reasons
  <2> QED
    BY <1>16, <2>5, <2>6, <1>keep, <1>other DEF VerifyTwoFactor
<1>17. ASSUME NEW p \in Procs, Rollback(p) PROVE Goal
  BY <1>17, <1>keep, <1>other DEF Rollback, tables
<1>18. CASE TimePasses
  <2>1. ASSUME NEW i \in DOMAIN invite, invite' = [invite EXCEPT ![i].fresh = FALSE],
               UNCHANGED <<user, reset, token, secret, tx>>
        PROVE  Goal
    <3>1. /\ invite' \in [DOMAIN invite -> InviteRows]
          /\ \A j \in DOMAIN invite : /\ invite'[j].user = invite[j].user /\ invite'[j].mailed = invite[j].mailed
                                      /\ invite'[j].state = invite[j].state
      <4>1. PICK w : w = [invite[i] EXCEPT !.fresh = FALSE]
        BY Zenon
      <4>2. /\ w \in InviteRows /\ w.user = invite[i].user /\ w.mailed = invite[i].mailed
            /\ w.state = invite[i].state
        BY ONLY <1>rows, <4>1, i \in DOMAIN invite DEF InviteRows
      <4>3. /\ invite'[i] = w /\ invite' \in [DOMAIN invite -> InviteRows]
            /\ \A j \in DOMAIN invite \ {i} : invite'[j] = invite[j]
        BY ONLY <1>rows, <2>1, <4>1, <4>2, i \in DOMAIN invite
      <4> QED
        BY ONLY <4>2, <4>3, Zenon
    <3>2. invite' \in Seq(InviteRows) /\ DOMAIN invite' = DOMAIN invite
      BY <3>1, <1>inv, SeqUpdate DEF AccountTypes
    <3>3. InviteWrite(invite') /\ \A j \in DOMAIN invite' : user'[invite'[j].user] # None
      BY <2>1, <3>1, <3>2, <1>keep, <1>rows DEF InviteWrite
    <3>4. InvitedHasInvitation'
      BY <2>1, <3>1, <3>2 DEF AccountInvariant, InvitedHasInvitation, Status
    <3> QED
      BY <2>1, <3>3, <3>4, <1>keep, <1>write DEF UserWrite
  <2>2. ASSUME NEW r \in DOMAIN reset, reset' = [reset EXCEPT ![r].fresh = FALSE],
               UNCHANGED <<user, invite, token, secret, tx>>
        PROVE  Goal
    <3>1. reset' \in [DOMAIN reset -> ResetRows] /\ \A i \in DOMAIN reset : reset'[i].user = reset[i].user
      BY <2>2, <1>rows, Zenon DEF ResetRows
    <3>2. reset' \in Seq(ResetRows) /\ DOMAIN reset' = DOMAIN reset
      BY <3>1, <1>inv, SeqUpdate DEF AccountTypes
    <3>3. ResetWrite(reset')
      BY <3>1, <3>2, <1>keep DEF ResetWrite
    <3> QED
      BY <2>2, <3>3, <1>keep, <1>other
  <2>3. ASSUME NEW t \in DOMAIN token, token' = [token EXCEPT ![t].fresh = FALSE],
               UNCHANGED <<user, invite, reset, secret, tx>>
        PROVE  Goal
    <3>1. /\ token' \in [DOMAIN token -> TokenRows]
          /\ \A i \in DOMAIN token : token'[i].user = token[i].user /\ token'[i].reason = token[i].reason
      BY <2>3, <1>rows, Zenon DEF TokenRows
    <3>2. token' \in Seq(TokenRows) /\ DOMAIN token' = DOMAIN token
      BY <3>1, <1>inv, SeqUpdate DEF AccountTypes
    <3>3. TokenWrite(token')
      BY <3>1, <3>2, <1>keep DEF TokenWrite
    <3> QED
      BY <2>3, <3>3, <1>keep, <1>other
  <2> QED
    BY <1>18, <2>1, <2>2, <2>3 DEF TimePasses
<1>19. CASE UNCHANGED vars
  BY <1>19, <1>keep, <1>other DEF vars
<1> QED
  BY <1>1, <1>2, <1>3, <1>4, <1>5, <1>6, <1>7, <1>8, <1>9, <1>10, <1>11, <1>12, <1>13, <1>14, <1>15,
     <1>16, <1>17, <1>18, <1>19
  DEF Next, Write

AccountFactors == (\A p \in Procs : AccountFresh(tx[p])) /\ EnabledSecretIsVerified

\* A write to the users that leaves the second factors alone; a new account has none.
FactorsKept ==
    \A v \in Users :
        IF user[v] = None
        THEN user'[v] = None \/ ~ user'[v].mfa
        ELSE /\ user'[v] # None /\ user'[v].mfa = user[v].mfa
             /\ user'[v].secret = user[v].secret /\ user'[v].verified = user[v].verified

\* A write to the refresh tokens that leaves their owners and second factors alone.
StepUpsKept(s) ==
    \A t \in DOMAIN token : t \in DOMAIN s /\ s[t].user = token[t].user /\ s[t].mfa = token[t].mfa

\* The writes of user_repository that leave the second factors alone.
LEMMA UserKeepsFactors ==
    ASSUME AccountsAssumption, AccountTypes, NEW u \in Users, user[u] # None,
           \/ user' = activate(u) \/ user' = disable(u)
           \/ user' = reactivate(u) \/ user' = set_password(u)
    PROVE  FactorsKept
<1>1. user[u] \in UserRows /\ user \in [Users -> UserRows \cup {None}] /\ None \notin UserRows
  BY DEF AccountTypes, AccountsAssumption
<1>2. ASSUME NEW r \in UserRows, user' = [user EXCEPT ![u] = r],
             r.mfa = user[u].mfa, r.secret = user[u].secret, r.verified = user[u].verified
      PROVE  FactorsKept
  <2>1. user'[u] = r /\ r # None /\ \A v \in Users \ {u} : user'[v] = user[v]
    BY <1>1, <1>2
  <2> QED
    BY <1>2, <2>1 DEF FactorsKept
<1>3. CASE user' = activate(u)
  <2>1. PICK r : r = [user[u] EXCEPT !.password = TRUE, !.status = "active"]
    OBVIOUS
  <2>2. r \in UserRows /\ r.mfa = user[u].mfa /\ r.secret = user[u].secret /\ r.verified = user[u].verified
    BY ONLY <1>1, <2>1 DEF UserRows
  <2>3. user' = [user EXCEPT ![u] = r]
    BY ONLY <1>1, <1>3, <2>1 DEF activate
  <2> QED
    BY <1>2, <2>2, <2>3
<1>4. CASE user' = disable(u)
  <2>1. PICK r : r = [user[u] EXCEPT !.status = "disabled"]
    OBVIOUS
  <2>2. r \in UserRows /\ r.mfa = user[u].mfa /\ r.secret = user[u].secret /\ r.verified = user[u].verified
    BY ONLY <1>1, <2>1 DEF UserRows
  <2> QED
    BY <1>2, <1>4, <2>1, <2>2 DEF disable
<1>5. CASE user' = reactivate(u)
  <2>1. PICK r : r = [user[u] EXCEPT !.status = "active"]
    OBVIOUS
  <2>2. r \in UserRows /\ r.mfa = user[u].mfa /\ r.secret = user[u].secret /\ r.verified = user[u].verified
    BY ONLY <1>1, <2>1 DEF UserRows
  <2> QED
    BY <1>2, <1>5, <2>1, <2>2 DEF reactivate
<1>6. CASE user' = set_password(u)
  <2>1. PICK r : r = [user[u] EXCEPT !.password = TRUE]
    OBVIOUS
  <2>2. r \in UserRows /\ r.mfa = user[u].mfa /\ r.secret = user[u].secret /\ r.verified = user[u].verified
    BY ONLY <1>1, <2>1 DEF UserRows
  <2> QED
    BY <1>2, <1>6, <2>1, <2>2 DEF set_password
<1> QED
  BY <1>3, <1>4, <1>5, <1>6

\* The writes of refresh_token_repository that leave the second factors alone.
LEMMA TokenKeepsStepUps ==
    ASSUME AccountTypes, NEW reason
    PROVE  /\ StepUpsKept(token)
           /\ \A t \in DOMAIN token : StepUpsKept(revoke(t, reason))
           /\ \A u : StepUpsKept(revoke_all_active_for_user(u, reason))
<1>1. token \in [DOMAIN token -> TokenRows]
  BY SeqLength DEF AccountTypes
<1>2. \A i \in DOMAIN token : LET r == [token[i] EXCEPT !.reason = reason] IN
          r.user = token[i].user /\ r.mfa = token[i].mfa
  BY <1>1 DEF TokenRows
<1>3. ASSUME NEW s, DOMAIN s = DOMAIN token,
             \A i \in DOMAIN token : s[i] = token[i] \/ s[i] = [token[i] EXCEPT !.reason = reason]
      PROVE  StepUpsKept(s)
  BY <1>2, <1>3, Zenon DEF StepUpsKept
<1>4. ASSUME NEW t \in DOMAIN token PROVE StepUpsKept(revoke(t, reason))
  <2>1. PICK s : s = revoke(t, reason)
    OBVIOUS
  <2>2. s = token \/ s = [token EXCEPT ![t].reason = reason]
    BY <2>1, Zenon DEF revoke
  <2>3. DOMAIN s = DOMAIN token
        /\ \A i \in DOMAIN token : s[i] = token[i] \/ s[i] = [token[i] EXCEPT !.reason = reason]
    BY <1>1, <2>2
  <2> QED
    BY <1>3, <2>1, <2>3
<1>5. ASSUME NEW u PROVE StepUpsKept(revoke_all_active_for_user(u, reason))
  <2>1. PICK s : s = revoke_all_active_for_user(u, reason)
    OBVIOUS
  <2>2. DOMAIN s = DOMAIN token
        /\ \A i \in DOMAIN token : s[i] = token[i] \/ s[i] = [token[i] EXCEPT !.reason = reason]
    BY <2>1, Zenon DEF revoke_all_active_for_user
  <2> QED
    BY <1>3, <2>1, <2>2
<1> QED
  BY <1>3, <1>4, <1>5

\* So does issue_session.
LEMMA IssueKeepsStepUps ==
    ASSUME NEW s \in Seq(TokenRows), StepUpsKept(s), NEW u \in Users, NEW parent \in Nat, NEW mfa, mfa \in BOOLEAN
    PROVE  StepUpsKept(issue_session(s, u, parent, mfa))
<1> DEFINE e == [user |-> u, parent |-> parent, reason |-> None, mfa |-> mfa, fresh |-> TRUE]
<1>1. e \in TokenRows
  BY DEF TokenRows
<1>2. issue_session(s, u, parent, mfa) = Append(s, e)
  BY DEF issue_session
<1> HIDE DEF e
<1>3. DOMAIN Append(s, e) = DOMAIN s \cup {Len(s) + 1} /\ \A i \in DOMAIN s : Append(s, e)[i] = s[i]
  BY <1>1, SeqAppend
<1> QED
  BY <1>2, <1>3, Zenon DEF StepUpsKept

\* Such writes keep what a command has read of the second factors.
LEMMA FreshStays ==
    ASSUME NEW r, AccountRead(r), AccountFresh(r), FactorsKept, StepUpsKept(token')
    PROVE  AccountFresh(r)'
<1>1. CASE r.cmd = "refresh"
  BY <1>1 DEF AccountFresh, AccountRead, StepUpsKept
<1>2. CASE r.cmd = "bootstrap"
  BY <1>2 DEF AccountFresh, AccountRead, FactorsKept
<1>3. CASE r.cmd = "setup"
  BY <1>3 DEF AccountFresh, AccountRead, FactorsKept
<1>4. CASE r.cmd = "verify"
  BY <1>4 DEF AccountFresh, AccountRead, FactorsKept, StepUpsKept
<1> QED
  BY <1>1, <1>2, <1>3, <1>4 DEF AccountFresh

\* Every command keeps the second factors in order, and a refresh carries them over,
\* while no verification overlaps a set-up, a bootstrap or a refresh.
LEMMA AccountFactorStep ==
    ASSUME AccountsAssumption, AccountInvariant, AccountFactors, VerificationsAreAlone, [Next]_vars
    PROVE  AccountFactors' /\ [SuccessorCarriesStepUp]_vars
<1> DEFINE Goal == AccountFactors' /\ [SuccessorCarriesStepUp]_vars
<1> SUFFICES Goal
  OBVIOUS
<1>inv. /\ AccountTypes /\ AccountRefers /\ EnabledSecretIsVerified /\ None \notin UserRows
        /\ \A q \in Procs : AccountRead(tx[q]) /\ AccountFresh(tx[q])
  BY DEF AccountInvariant, AccountReads, AccountFactors, AccountsAssumption
<1>types. /\ user \in [Users -> UserRows \cup {None}] /\ tx = [q \in Procs |-> tx[q]]
          /\ token \in Seq(TokenRows) /\ DOMAIN token \subseteq Nat
  BY <1>inv, SeqLength DEF AccountTypes
<1> HIDE DEF Goal
<1>fresh. ASSUME NEW p \in Procs, End(p), NEW q \in Procs,
                 q # p => \E r : r = tx[q] /\ AccountFresh(r)'
          PROVE  AccountFresh(tx[q])'
  <2>1. CASE q = p
    <3>1. tx'[q] = Idle
      BY <1>fresh, <2>1, <1>types DEF End
    <3> QED
      BY <3>1 DEF AccountFresh, Idle
  <2>2. CASE q # p
    <3>1. PICK r : r = tx[q] /\ AccountFresh(r)'
      BY <1>fresh, <2>2
    <3>2. tx'[q] = r
      BY <1>fresh, <2>2, <3>1, <1>types DEF End
    <3> QED
      BY <3>1, <3>2 DEF AccountFresh
  <2> QED
    BY <2>1, <2>2
<1>end. ASSUME NEW p \in Procs, End(p), SuccessorCarriesStepUp, EnabledSecretIsVerified',
               \A q \in Procs \ {p} : \E r : r = tx[q] /\ AccountFresh(r)'
        PROVE  Goal
  <2>1. \A q \in Procs : AccountFresh(tx[q])'
    BY <1>end, <1>fresh, Zenon
  <2> QED
    BY <1>end, <2>1 DEF Goal, AccountFactors
<1>verified. FactorsKept => EnabledSecretIsVerified'
  BY <1>inv DEF FactorsKept, EnabledSecretIsVerified
<1>kept. ASSUME NEW p \in Procs, End(p), FactorsKept, StepUpsKept(token'), SuccessorCarriesStepUp
         PROVE  Goal
  <2>1. ASSUME NEW q \in Procs \ {p} PROVE \E r : r = tx[q] /\ AccountFresh(r)'
    <3>1. PICK r : r = tx[q] /\ AccountRead(r) /\ AccountFresh(r)
      BY <1>inv, Zenon
    <3>2. AccountFresh(r)'
      BY <1>kept, <3>1, FreshStays
    <3> QED
      BY <3>1, <3>2
  <2> QED
    BY <1>kept, <1>end, <1>verified, <2>1
<1>users. user' = user => FactorsKept
  BY DEF FactorsKept
<1>tokens. token' = token => StepUpsKept(token') /\ SuccessorCarriesStepUp
  BY <1>inv, TokenKeepsStepUps DEF SuccessorCarriesStepUp
<1>all. ASSUME NEW u, NEW reason, token' = revoke_all_active_for_user(u, reason)
        PROVE  StepUpsKept(token') /\ SuccessorCarriesStepUp
  <2>1. DOMAIN token' = DOMAIN token
    BY <1>all DEF revoke_all_active_for_user
  <2> QED
    BY <1>all, <2>1, <1>inv, TokenKeepsStepUps DEF SuccessorCarriesStepUp
<1>login. ASSUME NEW u \in Users, user[u] # None, token' = issue_session(token, u, 0, FALSE)
          PROVE  StepUpsKept(token') /\ SuccessorCarriesStepUp
  <2>1. SuccessorCarriesStepUp
    BY <1>login, SessionBegins, Zenon DEF SuccessorCarriesStepUp
  <2>2. StepUpsKept(token')
    BY <1>login, <1>types, <1>inv, TokenKeepsStepUps, IssueKeepsStepUps
  <2> QED
    BY <2>1, <2>2
<1>1. ASSUME NEW p \in Procs, Read(p) PROVE Goal
  <2>1. PICK r : AccountFresh(r) /\ tx' = [tx EXCEPT ![p] = r] /\ UNCHANGED tables
    BY <1>1, AccountReadsStep
  <2>2. UNCHANGED <<user, invite, reset, token, secret>>
    BY <2>1 DEF tables
  <2>3. ASSUME NEW q \in Procs PROVE AccountFresh(tx[q])'
    <3>1. PICK s : s = tx'[q] /\ AccountFresh(s)
      BY <2>1, <1>types, <1>inv
    <3> QED
      BY <2>2, <3>1 DEF AccountFresh
  <2> QED
    BY <2>2, <2>3, <1>users, <1>verified, <1>tokens DEF Goal, AccountFactors
<1>2. ASSUME NEW p \in Procs, CreateUser(p) PROVE Goal
  <2>1. PICK u \in Users : u = tx[p].user
    BY <1>2, <1>inv DEF CreateUser, Running, AccountRead
  <2>2. user' = user \/ (user[u] = None /\ user' = [user EXCEPT ![u] = create_invited(tx[p].saw)])
    BY <1>2, <2>1 DEF CreateUser
  <2>3. ~ create_invited(tx[p].saw).mfa
    BY DEF create_invited
  <2>4. FactorsKept
    BY <2>2, <2>3, <1>types, Zenon DEF FactorsKept
  <2> QED
    BY <1>2, <2>4, <1>kept, <1>tokens DEF CreateUser
<1>3. ASSUME NEW p \in Procs, ProvisionUser(p) PROVE Goal
  <2>1. PICK u \in Users : u = tx[p].user
    BY <1>3, <1>inv DEF ProvisionUser, Running, AccountRead
  <2>2. user' = user \/ (user[u] = None /\ user' = [user EXCEPT ![u] = create_active(tx[p].saw)])
    BY <1>3, <2>1 DEF ProvisionUser
  <2>3. ~ create_active(tx[p].saw).mfa
    BY DEF create_active, create_invited
  <2>4. FactorsKept
    BY <2>2, <2>3, <1>types, Zenon DEF FactorsKept
  <2> QED
    BY <1>3, <2>4, <1>kept, <1>tokens DEF ProvisionUser
<1>4. ASSUME NEW p \in Procs, AcceptInvitation(p) PROVE Goal
  <2>1. PICK u \in Users : u = tx[p].user /\ user[u] # None
    BY <1>4, <1>inv DEF AcceptInvitation, Running, AccountRead
  <2>2. FactorsKept
    BY <1>4, <2>1, <1>inv, UserKeepsFactors DEF AcceptInvitation
  <2>3. StepUpsKept(token') /\ SuccessorCarriesStepUp
    BY <1>4, <2>1, <1>login, Zenon DEF AcceptInvitation
  <2> QED
    BY <1>4, <2>2, <2>3, <1>kept DEF AcceptInvitation
<1>5. ASSUME NEW p \in Procs, DisableUser(p) PROVE Goal
  <2>1. PICK u \in Users : u = tx[p].user /\ user[u] # None
    BY <1>5, <1>inv DEF DisableUser, Running, AccountRead
  <2>2. FactorsKept
    BY <1>5, <2>1, <1>inv, UserKeepsFactors DEF DisableUser
  <2> QED
    BY <1>5, <2>2, <1>all, <1>kept, Zenon DEF DisableUser
<1>6. ASSUME NEW p \in Procs, ReactivateUser(p) PROVE Goal
  <2>1. PICK u \in Users : u = tx[p].user /\ user[u] # None
    BY <1>6, <1>inv DEF ReactivateUser, Running, AccountRead
  <2>2. FactorsKept
    BY <1>6, <2>1, <1>inv, UserKeepsFactors DEF ReactivateUser
  <2> QED
    BY <1>6, <2>2, <1>tokens, <1>kept DEF ReactivateUser
<1>7. ASSUME NEW p \in Procs, ResendInvitation(p) PROVE Goal
  BY <1>7, <1>users, <1>tokens, <1>kept DEF ResendInvitation
<1>8. ASSUME NEW p \in Procs, bootstrap_initial_admin(p) PROVE Goal
  <2> DEFINE admin == create_active("admin")
  <2>1. PICK u \in Users, saw \in UserRows \cup {None} : u = tx[p].user /\ saw = tx[p].saw
    BY <1>8, <1>inv DEF bootstrap_initial_admin, Running, AccountRead
  <2>2. ~ admin.mfa /\ DOMAIN admin = {"role", "status", "password", "mfa", "secret", "verified"}
    BY DEF create_active, create_invited
  <2> HIDE DEF admin
  <2>3. CASE saw # None
    <3> DEFINE new == [f \in DOMAIN admin |-> IF admin[f] = saw[f] THEN user[u][f] ELSE admin[f]]
    <3>1. tx[p].cmd = "bootstrap"
      BY <1>8, <2>1, <2>3, <1>inv DEF bootstrap_initial_admin, Running, AccountRead
    <3>2. saw.mfa \/ ~ user[u].mfa
      BY <2>1, <2>3, <3>1, <1>inv, Zenon DEF AccountFresh
    <3>3. user' = [user EXCEPT ![u] = new]
      BY <1>8, <2>1, <2>3, <1>types DEF bootstrap_initial_admin, admin
    <3>4. ~ new.mfa
      <4>1. saw.mfa \in BOOLEAN
        BY <2>3 DEF UserRows
      <4>2. new.mfa = IF admin.mfa = saw.mfa THEN user[u].mfa ELSE admin.mfa
        BY <2>2
      <4> QED
        BY <2>2, <3>2, <4>1, <4>2
    <3> HIDE DEF new
    <3>5. user'[u] = new /\ \A v \in Users \ {u} : user'[v] = user[v]
      BY <3>3, <1>types
    <3>6. EnabledSecretIsVerified'
      BY <3>4, <3>5, <1>inv DEF EnabledSecretIsVerified
    <3>7. ASSUME NEW q \in Procs \ {p} PROVE \E r : r = tx[q] /\ AccountFresh(r)'
      <4>1. PICK r : r = tx[q] /\ AccountRead(r) /\ AccountFresh(r)
        BY <1>inv, Zenon
      <4>2. r.cmd = "verify" => r.user # u
        BY <2>1, <3>1, <4>1, Zenon DEF VerificationsAreAlone
      <4>3. token' = token
        BY <1>8 DEF bootstrap_initial_admin
      <4>4. AccountFresh(r)'
        BY <3>4, <3>5, <4>1, <4>2, <4>3 DEF AccountFresh, AccountRead
      <4> QED
        BY <4>1, <4>4
    <3> QED
      BY <1>8, <3>6, <3>7, <1>tokens, <1>end DEF bootstrap_initial_admin
  <2>4. CASE saw = None
    <3>1. user' = user \/ (user[u] = None /\ user' = [user EXCEPT ![u] = admin])
      BY <1>8, <2>1, <2>4 DEF bootstrap_initial_admin, admin
    <3>2. FactorsKept
      BY <2>2, <3>1, <1>types, Zenon DEF FactorsKept
    <3> QED
      BY <1>8, <3>2, <1>tokens, <1>kept DEF bootstrap_initial_admin
  <2> QED
    BY <2>3, <2>4
<1>9. ASSUME NEW p \in Procs, PasswordResetRequest(p) PROVE Goal
  BY <1>9, <1>users, <1>tokens, <1>kept DEF PasswordResetRequest
<1>10. ASSUME NEW p \in Procs, PasswordResetConfirm(p) PROVE Goal
  <2>1. PICK u \in Users : u = tx[p].user /\ user[u] # None
    BY <1>10, <1>inv DEF PasswordResetConfirm, Running, AccountRead
  <2>2. FactorsKept
    BY <1>10, <2>1, <1>inv, UserKeepsFactors DEF PasswordResetConfirm
  <2> QED
    BY <1>10, <2>2, <1>all, <1>kept, Zenon DEF PasswordResetConfirm
<1>11. ASSUME NEW p \in Procs, Login(p) PROVE Goal
  <2>1. PICK u \in Users : u = tx[p].user /\ user[u] # None
    BY <1>11, <1>inv DEF Login, Running, AccountRead
  <2>2. StepUpsKept(token') /\ SuccessorCarriesStepUp
    BY <1>11, <2>1, <1>login, Zenon DEF Login
  <2> QED
    BY <1>11, <2>2, <1>users, <1>kept DEF Login
<1>12. ASSUME NEW p \in Procs, RefreshReused(p) PROVE Goal
  <2>1. StepUpsKept(token') /\ SuccessorCarriesStepUp
    BY <1>12, <1>all, Zenon DEF RefreshReused
  <2> QED
    BY <1>12, <2>1, <1>users, <1>kept DEF RefreshReused
<1>13. ASSUME NEW p \in Procs, Refresh(p) PROVE Goal
  <2>1. PICK u \in Users, t \in DOMAIN token :
           /\ u = tx[p].user /\ user[u] # None /\ t = tx[p].id
           /\ tx[p].saw \in BOOLEAN /\ tx[p].saw = token[t].mfa
    BY <1>13, <1>inv DEF Refresh, Running, AccountRead, AccountFresh
  <2>2. SuccessorCarriesStepUp
    BY <1>13, <2>1, SessionRotated DEF Refresh
  <2>3. PICK s : s = revoke(t, "rotated") /\ s \in Seq(TokenRows) /\ StepUpsKept(s)
    <3>1. "rotated" \in Reasons
      BY DEF Reasons
    <3>2. TokenWrite(revoke(t, "rotated")) /\ StepUpsKept(revoke(t, "rotated"))
      BY <1>inv, <2>1, <3>1, TokenWrites, TokenKeepsStepUps, Zenon
    <3> QED
      BY <3>2, Zenon DEF TokenWrite
  <2>4. StepUpsKept(token')
    BY <1>13, <2>1, <2>3, <1>types, IssueKeepsStepUps DEF Refresh
  <2> QED
    BY <1>13, <2>2, <2>4, <1>users, <1>kept DEF Refresh
<1>14. ASSUME NEW p \in Procs, Logout(p) PROVE Goal
  <2>1. PICK t \in DOMAIN token, u \in Users : t = tx[p].id
    BY <1>14, <1>inv DEF Logout, Running, AccountRead
  <2>2. DOMAIN token' = DOMAIN token
    BY <1>14, <2>1, <1>inv, TokenWrites DEF Logout, Reasons
  <2>3. StepUpsKept(token')
    BY <1>14, <2>1, <1>inv, TokenKeepsStepUps DEF Logout
  <2>4. SuccessorCarriesStepUp
    BY <2>2 DEF SuccessorCarriesStepUp
  <2> QED
    BY <1>14, <2>3, <2>4, <1>users, <1>kept DEF Logout
<1>15. ASSUME NEW p \in Procs, SetupTwoFactor(p) PROVE Goal
  <2>1. PICK u \in Users : u = tx[p].user /\ user[u] # None /\ ~ user[u].mfa
    BY <1>15, <1>inv DEF SetupTwoFactor, Running, AccountRead, AccountFresh
  <2>2. PICK s : user' = [user EXCEPT ![u].secret = s]
    BY <1>15, <2>1, Zenon DEF SetupTwoFactor, set_mfa_secret
  <2>3. user[u] \in UserRows /\ user'[u] = [user[u] EXCEPT !.secret = s]
    BY <2>1, <2>2, <1>types
  <2>4. ~ user'[u].mfa /\ \A v \in Users \ {u} : user'[v] = user[v]
    BY <2>1, <2>2, <2>3, <1>types DEF UserRows
  <2>5. EnabledSecretIsVerified'
    BY <2>4, <1>inv DEF EnabledSecretIsVerified
  <2>6. ASSUME NEW q \in Procs \ {p} PROVE \E r : r = tx[q] /\ AccountFresh(r)'
    <3>1. PICK r : r = tx[q] /\ AccountRead(r) /\ AccountFresh(r)
      BY <1>inv, Zenon
    <3>2. tx[p].cmd = "setup"
      BY <1>15 DEF SetupTwoFactor, Running
    <3>3. r.cmd = "verify" => r.user # u
      BY <2>1, <3>1, <3>2, Zenon DEF VerificationsAreAlone
    <3>4. token' = token
      BY <1>15 DEF SetupTwoFactor
    <3>5. AccountFresh(r)'
      BY <2>4, <3>1, <3>3, <3>4 DEF AccountFresh, AccountRead
    <3> QED
      BY <3>1, <3>5
  <2> QED
    BY <1>15, <2>5, <2>6, <1>tokens, <1>end DEF SetupTwoFactor
<1>16. ASSUME NEW p \in Procs, VerifyTwoFactor(p) PROVE Goal
  <2>0. tx[p].cmd = "verify" /\ AccountFresh(tx[p]) /\ AccountRead(tx[p])
    BY <1>16, <1>inv, Zenon DEF VerifyTwoFactor, Running
  <2>1. PICK u \in Users, t \in DOMAIN token :
           u = tx[p].user /\ user[u] # None /\ t = tx[p].id /\ token[t].user = u
    BY <2>0 DEF AccountRead, AccountFresh
  <2>2. PICK n : n = tx[p].saw.secret /\ n = user[u].secret
    BY <2>0, <2>1, Zenon DEF AccountFresh
  <2>3. PICK f : f = (IF tx[p].saw.mfa THEN user ELSE [user EXCEPT ![u].mfa = TRUE])
    BY Zenon
  <2>4. user' = [f EXCEPT ![u].verified = @ \cup {n}]
    BY <1>16, <2>1, <2>2, <2>3 DEF VerifyTwoFactor, enable_mfa
  <2>5. user[u] \in UserRows
    BY <2>1, <1>types
  <2>6. /\ f \in [Users -> UserRows \cup {None}] /\ f[u] \in UserRows /\ f[u].secret = n
        /\ \A v \in Users \ {u} : f[v] = user[v]
    BY <2>2, <2>3, <2>5, <1>types, Zenon DEF UserRows
  <2>7. /\ user'[u].secret = n /\ n \in user'[u].verified
        /\ \A v \in Users \ {u} : user'[v] = user[v]
    BY <2>4, <2>6 DEF UserRows
  <2>8. EnabledSecretIsVerified'
    BY <2>7, <1>inv DEF EnabledSecretIsVerified
  <2>9. /\ DOMAIN token' = DOMAIN token /\ \A i \in DOMAIN token : token'[i].user = token[i].user
        /\ \A i \in DOMAIN token : token[i].user # u => token'[i].mfa = token[i].mfa
    <3>1. token' = [token EXCEPT ![t].mfa = TRUE] /\ token \in [DOMAIN token -> TokenRows]
      BY <1>16, <2>1, <1>types, SeqLength DEF VerifyTwoFactor, mark_mfa_verified
    <3>2. \A i \in DOMAIN token : [token[i] EXCEPT !.mfa = TRUE].user = token[i].user
      BY <3>1 DEF TokenRows
    <3> QED
      BY <2>1, <3>1, <3>2
  <2>10. ASSUME NEW q \in Procs \ {p} PROVE \E r : r = tx[q] /\ AccountFresh(r)'
    <3>1. PICK r : r = tx[q] /\ AccountRead(r) /\ AccountFresh(r)
      BY <1>inv, Zenon
    <3>2. r.cmd \in {"bootstrap", "setup", "refresh"} => r.user # u
      BY <2>0, <2>1, <3>1, Zenon DEF VerificationsAreAlone
    <3>3. CASE r.cmd = "refresh"
      BY <2>9, <3>1, <3>2, <3>3 DEF AccountFresh, AccountRead
    <3>4. CASE r.cmd = "bootstrap" \/ r.cmd = "setup"
      BY <2>7, <3>1, <3>2, <3>4 DEF AccountFresh, AccountRead
    <3>5. CASE r.cmd = "verify"
      <4>1. /\ r.user \in Users /\ r.id \in DOMAIN token
            /\ token[r.id].user = r.user /\ r.saw.secret = user[r.user].secret
        BY <3>1, <3>5 DEF AccountFresh, AccountRead
      <4>2. user'[r.user].secret = user[r.user].secret
        BY <2>2, <2>7, <4>1, Zenon
      <4>3. token'[r.id].user = r.user
        BY <2>9, <4>1, Zenon
      <4>4. AccountFresh(r)'
        BY <3>5, <4>1, <4>2, <4>3 DEF AccountFresh
      <4> QED
        BY <3>1, <4>4, Zenon
    <3>6. CASE r.cmd \notin {"refresh", "bootstrap", "setup", "verify"}
      BY <3>1, <3>6 DEF AccountFresh
    <3> QED
      BY <3>3, <3>4, <3>5, <3>6
  <2>11. SuccessorCarriesStepUp
    BY <2>9 DEF SuccessorCarriesStepUp
  <2> QED
    BY <1>16, <2>8, <2>10, <2>11, <1>end DEF VerifyTwoFactor
<1>17. ASSUME NEW p \in Procs, Rollback(p) PROVE Goal
  BY <1>17, <1>users, <1>tokens, <1>kept DEF Rollback, tables
<1>18. CASE TimePasses
  <2>1. UNCHANGED <<user, tx>> /\ DOMAIN token' = DOMAIN token
    BY <1>18, <1>types DEF TimePasses
  <2>2. \A t \in DOMAIN token : token'[t].mfa = token[t].mfa /\ token'[t].user = token[t].user
    <3>1. token \in [DOMAIN token -> TokenRows]
      BY <1>types, SeqLength
    <3>2. \A t \in DOMAIN token : LET r == [token[t] EXCEPT !.fresh = FALSE] IN
            r.mfa = token[t].mfa /\ r.user = token[t].user
      BY <3>1 DEF TokenRows
    <3>3. token' = token \/ \E t \in DOMAIN token : token' = [token EXCEPT ![t].fresh = FALSE]
      BY <1>18, Zenon DEF TimePasses
    <3> QED
      BY <3>1, <3>2, <3>3
  <2>3. SuccessorCarriesStepUp
    BY <2>1 DEF SuccessorCarriesStepUp
  <2>4. ASSUME NEW q \in Procs PROVE AccountFresh(tx[q])'
    <3>1. PICK r : r = tx[q] /\ AccountRead(r) /\ AccountFresh(r)
      BY <1>inv, Zenon
    <3> QED
      BY <2>1, <2>2, <3>1 DEF AccountFresh, AccountRead
  <2> QED
    BY <2>1, <2>3, <2>4, <1>users, <1>verified DEF Goal, AccountFactors
<1>19. CASE UNCHANGED vars
  <2>1. UNCHANGED <<user, token, tx>>
    BY <1>19 DEF vars
  <2>2. AccountFactors'
    BY <2>1, <1>inv DEF AccountFactors, AccountFresh, EnabledSecretIsVerified
  <2> QED
    BY <1>19, <2>2 DEF Goal
<1> QED
  BY <1>1, <1>2, <1>3, <1>4, <1>5, <1>6, <1>7, <1>8, <1>9, <1>10, <1>11, <1>12, <1>13, <1>14, <1>15,
     <1>16, <1>17, <1>18, <1>19
  DEF Next, Write

\* An account starts with neither users nor sessions.
LEMMA AccountInit ==
    ASSUME AccountsAssumption, Init
    PROVE  AccountInvariant /\ AccountFactors
<1>1. /\ user \in [Users -> UserRows \cup {None}] /\ \A u \in Users : user[u] = None
      /\ invite = << >> /\ reset = << >> /\ token = << >> /\ secret = 0
      /\ tx = [p \in Procs |-> tx[p]] /\ \A p \in Procs : tx[p] = Idle
  BY DEF Init
<1>2. AccountTypes /\ AccountRefers
  BY <1>1, SeqEmpty DEF AccountTypes, AccountRefers
<1>3. AccountReads /\ \A p \in Procs : AccountFresh(tx[p])
  <2>1. Idle.cmd = "idle"
    BY DEF Idle
  <2>2. AccountRead(Idle) /\ AccountFresh(Idle)
    BY <2>1 DEF AccountRead, AccountFresh
  <2> QED
    BY <1>1, <2>2, Zenon DEF AccountReads
<1>4. InvitedHasInvitation /\ InvitationWasMailed /\ EnabledSecretIsVerified
  BY <1>1 DEF InvitedHasInvitation, Status, InvitationWasMailed, EnabledSecretIsVerified
<1> QED
  BY <1>2, <1>3, <1>4 DEF AccountInvariant, AccountFactors

\* An invited user always has an unused invitation, and every invitation was
\* mailed, for any number of users and of commands that overlap in any way
\* (CreateUserCommand, ResendInvitationCommand, AcceptInvitationCommand).
THEOREM InvitedAlwaysHasInvitation ==
    ASSUME AccountsAssumption
    PROVE  Spec => [](InvitedHasInvitation /\ InvitationWasMailed)
<1>1. Init => AccountInvariant
  BY AccountInit
<1>2. AccountInvariant /\ [Next]_vars => AccountInvariant'
  BY AccountStep
<1>3. AccountInvariant => InvitedHasInvitation /\ InvitationWasMailed
  BY DEF AccountInvariant
<1> QED
  BY <1>1, <1>2, <1>3, PTL DEF Spec

\* A revoked session stays revoked and keeps its reason, for any number of users
\* and of commands that overlap in any way (RefreshTokenRepository.revoke).
THEOREM SessionStepsAreAlwaysSafe ==
    ASSUME AccountsAssumption
    PROVE  Spec => SessionStepsAreSafe
<1>1. Init => AccountInvariant
  BY AccountInit
<1>2. AccountInvariant /\ [Next]_vars => AccountInvariant' /\ [RevokedStays]_vars
  BY AccountStep
<1> QED
  BY <1>1, <1>2, PTL DEF Spec, SessionStepsAreSafe

\* The second factor that is enabled is one its admin verified, across repeated
\* set-ups and bootstraps, and a refresh carries the second factor of its session
\* over, for any number of users and of commands at a time, as long as no
\* verification overlaps a set-up, a bootstrap or a refresh of the same admin
\* (SetupTwoFactorCommand, VerifyTwoFactorCommand, RefreshCommand).
THEOREM EnabledSecretIsAlwaysVerified ==
    ASSUME AccountsAssumption
    PROVE  Spec /\ []VerificationsAreAlone => []EnabledSecretIsVerified /\ StepUpsAreCarried
<1>1. Init => AccountInvariant /\ AccountFactors
  BY AccountInit
<1>2. /\ AccountInvariant /\ AccountFactors /\ VerificationsAreAlone /\ [Next]_vars
      => (AccountInvariant /\ AccountFactors)' /\ [SuccessorCarriesStepUp]_vars
  BY AccountStep, AccountFactorStep
<1>3. AccountFactors => EnabledSecretIsVerified
  BY DEF AccountFactors
<1> QED
  BY <1>1, <1>2, <1>3, PTL DEF Spec, StepUpsAreCarried

=============================================================================
