------------------------------- MODULE Accounts -------------------------------
(***************************************************************************)
(* Accounts and sessions: users, invitations, password resets, refresh      *)
(* tokens and the second factor of admins.  Every command reads first and    *)
(* writes and commits later; no read locks a row, so other commands commit  *)
(* between the two steps.  A refused command changes nothing and is left    *)
(* out; so are the rate limits, which refuse (module RateLimiter), and the  *)
(* audit events, which are written in the same transaction.                 *)
(***************************************************************************)
EXTENDS Naturals, Sequences, FiniteSets

CONSTANTS
    Procs,       \* commands running at the same time
    Users,       \* e-mail addresses
    Commands,    \* the commands of this instance
    MAX_ROWS,    \* bound on the rows of each of the other tables
    None

Roles == {"user", "admin"}

\* The columns of a user that the commands read.
UserRows ==
    [role : Roles, status : {"invited", "active", "disabled"}, password : BOOLEAN,
     mfa : BOOLEAN, secret : Nat, verified : SUBSET Nat]

\* Why a refresh token was revoked.
Reasons == {"rotated", "logout", "account_disabled", "password_reset", "reuse_detected"}

\* What an instance has to respect.
AccountsAssumption == MAX_ROWS \in Nat /\ None \notin UserRows /\ None \notin Reasons

VARIABLES
    user,   \* users: role, status, password set, second factor, its secret, the secrets verified
    invite, \* invitations: user, state, freshness, whether mailed, times accepted
    reset,  \* password_resets: user, consumed, freshness, times used
    token,  \* refresh_tokens: user, parent, reason of revocation, second factor, freshness
    secret, \* the last second-factor secret generated
    tx      \* per process, the command and what it read

vars == <<user, invite, reset, token, secret, tx>>
tables == <<user, invite, reset, token, secret>>

Idle == [cmd |-> "idle", user |-> None, id |-> 0, saw |-> None]

Begin(p, cmd, u, id, saw) ==
    /\ tx[p] = Idle /\ cmd \in Commands
    /\ tx' = [tx EXCEPT ![p] = [cmd |-> cmd, user |-> u, id |-> id, saw |-> saw]]
    /\ UNCHANGED tables

End(p) == tx' = [tx EXCEPT ![p] = Idle]
Running(p, cmd) == tx[p].cmd = cmd
Status(u) == IF user[u] = None THEN "none" ELSE user[u].status
Room(s) == Len(s) < MAX_ROWS

-----------------------------------------------------------------------------
(* Repositories *)

create_invited(role) ==
    [role |-> role, status |-> "invited", password |-> FALSE, mfa |-> FALSE, secret |-> 0, verified |-> {}]
create_active(role) == [create_invited(role) EXCEPT !.status = "active", !.password = TRUE]

\* Mutant: the first password does not activate the account.
PasswordOnly(u) == [user EXCEPT ![u].password = TRUE]

activate(u) == [user EXCEPT ![u].password = TRUE, ![u].status = "active"]
disable(u) == [user EXCEPT ![u].status = "disabled"]
reactivate(u) == [user EXCEPT ![u].status = "active"]
set_password(u) == [user EXCEPT ![u].password = TRUE]
set_mfa_secret(u, s) == [user EXCEPT ![u].secret = s]
enable_mfa(u) == [user EXCEPT ![u].mfa = TRUE]

create_invitation(u, mailed) ==
    [user |-> u, state |-> "live", fresh |-> TRUE, mailed |-> mailed, accepted |-> 0]
revoke_active_for_user(u) ==
    [i \in DOMAIN invite |->
        IF invite[i].user = u /\ invite[i].state = "live" THEN [invite[i] EXCEPT !.state = "revoked"] ELSE invite[i]]
consume_invitation(i) == [invite EXCEPT ![i].state = "consumed", ![i].accepted = @ + 1]

create_reset(u) == [user |-> u, consumed |-> FALSE, fresh |-> TRUE, used |-> 0]

consume_reset(r) == [reset EXCEPT ![r].consumed = TRUE, ![r].used = @ + 1]

\* issue_session, creating the refresh token.
issue_session(s, u, parent, mfa) ==
    Append(s, [user |-> u, parent |-> parent, reason |-> None, mfa |-> mfa, fresh |-> TRUE])

\* Mutant: a later reason replaces the first one.
RevokeAgain(t, reason) == [token EXCEPT ![t].reason = reason]

\* Only if not already revoked.
revoke(t, reason) == IF token[t].reason = None THEN [token EXCEPT ![t].reason = reason] ELSE token
revoke_all_active_for_user(u, reason) ==
    [t \in DOMAIN token |->
        IF token[t].user = u /\ token[t].reason = None THEN [token[t] EXCEPT !.reason = reason] ELSE token[t]]
mark_mfa_verified(t) == [token EXCEPT ![t].mfa = TRUE]

\* The unique index on live invitations.
OneLivePerUser(s) ==
    \A i, j \in DOMAIN s : s[i].user = s[j].user /\ s[i].state = "live" /\ s[j].state = "live" => i = j

-----------------------------------------------------------------------------
(* Accounts *)

\* _send_invitation_mail: the command goes on only if the mail was sent.
send_invitation_mail(sent) == sent

BeginCreateUser(p, u, role) == user[u] = None /\ Begin(p, "create", u, 0, role)

\* The mail is sent before the commit; a taken address rolls back.
CreateUser(p) ==
    LET u == tx[p].user IN
    /\ Running(p, "create") /\ Room(invite)
    /\ \E sent \in BOOLEAN :
           IF user[u] = None /\ send_invitation_mail(sent)
           THEN /\ user' = [user EXCEPT ![u] = create_invited(tx[p].saw)]
                /\ invite' = Append(invite, create_invitation(u, sent))
           ELSE UNCHANGED <<user, invite>>
    /\ End(p)
    /\ UNCHANGED <<reset, token, secret>>

BeginProvisionUser(p, u, role) == user[u] = None /\ Begin(p, "provision", u, 0, role)

ProvisionUser(p) ==
    LET u == tx[p].user IN
    /\ Running(p, "provision")
    /\ user' = IF user[u] = None THEN [user EXCEPT ![u] = create_active(tx[p].saw)] ELSE user
    /\ End(p)
    /\ UNCHANGED <<invite, reset, token, secret>>

BeginAcceptInvitation(p, i) ==
    /\ invite[i].state = "live" /\ invite[i].fresh
    /\ Status(invite[i].user) = "invited"
    /\ Begin(p, "accept", invite[i].user, i, None)

AcceptInvitation(p) ==
    /\ Running(p, "accept") /\ Room(token)
    /\ user' = activate(tx[p].user)
    /\ invite' = consume_invitation(tx[p].id)
    /\ token' = issue_session(token, tx[p].user, 0, FALSE)
    /\ End(p)
    /\ UNCHANGED <<reset, secret>>

BeginDisableUser(p, u) == user[u] # None /\ Begin(p, "disable", u, 0, None)

\* The user's open intents are cancelled too (modules CoreTrack, LegacyTrack).
DisableUser(p) ==
    /\ Running(p, "disable")
    /\ user' = disable(tx[p].user)
    /\ token' = revoke_all_active_for_user(tx[p].user, "account_disabled")
    /\ End(p)
    /\ UNCHANGED <<invite, reset, secret>>

BeginReactivateUser(p, u) == Status(u) = "disabled" /\ Begin(p, "reactivate", u, 0, None)

ReactivateUser(p) ==
    /\ Running(p, "reactivate")
    /\ user' = reactivate(tx[p].user)
    /\ End(p)
    /\ UNCHANGED <<invite, reset, token, secret>>

BeginResendInvitation(p, u) == Status(u) = "invited" /\ Begin(p, "resend", u, 0, None)

ResendInvitation(p) ==
    /\ Running(p, "resend") /\ Room(invite)
    /\ \E sent \in BOOLEAN :
           LET s == Append(revoke_active_for_user(tx[p].user), create_invitation(tx[p].user, sent)) IN
           invite' = IF send_invitation_mail(sent) /\ OneLivePerUser(s) THEN s ELSE invite
    /\ End(p)
    /\ UNCHANGED <<user, reset, token, secret>>

\* The command-line tools: one overwrites an existing account, the other refuses.
BeginBootstrapAdmin(p, u) == Begin(p, "bootstrap", u, 0, user[u])
BeginCreateAdmin(p, u) == user[u] = None /\ Begin(p, "create_admin", u, 0, None)

\* A new row, unless the address was taken meanwhile; or the columns that
\* differ from the row read.
bootstrap_initial_admin(p) ==
    LET u == tx[p].user
        saw == tx[p].saw
        admin == create_active("admin")
    IN
    /\ Running(p, "bootstrap") \/ Running(p, "create_admin")
    /\ user' = IF saw # None
               THEN [user EXCEPT ![u] = [f \in DOMAIN admin |-> IF admin[f] = saw[f] THEN @[f] ELSE admin[f]]]
               ELSE IF user[u] = None THEN [user EXCEPT ![u] = admin] ELSE user
    /\ End(p)
    /\ UNCHANGED <<invite, reset, token, secret>>

-----------------------------------------------------------------------------
(* Password reset *)

BeginResetRequest(p, u) == Status(u) = "active" /\ Begin(p, "reset_request", u, 0, None)

\* The mail follows the commit, and its failure is logged only.
PasswordResetRequest(p) ==
    /\ Running(p, "reset_request") /\ Room(reset)
    /\ reset' = Append(reset, create_reset(tx[p].user))
    /\ End(p)
    /\ UNCHANGED <<user, invite, token, secret>>

BeginResetConfirm(p, r) ==
    /\ ~ reset[r].consumed /\ reset[r].fresh
    /\ Status(reset[r].user) = "active"
    /\ Begin(p, "reset_confirm", reset[r].user, r, None)

PasswordResetConfirm(p) ==
    /\ Running(p, "reset_confirm")
    /\ user' = set_password(tx[p].user)
    /\ reset' = consume_reset(tx[p].id)
    /\ token' = revoke_all_active_for_user(tx[p].user, "password_reset")
    /\ End(p)
    /\ UNCHANGED <<invite, secret>>

-----------------------------------------------------------------------------
(* Sessions *)

BeginLogin(p, u) == Status(u) = "active" /\ user[u].password /\ Begin(p, "login", u, 0, None)

Login(p) ==
    /\ Running(p, "login") /\ Room(token)
    /\ token' = issue_session(token, tx[p].user, 0, FALSE)
    /\ End(p)
    /\ UNCHANGED <<user, invite, reset, secret>>

\* A token that was rotated before revokes the others ...
BeginReuse(p, t) == token[t].reason = "rotated" /\ Begin(p, "reuse", token[t].user, t, None)

RefreshReused(p) ==
    /\ Running(p, "reuse")
    /\ token' = revoke_all_active_for_user(tx[p].user, "reuse_detected")
    /\ End(p)
    /\ UNCHANGED <<user, invite, reset, secret>>

\* ... and a live one is rotated.
BeginRefresh(p, t) ==
    /\ token[t].reason = None /\ token[t].fresh
    /\ Status(token[t].user) = "active"
    /\ Begin(p, "refresh", token[t].user, t, token[t].mfa)

Refresh(p) ==
    /\ Running(p, "refresh") /\ Room(token)
    /\ token' = issue_session(revoke(tx[p].id, "rotated"), tx[p].user, tx[p].id, tx[p].saw)
    /\ End(p)
    /\ UNCHANGED <<user, invite, reset, secret>>

BeginLogout(p, t) == token[t].reason = None /\ Begin(p, "logout", token[t].user, t, None)

Logout(p) ==
    /\ Running(p, "logout")
    /\ token' = revoke(tx[p].id, "logout")
    /\ End(p)
    /\ UNCHANGED <<user, invite, reset, secret>>

-----------------------------------------------------------------------------
(* The second factor *)

\* get_active_user: the session is live, or superseded by its successor.
get_active_user(t) == token[t].reason \in {None, "rotated"}
require_role(t) == get_active_user(t) /\ user[token[t].user].role = "admin"

\* Mutant: an admin sets up the second factor again after it was enabled.
SetUpAgain(p, t) == require_role(t) /\ Begin(p, "setup", token[t].user, t, None)

BeginSetupTwoFactor(p, t) ==
    require_role(t) /\ ~ user[token[t].user].mfa /\ Begin(p, "setup", token[t].user, t, None)

SetupTwoFactor(p) ==
    /\ Running(p, "setup") /\ secret < MAX_ROWS
    /\ secret' = secret + 1
    /\ user' = set_mfa_secret(tx[p].user, secret')
    /\ End(p)
    /\ UNCHANGED <<invite, reset, token>>

\* The code is the one of the secret read.
BeginVerifyTwoFactor(p, t) ==
    LET u == user[token[t].user] IN
    /\ require_role(t)
    /\ u.secret # 0
    /\ Begin(p, "verify", token[t].user, t, [mfa |-> u.mfa, secret |-> u.secret])

VerifyTwoFactor(p) ==
    LET u == tx[p].user IN
    /\ Running(p, "verify")
    /\ user' = [IF tx[p].saw.mfa THEN user ELSE enable_mfa(u) EXCEPT ![u].verified = @ \cup {tx[p].saw.secret}]
    /\ token' = mark_mfa_verified(tx[p].id)
    /\ End(p)
    /\ UNCHANGED <<invite, reset, secret>>

-----------------------------------------------------------------------------
\* INVITATION_TTL, RESET_TTL and the lifetime of a refresh token.
TimePasses ==
    \/ \E i \in DOMAIN invite : invite' = [invite EXCEPT ![i].fresh = FALSE] /\ UNCHANGED <<user, reset, token, secret, tx>>
    \/ \E r \in DOMAIN reset : reset' = [reset EXCEPT ![r].fresh = FALSE] /\ UNCHANGED <<user, invite, token, secret, tx>>
    \/ \E t \in DOMAIN token : token' = [token EXCEPT ![t].fresh = FALSE] /\ UNCHANGED <<user, invite, reset, secret, tx>>

\* An error or a stop before the commit rolls back.
Rollback(p) == tx[p] # Idle /\ End(p) /\ UNCHANGED tables

Init ==
    /\ user = [u \in Users |-> None]
    /\ invite = <<>> /\ reset = <<>> /\ token = <<>>
    /\ secret = 0
    /\ tx = [p \in Procs |-> Idle]

-----------------------------------------------------------------------------
(* The routes and the command-line tools *)

create_user(p) == \E u \in Users, role \in Roles : BeginCreateUser(p, u, role)
provision_user(p) == \E u \in Users, role \in Roles : BeginProvisionUser(p, u, role)
disable_user(p) == \E u \in Users : BeginDisableUser(p, u)
reactivate_user(p) == \E u \in Users : BeginReactivateUser(p, u)
resend_invitation(p) == \E u \in Users : BeginResendInvitation(p, u)
setup_two_factor(p) == \E t \in DOMAIN token : BeginSetupTwoFactor(p, t)
verify_two_factor(p) == \E t \in DOMAIN token : BeginVerifyTwoFactor(p, t)
login(p) == \E u \in Users : BeginLogin(p, u)
accept_invitation(p) == \E i \in DOMAIN invite : BeginAcceptInvitation(p, i)
refresh(p) == \E t \in DOMAIN token : BeginReuse(p, t) \/ BeginRefresh(p, t)
password_reset_request(p) == \E u \in Users : BeginResetRequest(p, u)
password_reset_confirm(p) == \E r \in DOMAIN reset : BeginResetConfirm(p, r)
logout(p) == \E t \in DOMAIN token : BeginLogout(p, t)
bootstrap_admin(p) == \E u \in Users : BeginBootstrapAdmin(p, u)
create_admin(p) == \E u \in Users : BeginCreateAdmin(p, u)

Read(p) ==
    \/ create_user(p) \/ provision_user(p) \/ disable_user(p) \/ reactivate_user(p) \/ resend_invitation(p)
    \/ setup_two_factor(p) \/ verify_two_factor(p)
    \/ login(p) \/ accept_invitation(p) \/ refresh(p) \/ logout(p)
    \/ password_reset_request(p) \/ password_reset_confirm(p)
    \/ bootstrap_admin(p) \/ create_admin(p)

Write(p) ==
    \/ CreateUser(p) \/ ProvisionUser(p) \/ AcceptInvitation(p) \/ DisableUser(p) \/ ReactivateUser(p)
    \/ ResendInvitation(p) \/ bootstrap_initial_admin(p)
    \/ PasswordResetRequest(p) \/ PasswordResetConfirm(p)
    \/ Login(p) \/ RefreshReused(p) \/ Refresh(p) \/ Logout(p)
    \/ SetupTwoFactor(p) \/ VerifyTwoFactor(p)

Next == (\E p \in Procs : Read(p) \/ Write(p) \/ Rollback(p)) \/ TimePasses

Spec == Init /\ [][Next]_vars

-----------------------------------------------------------------------------
\* A mail that cannot be sent leaves no invitation behind: every invitation in
\* the table was mailed (_send_invitation_mail raises, the command rolls back).
InvitationWasMailed == \A i \in DOMAIN invite : invite[i].mailed

\* An invited user always has an unused invitation, through resends that race
\* with each other, with the acceptance and with an account taken meanwhile.
InvitedHasInvitation ==
    \A u \in Users : Status(u) = "invited" => \E i \in DOMAIN invite : invite[i].user = u /\ invite[i].state = "live"

\* revoke keeps the original reason: a revoked session never becomes live again
\* and is never revoked for another reason, whatever commands race for it.
RevokedStays == \A t \in DOMAIN token : token[t].reason # None => token'[t].reason = token[t].reason
SessionStepsAreSafe == [][RevokedStays]_vars

\* No bootstrap, set-up or refresh of an admin is between its two steps while a
\* verification of the same admin is: nothing in the code orders them, and the two
\* properties below need it.
VerificationsAreAlone ==
    \A p, q \in Procs :
        tx[p].cmd = "verify" /\ tx[q].cmd \in {"bootstrap", "setup", "refresh"} => tx[p].user # tx[q].user

\* The refresh carries the second factor of the session over to its successor.
SuccessorCarriesStepUp ==
    \A t \in DOMAIN token' \ DOMAIN token :
        token'[t].parent # 0 => token'[t].mfa = token[token'[t].parent].mfa
StepUpsAreCarried == [][SuccessorCarriesStepUp]_vars

\* The second factor that is enabled is one its admin verified.
EnabledSecretIsVerified == \A u \in Users : user[u] # None /\ user[u].mfa => user[u].secret \in user[u].verified

\* A password reset link sets a password once.
ResetUsedOnce == \A r \in DOMAIN reset : reset[r].used <= 1

\* An invitation activates its account once.
InvitationAcceptedOnce == \A i \in DOMAIN invite : invite[i].accepted <= 1

\* A disabled account stays so until it is reactivated or overwritten by the
\* bootstrap; accepting an invitation moves an invited user to active.
DisabledUnlessReactivated ==
    \A u \in Users : Status(u) = "disabled" /\ user'[u].status # "disabled" =>
        \E p \in Procs : tx[p].user = u /\ tx[p].cmd \in {"reactivate", "bootstrap"}
OnlyReactivationEnables == [][DisabledUnlessReactivated]_vars

\* A reactivated user can log in afresh: an active account has a password.
ActiveCanLogIn == \A u \in Users : Status(u) = "active" => user[u].password

=============================================================================
