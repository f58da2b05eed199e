------------------------------ MODULE MCAccounts ------------------------------
(***************************************************************************)
(* Accounts and the rate limits in front of them.  `part` is chosen in the *)
(* initial state and only that instance moves.                             *)
(***************************************************************************)
EXTENDS Naturals, Sequences, FiniteSets, TLC

CONSTANTS
    Procs,   \* commands at the same time
    None

VARIABLES
    part, tx,
    user, invite, reset, token, secret,         \* Accounts
    clock, bucket, admitted, since, back, missed \* RateLimiter

accounts == <<user, invite, reset, token, secret>>
limiter == <<clock, bucket, admitted, since, back, missed>>
all == <<part, tx, accounts, limiter>>

\* The commands are interchangeable.
Symmetry == Permutations(Procs)

-----------------------------------------------------------------------------
\* Two commands at a time: sessions and the second factor, no verification
\* overlapping a set-up, a bootstrap or a refresh.
Factor ==
    INSTANCE Accounts WITH
        Users <- {"u"}, MAX_ROWS <- 2,
        Commands <- {"bootstrap", "disable", "reactivate", "login", "reuse", "refresh", "logout",
                     "setup", "verify"}

\* Two commands at a time that overlap freely: invitations, and sessions.
Invite ==
    INSTANCE Accounts WITH
        Users <- {"u"}, MAX_ROWS <- 3,
        Commands <- {"create", "provision", "accept", "disable", "reactivate", "resend", "create_admin"}
Sessions ==
    INSTANCE Accounts WITH
        Users <- {"u"}, MAX_ROWS <- 2,
        Commands <- {"provision", "disable", "login", "reuse", "refresh", "logout", "reset_request",
                     "reset_confirm"}

\* Three attempts within a time too short for a refill; and two, while the
\* bucket is refilled.
Window ==
    INSTANCE RateLimiter WITH
        Procs <- {"p1", "p2", "p3"}, CAPACITY <- 5, REFILL <- 0, COST <- 2, SUCCEEDS <- FALSE, MAX_CLOCK <- 2
Refill ==
    INSTANCE RateLimiter WITH
        Procs <- {"p1", "p2"}, CAPACITY <- 5, REFILL <- 1, COST <- 2, SUCCEEDS <- TRUE, MAX_CLOCK <- 5

ASSUME
    /\ Factor!AccountsAssumption /\ Invite!AccountsAssumption /\ Sessions!AccountsAssumption
    /\ Window!RateLimiterAssumption /\ Refill!RateLimiterAssumption

-----------------------------------------------------------------------------
AccountsOff == user = None /\ invite = <<>> /\ reset = <<>> /\ token = <<>> /\ secret = 0
LimiterOff == clock = 0 /\ bucket = None /\ admitted = 0 /\ since = 0 /\ back = 0 /\ missed = FALSE

AccountsInit ==
    \/ /\ \/ part = "factor" /\ Factor!Init
          \/ part = "invite" /\ Invite!Init
          \/ part = "sessions" /\ Sessions!Init
       /\ LimiterOff
    \/ /\ \/ part = "window" /\ Window!Init
          \/ part = "refill" /\ Refill!Init
       /\ AccountsOff

AccountsNext ==
    /\ UNCHANGED part
    /\ \/ /\ \/ part = "factor" /\ Factor!Next /\ Factor!VerificationsAreAlone'
             \/ part = "invite" /\ Invite!Next
             \/ part = "sessions" /\ Sessions!Next
          /\ UNCHANGED limiter
       \/ /\ \/ part = "window" /\ Window!Next
             \/ part = "refill" /\ Refill!Next
          /\ UNCHANGED accounts

AccountsSpec == AccountsInit /\ [][AccountsNext]_all

-----------------------------------------------------------------------------
\* The second factor that is enabled is one its admin verified, across repeated
\* set-ups, bootstraps that overwrite the account and set-ups that race.
EnabledSecretIsVerified == part = "factor" => Factor!EnabledSecretIsVerified

\* An invited user always has an unused invitation, and it was mailed, through
\* failing mails and resends that race with each other, with the acceptance and with
\* an account taken meanwhile.
InvitedHasInvitation == part = "invite" => Invite!InvitedHasInvitation /\ Invite!InvitationWasMailed

\* A revoked session never becomes live again and keeps its first reason, whatever
\* refresh, reuse, logout, disabling and password reset race for it; and a refresh
\* that no verification overlaps carries the second factor over.
SessionStepsAreSafe ==
    [][/\ part = "sessions" => Sessions!RevokedStays
       /\ part = "factor" => Factor!RevokedStays /\ Factor!SuccessorCarriesStepUp]_all

\* Since the bucket was new, no more attempts are admitted than its capacity and
\* the refill of the time passed allow, to which only the ticks are added by which a
\* request that waited for the lock of consume has set updated_at back.
AdmissionsAreBounded ==
    /\ part = "window" => Window!AdmissionsAreBounded
    /\ part = "refill" => Refill!AdmissionsAreAccounted

=============================================================================
