------------------------------ MODULE Accounts ------------------------------
(* The people of one shop, its owner and staff: how an account comes to be,   *)
(* the single-use codes that are emailed to it, signing in, and who a thread  *)
(* of the shop is assigned to.  Nothing here locks a row: a request reads,    *)
(* takes its time (a mail, a password hash), and commits on what it read.     *)
EXTENDS Integers, FiniteSets

CONSTANTS
    Owner, Staff,   \* the people
    Requests,       \* requests under way at the same time
    MaxCodes,       \* bound: codes ever issued; they are numbered in that order
    OtpMaxAttempts, \* OTP_MAX_ATTEMPTS
    LoginMaxAttempts, \* LOGIN_MAX_ATTEMPTS
    MaxStaff,       \* MAX_STAFF
    Nobody

ASSUME AccountsAssumption ==
    /\ IsFiniteSet(Staff) /\ IsFiniteSet(Requests) /\ Owner \notin Staff /\ Nobody \notin {Owner} \cup Staff
    /\ MaxCodes \in Nat /\ OtpMaxAttempts \in Nat /\ MaxStaff \in Nat /\ LoginMaxAttempts \in Nat \ {0}

People   == {Owner} \cup Staff
Purposes == {"email_verify", "password_reset", "login_otp"}

VARIABLES
    account,    \* each person: none, active or inactive
    verified,   \* those with email_verified_at
    codes,      \* VerificationCode rows by number
    request,    \* requests between their reads and their commit
    assignee,   \* Conversation.assigned_user_id of one thread
    failures,   \* LoginAttempt rows of each person within the window
    excused     \* history: the thread, or the size of the team, was settled by
                \* a request that met another one

accountVars == <<account, verified, codes, request, assignee, failures, excused>>

Issued == DOMAIN codes

\* A request is about one matter of one person: a purpose, "login", "thread",
\* or "team", which is one matter whoever is invited.
Free == [does |-> "nothing", who |-> Nobody, matter |-> "none", of |-> 0, saw |-> 0, retires |-> {},
         met |-> FALSE]

SameMatter(p, matter, q) ==
    request[q].matter = matter /\ (matter # "team" => request[q].who = p)

\* Nobody yet, or an owner who has been there a while.
AccountsInit ==
    /\ verified \in {{}, {Owner}}
    /\ account  = [p \in People |-> IF p \in verified THEN "active" ELSE "none"]
    /\ codes    = [c \in {} |-> 0]
    /\ request  = [q \in Requests |-> Free]
    /\ assignee = Nobody
    /\ failures = [p \in People |-> 0]
    /\ excused  = {}

-----------------------------------------------------------------------------
Existing == {p \in People : account[p] # "none"}
Active   == {p \in People : account[p] = "active"}

CodesOf(p, purpose) == {c \in Issued : codes[c].who = p /\ codes[c].purpose = purpose}
Live(p, purpose) == {c \in CodesOf(p, purpose) : codes[c].live}
CoolingDown(p, purpose) == \E c \in CodesOf(p, purpose) : codes[c].recent

Retire(S) == [c \in Issued |-> IF c \in S THEN [codes[c] EXCEPT !.live = FALSE] ELSE codes[c]]

NewCode(p, purpose, met) ==
    [who |-> p, purpose |-> purpose, live |-> TRUE, recent |-> TRUE,
     attempts |-> 0, wrong |-> 0, used |-> 0, outdated |-> FALSE, after |-> FALSE, met |-> met]

\* The row a request inserts, next to what it makes of the others.
WithCode(others, p, purpose, met) ==
    [c \in Issued \cup {Cardinality(Issued) + 1} |->
        IF c \in Issued THEN others[c] ELSE NewCode(p, purpose, met)]

RoomForCode == Cardinality(Issued) < MaxCodes

\* Requests about one matter that are under way together have met.
Start(q, does, p, matter, of, saw, retires) ==
    LET others == {r \in Requests : SameMatter(p, matter, r)}
    IN  /\ request[q] = Free
        /\ request' = [r \in Requests |->
               IF r = q THEN [does |-> does, who |-> p, matter |-> matter, of |-> of, saw |-> saw,
                              retires |-> retires, met |-> others # {}]
               ELSE IF r \in others THEN [request[r] EXCEPT !.met = TRUE] ELSE request[r]]
        /\ UNCHANGED <<account, verified, codes, assignee, failures, excused>>

End(q) == request' = [request EXCEPT ![q] = Free]

-----------------------------------------------------------------------------
(* register: the account, the sign-up attempt and the code commit together;   *)
(* an email has one account.                                                  *)
Register ==
    /\ account[Owner] = "none"
    /\ RoomForCode
    /\ account' = [account EXCEPT ![Owner] = "active"]
    /\ codes' = WithCode(codes, Owner, "email_verify", FALSE)
    /\ UNCHANGED <<verified, request, assignee, failures, excused>>

(* add_staff counts the team, owner included, deactivated members too.        *)
StartInvite(q, m) ==
    /\ Owner \in Active
    /\ account[m] = "none"
    /\ Cardinality(Existing) <= MaxStaff
    /\ Start(q, "invite", m, "team", 0, 0, {})

FinishInvite(q) ==
    LET m == request[q].who
    IN  /\ request[q].does = "invite"
        /\ Owner \in Existing /\ account[m] = "none" /\ RoomForCode
        /\ account' = [account EXCEPT ![m] = "active"]
        /\ codes' = WithCode(codes, m, "password_reset", FALSE)
        /\ excused' = IF request[q].met THEN excused \cup {"team"} ELSE excused
        /\ End(q)
        /\ UNCHANGED <<verified, assignee, failures>>

-----------------------------------------------------------------------------
(* Who may ask for a code: forgot_password and request_otp, resend_           *)
(* verification, and the owner for a member, active or not (resend_invite).   *)
MayAsk(p, purpose) ==
    \/ p \in Active /\ (purpose = "email_verify" => p \notin verified)
    \/ p \in Staff \cap Existing /\ purpose = "password_reset" /\ Owner \in Active

Retires(p, purpose) == Live(p, purpose)

(* verification.issue: the cooldown and the outstanding codes as they are,    *)
(* then the new row and the commit of both.                                   *)
StartIssue(q, p, purpose) ==
    /\ MayAsk(p, purpose)
    /\ ~CoolingDown(p, purpose)
    /\ Start(q, "issue", p, purpose, 0, 0, Retires(p, purpose))

FinishIssue(q) ==
    /\ request[q].does = "issue"
    /\ request[q].who \in Existing /\ RoomForCode
    /\ codes' = WithCode(Retire(request[q].retires), request[q].who,
                        request[q].matter, request[q].met)
    /\ End(q)
    /\ UNCHANGED <<account, verified, assignee, failures, excused>>

\* An hour or so passes: first the cooldown, then the lifetime of a code.
CodeAges(c) ==
    /\ codes[c].live \/ codes[c].recent
    /\ codes' = [codes EXCEPT ![c].recent = FALSE, ![c].live = @ /\ codes[c].recent]
    /\ UNCHANGED <<account, verified, request, assignee, failures, excused>>

-----------------------------------------------------------------------------
(* redeem_link_token, for verify_email and reset_password: the row is looked  *)
(* up live, its user must be active.                                          *)
StartLink(q, c) ==
    /\ codes[c].live /\ codes[c].purpose # "login_otp"
    /\ codes[c].who \in Active
    /\ Start(q, "link", codes[c].who, codes[c].purpose, c, 0, {})

\* Mutant: a reset leaves one-time codes alone.
OutstandingResets(p) == Live(p, "password_reset")

Outstanding(p) == Live(p, "password_reset") \cup Live(p, "login_otp")

Tried(others, q) == [others EXCEPT ![request[q].of].met = @ \/ request[q].met]

\* Redeemed; and whether after a reset that should have ended it.
Use(others, c) == [others EXCEPT ![c].live = FALSE, ![c].used = @ + 1,
                                 ![c].after = @ \/ codes[c].outdated]

\* What a reset means for the codes there are.
Outdate(others, p) ==
    [c \in Issued |-> IF codes[c].who = p THEN [others[c] EXCEPT !.outdated = TRUE] ELSE others[c]]

\* A reset ends the request, and those that read a one-time code have met it.
EndReset(q) ==
    request' = [r \in Requests |->
        IF r = q THEN Free
        ELSE IF SameMatter(request[q].who, "login_otp", r) THEN [request[r] EXCEPT !.met = TRUE]
        ELSE request[r]]

FinishLink(q) ==
    LET c == request[q].of  p == request[q].who
    IN  /\ request[q].does = "link"
        /\ \/ /\ codes[c].purpose = "email_verify"
              /\ codes' = Use(Tried(codes, q), c)
              /\ End(q)
           \/ /\ codes[c].purpose = "password_reset"
              /\ codes' = Use(Outdate(Tried(Retire(Outstanding(p)), q), p), c)
              /\ EndReset(q)
        /\ verified' = verified \cup {p}
        /\ UNCHANGED <<account, assignee, failures, excused>>

(* redeem_otp: the newest live code of the person, and the attempts it had.   *)
StartOtp(q, p) ==
    LET live == Live(p, "login_otp")
    IN  /\ p \in Active
        /\ live # {}
        /\ \E c \in live : /\ \A d \in live : d <= c
                           /\ Start(q, "otp", p, "login_otp", c, codes[c].attempts, {})

Attempt(q) == request[q].saw + 1

FinishOtp(q) ==
    LET c == request[q].of  p == request[q].who
    IN  /\ request[q].does = "otp"
        /\ \/ /\ request[q].saw >= OtpMaxAttempts       \* burnt
              /\ codes' = [Tried(codes, q) EXCEPT ![c].live = FALSE]
              /\ UNCHANGED verified
           \/ /\ request[q].saw < OtpMaxAttempts         \* wrong
              /\ codes' = [Tried(codes, q) EXCEPT ![c].attempts = Attempt(q), ![c].wrong = @ + 1]
              /\ UNCHANGED verified
           \/ /\ request[q].saw < OtpMaxAttempts         \* right; verified by a commit of its own
              /\ codes' = Use([Tried(codes, q) EXCEPT ![c].attempts = Attempt(q)], c)
              /\ verified' \in {verified, verified \cup {p}}
        /\ End(q)
        /\ UNCHANGED <<account, assignee, failures, excused>>

-----------------------------------------------------------------------------
(* login: the ceiling is looked at before the password, which takes a while.  *)
StartLogin(q, p) ==
    /\ p \in Existing
    /\ failures[p] < LoginMaxAttempts
    /\ Start(q, "login", p, "login", 0, 0, {})

\* A password that is right clears the count once the account may sign in; a
\* wrong one counts, and so does any on an account that is inactive.
FinishLogin(q) ==
    LET p == request[q].who
    IN  /\ request[q].does = "login"
        /\ \/ failures' = [failures EXCEPT ![p] = @ + 1]
           \/ p \in Active \ verified /\ UNCHANGED failures
           \/ p \in Active \cap verified /\ failures' = [failures EXCEPT ![p] = 0]
        /\ End(q)
        /\ UNCHANGED <<account, verified, codes, assignee, excused>>

WindowPasses(p) ==
    /\ failures[p] > 0
    /\ failures' = [failures EXCEPT ![p] = 0]
    /\ UNCHANGED <<account, verified, codes, request, assignee, excused>>

-----------------------------------------------------------------------------
(* update_conversation: a thread goes to somebody who works this shop.        *)
StartAssign(q, p) ==
    /\ Owner \in Active
    /\ p \in Active
    /\ Start(q, "assign", p, "thread", 0, 0, {})

FinishAssign(q) ==
    /\ request[q].does = "assign"
    /\ request[q].who \in Existing
    /\ assignee' = request[q].who
    /\ excused' = IF request[q].met THEN excused \cup {"thread"} ELSE excused \ {"thread"}
    /\ End(q)
    /\ UNCHANGED <<account, verified, codes, failures>>

HandBackThread ==
    /\ assignee # Nobody
    /\ assignee' = Nobody
    /\ UNCHANGED <<account, verified, codes, request, failures, excused>>

Unassign(m) == IF assignee = m THEN Nobody ELSE assignee

(* update_staff and remove_staff; a member removed can be activated again.    *)
Deactivate(m) ==
    /\ Owner \in Active /\ m \in Active
    /\ account' = [account EXCEPT ![m] = "inactive"]
    /\ assignee' = Unassign(m)
    /\ request' = [q \in Requests |-> IF SameMatter(m, "thread", q)
                                        THEN [request[q] EXCEPT !.met = TRUE] ELSE request[q]]
    /\ UNCHANGED <<verified, codes, failures, excused>>

Activate(m) ==
    /\ Owner \in Active /\ account[m] = "inactive"
    /\ account' = [account EXCEPT ![m] = "active"]
    /\ UNCHANGED <<verified, codes, request, assignee, failures, excused>>

(* delete_account: the owner's row goes, and with it staff, codes and threads;*)
(* a request under way fails on a row that is gone.                           *)
DeleteShop ==
    /\ Owner \in Active
    /\ account'  = [p \in People |-> "none"]
    /\ verified' = {}
    /\ codes'    = [c \in {} |-> 0]
    /\ request'  = [q \in Requests |-> Free]
    /\ assignee' = Nobody
    /\ excused'  = {}
    /\ UNCHANGED failures

\* A request is refused or fails.
GiveUp(q) ==
    /\ request[q] # Free
    /\ End(q)
    /\ UNCHANGED <<account, verified, codes, assignee, failures, excused>>

\* Who is there and who comes; the codes they ask for and enter; links they open; what they do.
MembershipNext ==
    \/ Register \/ DeleteShop
    \/ \E m \in Staff : Deactivate(m) \/ Activate(m)
    \/ \E q \in Requests : GiveUp(q)

InvitesNext == \E q \in Requests : FinishInvite(q) \/ \E m \in Staff : StartInvite(q, m)

CodesNext ==
    \/ \E c \in Issued : CodeAges(c)
    \/ \E q \in Requests :
         FinishIssue(q) \/ \E p \in People, purpose \in Purposes : StartIssue(q, p, purpose)

LinksNext == \E q \in Requests : FinishLink(q) \/ \E c \in Issued : StartLink(q, c)

OtpNext == \E q \in Requests : FinishOtp(q) \/ \E p \in People : StartOtp(q, p)

LoginsNext ==
    \/ \E p \in People : WindowPasses(p)
    \/ \E q \in Requests : FinishLogin(q) \/ \E p \in People : StartLogin(q, p)

AssignNext ==
    \/ HandBackThread
    \/ \E q \in Requests : FinishAssign(q) \/ \E p \in People : StartAssign(q, p)

AccountsNext == MembershipNext \/ InvitesNext \/ CodesNext \/ LinksNext \/ OtpNext \/ LoginsNext \/ AssignNext

AccountsSpec == AccountsInit /\ [][AccountsNext]_accountVars

-----------------------------------------------------------------------------
(* The type of every variable.                                                *)
AccountsTypeOK ==
    /\ account \in [People -> {"none", "active", "inactive"}]
    /\ verified \subseteq Existing
    /\ Issued \subseteq 1..MaxCodes
    /\ \A c \in Issued : codes[c] \in
           [who : People, purpose : Purposes, live : BOOLEAN, recent : BOOLEAN,
            attempts : Nat, wrong : Nat, used : Nat, outdated : BOOLEAN, after : BOOLEAN,
            met : BOOLEAN]
    /\ \A q \in Requests : request[q].who \in People \cup {Nobody} /\ request[q].retires \subseteq Issued
    /\ assignee \in People \cup {Nobody}
    /\ failures \in [People -> Nat]
    /\ excused \subseteq {"thread", "team"}

(* "Only one code of a given kind is ever live per user", a code is redeemed  *)
(* once, survives no more wrong guesses than allowed, and is not redeemed     *)
(* once a password reset has outdated it -- unless a request about it met     *)
(* another, or one met the reset: what a request read live before a reset it  *)
(* redeems after it.  No outdated code is live: what begins after a reset     *)
(* finds none of those from before.                                           *)
CodesAreSingle ==
    /\ \A c, d \in Issued :
          /\ c # d /\ codes[c].live /\ codes[d].live
          /\ codes[c].who = codes[d].who /\ codes[c].purpose = codes[d].purpose
          => codes[c].met /\ codes[d].met
    /\ \A c \in Issued :
          /\ codes[c].met \/ (codes[c].used <= 1 /\ codes[c].wrong <= OtpMaxAttempts)
          /\ codes[c].live /\ codes[c].outdated => codes[c].purpose = "email_verify"
          /\ codes[c].after => codes[c].met \/ codes[c].purpose = "email_verify"

(* A thread is never left with somebody who left the team and the team does   *)
(* not outgrow MAX_STAFF, unless the assignment or the invitation met another *)
(* request; and failed sign-ins exceed their ceiling only by those that were  *)
(* under way when it was reached.                                             *)
TeamHolds ==
    /\ assignee \in Active \cup {Nobody} \/ "thread" \in excused
    /\ Cardinality(Staff \cap Existing) <= MaxStaff \/ "team" \in excused
    /\ \A p \in People : failures[p] < LoginMaxAttempts + Cardinality(Requests)

AccountsHold == CodesAreSingle /\ TeamHolds
=============================================================================
