--------------------------- MODULE People_proofs ----------------------------
(* Proofs about the people of a shop and around it: its team, its customers,  *)
(* and what they are told of their orders.  The components share no state,    *)
(* and no section uses another.                                               *)
EXTENDS Accounts, Customers, Notices,
        FiniteSetTheorems, SequenceTheorems, WellFoundedInduction, TLAPS

-----------------------------------------------------------------------------
(* Accounts.  Two requests about one matter that are under way together have  *)
(* both met, and what a request read stays true until it commits unless it    *)
(* has met another: so the code an unmet request adds is alone, the one it    *)
(* redeems has not been used, and the team it counted has not grown.          *)

CodeRows == [who : People, purpose : Purposes, live : BOOLEAN, recent : BOOLEAN,
             attempts : Nat, wrong : Nat, used : Nat, outdated : BOOLEAN, after : BOOLEAN,
             met : BOOLEAN]

Matters == Purposes \cup {"none", "login", "thread", "team"}

RequestRows == [does : {"nothing", "invite", "issue", "link", "otp", "login", "assign"},
                who : People \cup {Nobody}, matter : Matters, of : Nat, saw : Nat,
                retires : SUBSET Nat, met : BOOLEAN]

\* What is so of each code.
CodeHolds(c) ==
    /\ codes[c] \in CodeRows /\ codes[c].who \in Existing
    /\ codes[c].live => codes[c].used = 0
    /\ codes[c].met \/ (codes[c].used <= 1 /\ codes[c].wrong <= codes[c].attempts
                        /\ codes[c].attempts <= OtpMaxAttempts)
    /\ codes[c].live /\ codes[c].outdated => codes[c].purpose = "email_verify"
    /\ codes[c].after => codes[c].met \/ codes[c].purpose = "email_verify"

\* Live codes of one kind are not unmet.
Alone(c, d) ==
    codes[c].live /\ codes[d].live /\ codes[c].who = codes[d].who /\ codes[c].purpose = codes[d].purpose
        => codes[c].met /\ codes[d].met

CodesHold ==
    /\ \E n \in 0..MaxCodes : Issued = 1..n
    /\ \A c \in Issued : CodeHolds(c) /\ \A d \in Issued \ {c} : Alone(c, d)

Team == Staff \cap Existing

\* What is still so of what a request read, or else it has met another.
MatterHolds(q) ==
    /\ request[q].does = "nothing" => request[q] = Free
    /\ request[q].does = "invite"  => request[q].who \in Staff /\ request[q].matter = "team"
    /\ request[q].does = "issue"   => request[q].matter \in Purposes
    /\ request[q].does = "link"    => request[q].matter \in {"email_verify", "password_reset"}
    /\ request[q].does = "otp"     => request[q].matter = "login_otp"
    /\ request[q].does = "login"   => request[q].matter = "login"
    /\ request[q].does = "assign"  => request[q].matter = "thread"

IssueHolds(q) ==
    \A c \in Live(request[q].who, request[q].matter) \ request[q].retires : request[q].met /\ codes[c].met

RedeemHolds(q) ==
    LET c == request[q].of
    IN  /\ c \in Issued /\ codes[c].who = request[q].who /\ codes[c].purpose = request[q].matter
        /\ request[q].met \/ (/\ codes[c].used = 0
                              /\ request[q].does = "otp" => request[q].saw = codes[c].attempts
                              /\ codes[c].outdated => codes[c].purpose = "email_verify")

RequestHolds(q) ==
    /\ request[q] \in RequestRows /\ request[q].retires \subseteq Issued /\ MatterHolds(q)
    /\ request[q].does \notin {"nothing", "invite"} => request[q].who \in Existing
    /\ request[q].does = "invite" => request[q].met \/ Cardinality(Team) < MaxStaff
    /\ request[q].does = "issue" => IssueHolds(q)
    /\ request[q].does \in {"link", "otp"} => RedeemHolds(q)
    /\ request[q].does = "assign" => request[q].met \/ request[q].who \in Active

\* Two about one matter.
Meets(q, r) ==
    request[q].matter # "none" /\ SameMatter(request[q].who, request[q].matter, r)
        => request[q].met /\ request[r].met

RequestsHold ==
    /\ DOMAIN request = Requests
    /\ \A q \in Requests : RequestHolds(q) /\ \A r \in Requests \ {q} : Meets(q, r)

SigningIn(p) == {q \in Requests : request[q].does = "login" /\ request[q].who = p}

PeopleHold ==
    /\ account \in [People -> {"none", "active", "inactive"}]
    /\ verified \subseteq Existing
    /\ excused \subseteq {"thread", "team"}
    /\ assignee \in Active \cup {Nobody} \/ (assignee \in People /\ "thread" \in excused)
    /\ Cardinality(Team) <= MaxStaff \/ "team" \in excused

LoginsHold ==
    /\ failures \in [People -> Nat]
    /\ \A p \in People : failures[p] + Cardinality(SigningIn(p)) < LoginMaxAttempts + Cardinality(Requests)

AccountsInv == CodesHold /\ RequestsHold /\ PeopleHold /\ LoginsHold

-----------------------------------------------------------------------------
\* What any step leaves of a request it is not about, and of the codes.
Goes(q) == \/ request'[q] = request[q]
           \/ request[q].does # "nothing" /\ request'[q] = [request[q] EXCEPT !.met = TRUE]

CodesGoOn ==
    \A c \in Issued :
        /\ c \in Issued' /\ codes'[c].who = codes[c].who /\ codes'[c].purpose = codes[c].purpose
        /\ codes'[c].live => codes[c].live
        /\ codes[c].met => codes'[c].met

\* What a request may have read of a code is still so.
StaysRead(c) ==
    /\ codes'[c].used = codes[c].used /\ codes'[c].attempts = codes[c].attempts
    /\ codes'[c].outdated => codes[c].outdated \/ codes[c].purpose = "email_verify"

LEMMA GoesKeepsFields ==
    ASSUME NEW q \in Requests, Goes(q), request[q] \in RequestRows
    PROVE  /\ request'[q] \in RequestRows
           /\ request'[q].does = request[q].does /\ request'[q].who = request[q].who
           /\ request'[q].matter = request[q].matter /\ request'[q].of = request[q].of
           /\ request'[q].saw = request[q].saw /\ request'[q].retires = request[q].retires
           /\ request[q].met => request'[q].met
           /\ request[q].does = "nothing" => request'[q] = request[q]
BY DEF Goes, RequestRows

(* A request that a step is not about goes on to hold, if nothing it read has *)
(* changed or it has met another.                                             *)
LEMMA BystanderHolds ==
    ASSUME NEW q \in Requests, RequestHolds(q), Goes(q), CodesGoOn, Existing \subseteq Existing',
           request[q].does = "invite" => request'[q].met \/ Team' = Team,
           request[q].does = "issue" =>
               \A c \in Issued' \ Issued :
                   codes'[c].who = request[q].who /\ codes'[c].purpose = request[q].matter
                       => request'[q].met /\ codes'[c].met,
           request[q].does \in {"link", "otp"} => request'[q].met \/ StaysRead(request[q].of),
           request[q].does = "assign" =>
               request'[q].met \/ (request[q].who \in Active => request[q].who \in Active')
    PROVE  RequestHolds(q)'
<1>1. /\ request'[q] \in RequestRows
      /\ request'[q].does = request[q].does /\ request'[q].who = request[q].who
      /\ request'[q].matter = request[q].matter /\ request'[q].of = request[q].of
      /\ request'[q].saw = request[q].saw /\ request'[q].retires = request[q].retires
      /\ request[q].met => request'[q].met
      /\ request[q].does = "nothing" => request'[q] = request[q]
    BY GoesKeepsFields DEF RequestHolds
<1>2. request'[q].retires \subseteq Issued' /\ MatterHolds(q)'
    BY <1>1 DEF RequestHolds, MatterHolds, CodesGoOn, Free
<1>3. request'[q].does \notin {"nothing", "invite"} => request'[q].who \in Existing'
    BY <1>1 DEF RequestHolds
<1>4. request'[q].does = "invite" => request'[q].met \/ Cardinality(Team') < MaxStaff
    BY <1>1 DEF RequestHolds
<1>5. request'[q].does = "issue" => IssueHolds(q)'
    <2> SUFFICES ASSUME request[q].does = "issue", NEW c \in Issued',
                        codes'[c].who = request[q].who, codes'[c].purpose = request[q].matter,
                        codes'[c].live, c \notin request[q].retires
        PROVE  request'[q].met /\ codes'[c].met
        BY <1>1 DEF IssueHolds, Live, CodesOf
    <2>1. CASE c \in Issued
        <3>1. c \in Live(request[q].who, request[q].matter) \ request[q].retires
            BY <2>1 DEF CodesGoOn, Live, CodesOf
        <3> QED BY <1>1, <2>1, <3>1 DEF RequestHolds, IssueHolds, CodesGoOn
    <2> QED BY <2>1
<1>6. request'[q].does \in {"link", "otp"} => RedeemHolds(q)'
    BY <1>1 DEF RequestHolds, RedeemHolds, CodesGoOn, StaysRead
<1>7. request'[q].does = "assign" => request'[q].met \/ request'[q].who \in Active'
    BY <1>1 DEF RequestHolds
<1> QED BY <1>1, <1>2, <1>3, <1>4, <1>5, <1>6, <1>7 DEF RequestHolds

LEMMA MeetingsStay ==
    ASSUME NEW q \in Requests, NEW r \in Requests, RequestHolds(q), RequestHolds(r),
           Goes(q), Goes(r), Meets(q, r)
    PROVE  Meets(q, r)'
<1>1. /\ request'[q].matter = request[q].matter /\ request'[q].who = request[q].who
      /\ request'[r].matter = request[r].matter /\ request'[r].who = request[r].who
      /\ request[q].met => request'[q].met
      /\ request[r].met => request'[r].met
    BY GoesKeepsFields DEF RequestHolds
<1> QED BY <1>1 DEF Meets, SameMatter

LEMMA OnlyMetChanges ==
    ASSUME NEW old \in CodeRows, NEW new, new = [old EXCEPT !.met = new.met]
    PROVE  /\ new.who = old.who /\ new.purpose = old.purpose
           /\ new.used = old.used /\ new.wrong = old.wrong
           /\ new.attempts = old.attempts /\ new.live = old.live
           /\ new.outdated = old.outdated /\ new.after = old.after
BY DEF CodeRows

LEMMA CodesStay == ASSUME CodesHold, UNCHANGED codes, Existing \subseteq Existing' PROVE CodesHold' /\ CodesGoOn
BY DEF CodesHold, CodesGoOn, CodeHolds, CodeRows, Alone, Issued

LEMMA TeamIsFinite == IsFiniteSet(Team) /\ Cardinality(Team) \in Nat
BY AccountsAssumption, FS_Subset, FS_CardinalityType DEF Team

LEMMA SigningInIsFinite ==
    ASSUME NEW p
    PROVE  /\ IsFiniteSet(SigningIn(p)) /\ Cardinality(SigningIn(p)) \in Nat
           /\ Cardinality(Requests) \in Nat /\ Cardinality(SigningIn(p)) <= Cardinality(Requests)
<1>1. SigningIn(p) \subseteq Requests
    BY DEF SigningIn
<1> QED BY <1>1, AccountsAssumption, FS_Subset, FS_CardinalityType

\* Nobody fails to sign in, and nobody begins to.
LEMMA LoginsStay ==
    ASSUME LoginsHold, failures' \in [People -> Nat], \A p \in People : failures'[p] <= failures[p],
           \A p \in People : SigningIn(p)' \subseteq SigningIn(p)
    PROVE  LoginsHold'
<1> SUFFICES ASSUME NEW p \in People
    PROVE  failures'[p] + Cardinality(SigningIn(p)') < LoginMaxAttempts + Cardinality(Requests)
    BY DEF LoginsHold
<1>1. /\ Cardinality(SigningIn(p)') <= Cardinality(SigningIn(p)) /\ Cardinality(SigningIn(p)) \in Nat
      /\ Cardinality(SigningIn(p)') \in Nat /\ Cardinality(Requests) \in Nat
    BY SigningInIsFinite, FS_Subset, FS_CardinalityType
<1>2. failures[p] \in Nat /\ failures'[p] \in Nat
    BY DEF LoginsHold
<1> QED BY <1>1, <1>2, AccountsAssumption DEF LoginsHold

\* All requests go on but one, which ends.
Ends(q) == DOMAIN request' = Requests /\ request'[q] = Free /\ \A r \in Requests \ {q} : Goes(r)

LEMMA EndEnds ==
    ASSUME RequestsHold, NEW q \in Requests, End(q)
    PROVE  Ends(q)
BY DEF End, Ends, RequestsHold, Goes

LEMMA ResetEnds ==
    ASSUME RequestsHold, NEW q \in Requests, EndReset(q)
    PROVE  /\ Ends(q)
           /\ \A r \in Requests \ {q} :
                 SameMatter(request[q].who, "login_otp", r) => request'[r].met
<1>1. DOMAIN request' = Requests /\ request'[q] = Free
    BY DEF EndReset
<1>2. ASSUME NEW r \in Requests \ {q}
      PROVE  Goes(r) /\ (SameMatter(request[q].who, "login_otp", r) => request'[r].met)
    <2>1. RequestHolds(r) /\ request[r] \in RequestRows
        BY DEF RequestsHold, RequestHolds
    <2>2. CASE SameMatter(request[q].who, "login_otp", r)
        <3>1. request'[r] = [request[r] EXCEPT !.met = TRUE]
            BY <2>2 DEF EndReset
        <3>2. request[r].does # "nothing"
            BY <2>1, <2>2 DEF SameMatter, RequestHolds, MatterHolds, Free
        <3> QED BY <2>1, <3>1, <3>2 DEF Goes, RequestRows
    <2>3. CASE ~SameMatter(request[q].who, "login_otp", r)
        BY <2>3 DEF Goes, EndReset
    <2> QED BY <2>2, <2>3
<1> QED BY <1>1, <1>2 DEF Ends

LEMMA RequestEnds ==
    ASSUME RequestsHold, NEW q \in Requests, Ends(q),
           \A r \in Requests \ {q} : RequestHolds(r)'
    PROVE  /\ RequestsHold' /\ \A p \in People : SigningIn(p)' \subseteq SigningIn(p)
<1>1. DOMAIN request' = Requests /\ request'[q] = Free /\ \A r \in Requests \ {q} : Goes(r) /\ RequestHolds(r)
    BY DEF Ends, RequestsHold
<1>2. RequestHolds(q)'
    BY <1>1 DEF RequestHolds, Free, RequestRows, MatterHolds, Matters
<1>3. ASSUME NEW r \in Requests, NEW t \in Requests \ {r} PROVE Meets(r, t)'
    <2>1. CASE r = q \/ t = q
        BY <1>1, <2>1 DEF Meets, SameMatter, Free
    <2>2. CASE r # q /\ t # q
        <3>1. Meets(r, t)
            BY DEF RequestsHold
        <3> QED BY <1>1, <2>2, <3>1, MeetingsStay
    <2> QED BY <2>1, <2>2
<1>4. ASSUME NEW p \in People PROVE SigningIn(p)' \subseteq SigningIn(p)
    <2>1. \A r \in Requests \ {q} : request'[r].does = request[r].does /\ request'[r].who = request[r].who
        BY <1>1, GoesKeepsFields DEF RequestHolds
    <2> QED BY <1>1, <2>1 DEF SigningIn, Free
<1> QED BY <1>1, <1>2, <1>3, <1>4 DEF RequestsHold

(* A request starts: those about its matter meet it, and it holds what it     *)
(* read.                                                                      *)
LEMMA StartKeeps ==
    ASSUME AccountsInv, NEW q \in Requests, NEW does, NEW p \in People, NEW matter \in Matters \ {"none"},
           NEW of, NEW saw, NEW retires, Start(q, does, p, matter, of, saw, retires),
           RequestHolds(q)', does = "login" => failures[p] < LoginMaxAttempts
    PROVE  AccountsInv'
<1>1. CodesHold /\ RequestsHold /\ PeopleHold /\ LoginsHold
    BY DEF AccountsInv
<1>2. PICK others : others = {r \in Requests : SameMatter(p, matter, r)}
    OBVIOUS
<1>3. /\ request[q] = Free /\ UNCHANGED <<account, verified, codes, assignee, failures, excused>>
      /\ DOMAIN request' = Requests
      /\ request'[q] = [does |-> does, who |-> p, matter |-> matter, of |-> of, saw |-> saw,
                        retires |-> retires, met |-> others # {}]
      /\ \A r \in Requests \ {q} :
            request'[r] = IF r \in others THEN [request[r] EXCEPT !.met = TRUE] ELSE request[r]
    BY <1>2 DEF Start
<1>4. CodesHold' /\ CodesGoOn
    BY <1>1, <1>3, CodesStay DEF Existing
<1>5. PeopleHold'
    BY <1>1, <1>3 DEF PeopleHold, Existing, Active, Team
<1>6. \A r \in Requests \ {q} : RequestHolds(r) /\ Goes(r)
    <2> SUFFICES ASSUME NEW r \in Requests \ {q} PROVE RequestHolds(r) /\ Goes(r)
        OBVIOUS
    <2>1. RequestHolds(r)
        BY <1>1 DEF RequestsHold
    <2>2. r \in others => request[r].does # "nothing"
        BY <1>2, <2>1 DEF SameMatter, RequestHolds, MatterHolds, Free
    <2> QED BY <1>3, <2>1, <2>2 DEF Goes
<1>7. \A r \in Requests : RequestHolds(r)'
    <2> SUFFICES ASSUME NEW r \in Requests \ {q} PROVE RequestHolds(r)'
        OBVIOUS
    <2> QED BY <1>3, <1>4, <1>6, BystanderHolds DEF Existing, Active, Team, Issued, StaysRead
<1>8. \A r \in Requests : \A t \in Requests \ {r} : Meets(r, t)'
    <2>1. \A r \in Requests \ {q} : \A t \in Requests \ {r, q} : Meets(r, t)'
        BY <1>1, <1>6, MeetingsStay DEF RequestsHold
    <2>2. ASSUME NEW r \in Requests \ {q} PROVE Meets(q, r)' /\ Meets(r, q)'
        <3>1. /\ request'[r].matter = request[r].matter /\ request'[r].who = request[r].who
              /\ request[r] \in RequestRows
            BY <1>6, GoesKeepsFields DEF RequestHolds
        <3>2. r \in others => request'[q].met /\ request'[r].met
            <4> SUFFICES ASSUME r \in others PROVE request'[q].met /\ request'[r].met
                OBVIOUS
            <4>1. request'[r] = [request[r] EXCEPT !.met = TRUE]
                BY <1>3
            <4>2. request'[q].met = (others # {})
                BY <1>3
            <4>3. request'[r].met
                BY <3>1, <4>1 DEF RequestRows
            <4> QED BY <4>2, <4>3
        <3>3. /\ request'[q].who = p /\ request'[q].matter = matter
            BY <1>3
        <3>4. r \notin others => ~(request'[r].matter = matter /\ (matter # "team" => request'[r].who = p))
            BY <1>2, <3>1 DEF SameMatter
        <3> QED BY <3>2, <3>3, <3>4 DEF Meets, SameMatter
    <2> QED BY <2>1, <2>2
<1>9. LoginsHold'
    <2> SUFFICES ASSUME NEW x \in People
        PROVE  failures[x] + Cardinality(SigningIn(x)') < LoginMaxAttempts + Cardinality(Requests)
        BY <1>1, <1>3 DEF LoginsHold
    <2>1. /\ Cardinality(SigningIn(x)) \in Nat /\ Cardinality(Requests) \in Nat
          /\ IsFiniteSet(SigningIn(x)) /\ failures[x] \in Nat
        BY <1>1, SigningInIsFinite DEF LoginsHold
    <2>2. Cardinality(SigningIn(x)') \in Nat /\ Cardinality(SigningIn(x)') <= Cardinality(Requests)
        <3>1. SigningIn(x)' \subseteq Requests
            BY DEF SigningIn
        <3> QED BY <3>1, AccountsAssumption, FS_Subset, FS_CardinalityType
    <2>3. CASE does = "login" /\ x = p
        BY <2>1, <2>2, <2>3, AccountsAssumption
    <2>4. CASE ~(does = "login" /\ x = p)
        <3>1. \A r \in Requests \ {q} : request'[r].does = request[r].does /\ request'[r].who = request[r].who
            BY <1>6, GoesKeepsFields DEF RequestHolds
        <3>2. SigningIn(x)' \subseteq SigningIn(x)
            BY <1>3, <2>4, <3>1 DEF SigningIn
        <3>3. Cardinality(SigningIn(x)') <= Cardinality(SigningIn(x))
            BY <2>1, <3>2, FS_Subset
        <3> QED BY <1>1, <2>1, <2>2, <3>3, AccountsAssumption DEF LoginsHold
    <2> QED BY <2>3, <2>4
<1> QED BY <1>3, <1>4, <1>5, <1>7, <1>8, <1>9 DEF AccountsInv, RequestsHold

(* A code is added to the codes an invalidation left: what stays live of its  *)
(* kind has been met, as has it.                                              *)
Comes(left, entry) ==
    /\ codes' = [c \in Issued \cup {Cardinality(Issued) + 1} |-> IF c \in Issued THEN left[c] ELSE entry]
    /\ \A c \in Issued : left[c] = codes[c] \/ left[c] = [codes[c] EXCEPT !.live = FALSE]
    /\ entry \in CodeRows /\ entry.used = 0 /\ entry.attempts = 0 /\ entry.wrong = 0
    /\ ~entry.outdated /\ ~entry.after
    /\ \A c \in Issued : left[c].live /\ codes[c].who = entry.who /\ codes[c].purpose = entry.purpose
                           => entry.met /\ codes[c].met
    /\ RoomForCode /\ Existing \subseteq Existing' /\ entry.who \in Existing'

LEMMA CodeComes ==
    ASSUME CodesHold, NEW left, NEW entry, Comes(left, entry)
    PROVE  /\ CodesHold' /\ CodesGoOn
           /\ \A c \in Issued : StaysRead(c)
           /\ \A c \in Issued' \ Issued : codes'[c] = entry
<1>1. PICK n \in 0..MaxCodes : Issued = 1..n
    BY DEF CodesHold
<1>2. Cardinality(Issued) = n /\ n + 1 \in 0..MaxCodes /\ Issued \cup {n + 1} = 1..(n + 1) /\ n + 1 \notin Issued
    <2>1. Cardinality(1..n) = n
        <3>1. n \in Nat /\ 1 \in Int /\ n \in Int
            BY AccountsAssumption
        <3>2. Cardinality(1..n) = IF 1 > n THEN 0 ELSE n - 1 + 1
            BY <3>1, FS_Interval
        <3> QED BY <3>1, <3>2
    <2> QED BY <1>1, <2>1, AccountsAssumption DEF RoomForCode, Comes
<1>3. /\ Issued' = 1..(n + 1) /\ codes'[n + 1] = entry
      /\ \A c \in Issued : codes'[c] = left[c] /\ c # n + 1
    BY <1>2 DEF Issued, Comes
<1>4. ASSUME NEW c \in Issued
      PROVE  /\ CodeHolds(c)' /\ c \in Issued' /\ codes'[c].who = codes[c].who
             /\ codes'[c].purpose = codes[c].purpose /\ codes'[c].met = codes[c].met
             /\ StaysRead(c)
             /\ codes'[c].live => codes[c].live
    <2>1. CodeHolds(c) /\ codes[c] \in CodeRows
        BY DEF CodesHold, CodeHolds
    <2>2. CASE codes'[c] = codes[c]
        BY <1>1, <1>3, <2>1, <2>2 DEF CodeHolds, Comes, StaysRead
    <2>3. CASE codes'[c] = [codes[c] EXCEPT !.live = FALSE]
        <3>1. codes'[c] \in CodeRows
            BY <2>1, <2>3 DEF CodeRows
        <3>2. /\ codes'[c].who = codes[c].who /\ codes'[c].purpose = codes[c].purpose
              /\ codes'[c].met = codes[c].met /\ codes'[c].used = codes[c].used
              /\ codes'[c].attempts = codes[c].attempts /\ codes'[c].wrong = codes[c].wrong
              /\ codes'[c].outdated = codes[c].outdated /\ codes'[c].after = codes[c].after
              /\ codes'[c].live = FALSE
            BY <2>1, <2>3 DEF CodeRows
        <3> QED BY <1>1, <1>3, <2>1, <3>1, <3>2 DEF CodeHolds, Comes, StaysRead
    <2> QED BY <1>3, <2>2, <2>3 DEF Comes
<1>5. CodeHolds(n + 1)'
    BY <1>3, AccountsAssumption DEF CodeHolds, Comes
<1>6. ASSUME NEW c \in Issued, NEW d \in Issued \ {c} PROVE Alone(c, d)'
    <2>1. Alone(c, d)
        BY DEF CodesHold
    <2> QED BY <1>4, <2>1 DEF Alone
<1>7. ASSUME NEW c \in Issued PROVE Alone(c, n + 1)' /\ Alone(n + 1, c)'
    BY <1>3, <1>4, <1>5 DEF Alone, Comes
<1>8. CodesHold'
    <2>1. \A c \in 1..(n + 1) : c \in Issued \/ c = n + 1
        BY <1>2
    <2>2. \A c \in Issued' : CodeHolds(c)'
        BY <1>3, <1>4, <1>5, <2>1
    <2>3. \A c \in Issued' : \A d \in Issued' \ {c} : Alone(c, d)'
        BY <1>3, <1>6, <1>7, <2>1
    <2> QED BY <1>2, <1>3, <2>2, <2>3 DEF CodesHold
<1>9. CodesGoOn
    BY <1>4 DEF CodesGoOn
<1> QED BY <1>1, <1>2, <1>3, <1>4, <1>5, <1>8, <1>9

-----------------------------------------------------------------------------
\* The requests that start, and what each has read.
LEMMA InviteStarts ==
    ASSUME AccountsInv, NEW q \in Requests, NEW m \in Staff, StartInvite(q, m)
    PROVE  AccountsInv'
<1>1. /\ Start(q, "invite", m, "team", 0, 0, {}) /\ Owner \in Active /\ Cardinality(Existing) <= MaxStaff
      /\ request[q] = Free /\ UNCHANGED <<account, codes>>
    BY DEF StartInvite, Start
<1>2. Cardinality(Team) < MaxStaff
    <2>1. Existing = Team \cup {Owner} /\ Owner \notin Team
        BY <1>1, AccountsAssumption DEF Existing, Active, Team, People
    <2>2. Cardinality(Existing) = Cardinality(Team) + 1
        BY <2>1, TeamIsFinite, FS_AddElement
    <2> QED BY <1>1, <2>2, TeamIsFinite, AccountsAssumption
<1>3. \E met \in BOOLEAN : request'[q] =
          [does |-> "invite", who |-> m, matter |-> "team", of |-> 0, saw |-> 0, retires |-> {}, met |-> met]
    BY <1>1 DEF Start
<1>4. Team' = Team
    BY <1>1 DEF Team, Existing
<1>5. RequestHolds(q)'
    BY <1>2, <1>3, <1>4 DEF RequestHolds, RequestRows, Matters, MatterHolds, People
<1> QED BY <1>1, <1>5, StartKeeps DEF Matters, People

LEMMA IssueStarts ==
    ASSUME AccountsInv, NEW q \in Requests, NEW p \in People, NEW purpose \in Purposes, StartIssue(q, p, purpose)
    PROVE  AccountsInv'
<1>1. /\ Start(q, "issue", p, purpose, 0, 0, Live(p, purpose)) /\ p \in Existing
      /\ UNCHANGED <<account, codes>>
    BY DEF StartIssue, Start, MayAsk, Retires, Active, Existing
<1>2. \E met \in BOOLEAN : request'[q] =
          [does |-> "issue", who |-> p, matter |-> purpose, of |-> 0, saw |-> 0,
           retires |-> Live(p, purpose), met |-> met]
    BY <1>1 DEF Start
<1>3. Live(p, purpose) \subseteq Issued /\ Live(p, purpose) \in SUBSET Nat
    BY AccountsAssumption DEF Live, CodesOf, AccountsInv, CodesHold
<1>4. Existing' = Existing /\ Issued' = Issued /\ Live(p, purpose)' = Live(p, purpose)
    BY <1>1 DEF Existing, Issued, Live, CodesOf
<1>5. IssueHolds(q)'
    BY <1>2, <1>4 DEF IssueHolds
<1>6. RequestHolds(q)'
    BY <1>1, <1>2, <1>3, <1>4, <1>5 DEF RequestHolds, RequestRows, Matters, MatterHolds
<1> QED BY <1>1, <1>6, StartKeeps DEF Matters, Purposes

LEMMA LinkStarts ==
    ASSUME AccountsInv, NEW q \in Requests, NEW c \in Issued, StartLink(q, c)
    PROVE  AccountsInv'
<1>1. PICK p, u : p = codes[c].who /\ u = codes[c].purpose
    OBVIOUS
<1>2. /\ Start(q, "link", p, u, c, 0, {}) /\ p \in Existing /\ u # "login_otp" /\ codes[c].live
      /\ UNCHANGED <<account, codes>>
    BY <1>1 DEF StartLink, Start, Active, Existing
<1>3. /\ p \in People /\ u \in {"email_verify", "password_reset"} /\ codes[c].used = 0 /\ c \in Nat
      /\ codes[c].outdated => codes[c].purpose = "email_verify"
    BY <1>1, <1>2, AccountsAssumption DEF AccountsInv, CodesHold, CodeHolds, CodeRows, Purposes
<1>4. \E met \in BOOLEAN : request'[q] =
          [does |-> "link", who |-> p, matter |-> u, of |-> c, saw |-> 0, retires |-> {}, met |-> met]
    BY <1>2 DEF Start
<1>5. Existing' = Existing /\ Issued' = Issued
    BY <1>2 DEF Existing, Issued
<1>6. RequestHolds(q)'
    BY <1>1, <1>2, <1>3, <1>4, <1>5 DEF RequestHolds, RequestRows, Matters, MatterHolds, RedeemHolds, Purposes
<1> QED BY <1>2, <1>3, <1>6, StartKeeps DEF Matters, Purposes

LEMMA OtpStarts ==
    ASSUME AccountsInv, NEW q \in Requests, NEW p \in People, StartOtp(q, p)
    PROVE  AccountsInv'
<1>1. PICK c \in Live(p, "login_otp") : Start(q, "otp", p, "login_otp", c, codes[c].attempts, {})
    BY DEF StartOtp
<1>2. p \in Existing /\ UNCHANGED <<account, codes>>
    BY <1>1 DEF StartOtp, Start, Active, Existing
<1>3. /\ c \in Issued /\ codes[c].who = p /\ codes[c].purpose = "login_otp" /\ codes[c].live
    BY DEF Live, CodesOf
<1>4. /\ codes[c].used = 0 /\ c \in Nat /\ codes[c].attempts \in Nat
      /\ codes[c].outdated => codes[c].purpose = "email_verify"
    BY <1>3, AccountsAssumption DEF AccountsInv, CodesHold, CodeHolds, CodeRows
<1>5. \E met \in BOOLEAN : request'[q] =
          [does |-> "otp", who |-> p, matter |-> "login_otp", of |-> c, saw |-> codes[c].attempts,
           retires |-> {}, met |-> met]
    BY <1>1 DEF Start
<1>6. Existing' = Existing /\ Issued' = Issued
    BY <1>2 DEF Existing, Issued
<1>7. RequestHolds(q)'
    BY <1>2, <1>3, <1>4, <1>5, <1>6 DEF RequestHolds, RequestRows, Matters, MatterHolds, RedeemHolds, Purposes
<1> QED BY <1>1, <1>7, StartKeeps DEF Matters, Purposes

LEMMA OthersStart ==
    ASSUME AccountsInv, NEW q \in Requests, NEW p \in People, StartLogin(q, p) \/ StartAssign(q, p)
    PROVE  AccountsInv'
<1>1. CASE StartLogin(q, p)
    <2>1. /\ Start(q, "login", p, "login", 0, 0, {}) /\ p \in Existing /\ failures[p] < LoginMaxAttempts
          /\ UNCHANGED <<account, codes>>
        BY <1>1 DEF StartLogin, Start
    <2>2. \E met \in BOOLEAN : request'[q] =
              [does |-> "login", who |-> p, matter |-> "login", of |-> 0, saw |-> 0, retires |-> {}, met |-> met]
        BY <2>1 DEF Start
    <2>3. RequestHolds(q)'
        BY <2>1, <2>2 DEF RequestHolds, RequestRows, Matters, MatterHolds, Existing
    <2> QED BY <2>1, <2>3, StartKeeps DEF Matters, Purposes
<1>2. CASE StartAssign(q, p)
    <2>1. /\ Start(q, "assign", p, "thread", 0, 0, {}) /\ p \in Active /\ UNCHANGED <<account, codes>>
        BY <1>2 DEF StartAssign, Start
    <2>2. \E met \in BOOLEAN : request'[q] =
              [does |-> "assign", who |-> p, matter |-> "thread", of |-> 0, saw |-> 0, retires |-> {}, met |-> met]
        BY <2>1 DEF Start
    <2>3. RequestHolds(q)'
        BY <2>1, <2>2 DEF RequestHolds, RequestRows, Matters, MatterHolds, Existing, Active
    <2> QED BY <2>1, <2>3, StartKeeps DEF Matters, Purposes
<1> QED BY <1>1, <1>2

-----------------------------------------------------------------------------
\* The requests that end.  Where no code changes:
LEMMA QuietEnd ==
    ASSUME AccountsInv, NEW q \in Requests, End(q), UNCHANGED <<codes, account>>
    PROVE  CodesHold' /\ RequestsHold' /\ \A p \in People : SigningIn(p)' \subseteq SigningIn(p)
<1>1. CodesHold /\ RequestsHold
    BY DEF AccountsInv
<1>2. CodesHold' /\ CodesGoOn
    BY <1>1, CodesStay DEF Existing
<1>3. ASSUME NEW r \in Requests \ {q} PROVE RequestHolds(r)'
    <2>1. Goes(r) /\ RequestHolds(r)
        BY <1>1 DEF Goes, End, RequestsHold
    <2> QED BY <1>2, <2>1, BystanderHolds DEF Existing, Active, Team, Issued, StaysRead
<1> QED BY <1>1, <1>2, <1>3, EndEnds, RequestEnds

LEMMA LoginEnds ==
    ASSUME AccountsInv, NEW q \in Requests, FinishLogin(q)
    PROVE  AccountsInv'
<1>1. /\ CodesHold /\ RequestsHold /\ PeopleHold /\ LoginsHold
    BY DEF AccountsInv
<1>2. PICK p : p = request[q].who
    OBVIOUS
<1>3. /\ request[q].does = "login" /\ UNCHANGED <<account, verified, codes, assignee, excused>> /\ End(q)
      /\ \/ failures' = [failures EXCEPT ![p] = @ + 1]
         \/ UNCHANGED failures
         \/ failures' = [failures EXCEPT ![p] = 0]
    BY <1>2 DEF FinishLogin
<1>4. CodesHold' /\ RequestsHold' /\ \A x \in People : SigningIn(x)' \subseteq SigningIn(x)
    BY <1>3, QuietEnd
<1>5. p \in People
    BY <1>1, <1>2, <1>3 DEF RequestsHold, RequestHolds, Existing
<1>6. LoginsHold'
    <2>1. CASE failures' = [failures EXCEPT ![p] = @ + 1]
        <3>1. SigningIn(p) = SigningIn(p)' \cup {q} /\ q \notin SigningIn(p)'
            <4>1. \A r \in Requests : request'[r] = IF r = q THEN Free ELSE request[r]
                BY <1>1, <1>3 DEF End, RequestsHold
            <4> QED BY <1>2, <1>3, <4>1 DEF SigningIn, Free
        <3>2. Cardinality(SigningIn(p)) = Cardinality(SigningIn(p)') + 1
              /\ Cardinality(SigningIn(p)') \in Nat
            <4>1. IsFiniteSet(SigningIn(p)')
                BY <3>1, SigningInIsFinite, FS_Subset
            <4> QED BY <3>1, <4>1, FS_AddElement, FS_CardinalityType
        <3>3. Cardinality(Requests) \in Nat /\ failures \in [People -> Nat] /\ failures' \in [People -> Nat]
            BY <1>1, <1>5, <2>1, SigningInIsFinite DEF LoginsHold
        <3>4. failures'[p] + Cardinality(SigningIn(p)') < LoginMaxAttempts + Cardinality(Requests)
            BY <1>1, <1>5, <2>1, <3>2, <3>3, AccountsAssumption DEF LoginsHold
        <3>5. ASSUME NEW x \in People \ {p}
              PROVE  failures'[x] + Cardinality(SigningIn(x)') < LoginMaxAttempts + Cardinality(Requests)
            <4>1. failures'[x] = failures[x]
                BY <2>1, <3>3
            <4>2. /\ Cardinality(SigningIn(x)') <= Cardinality(SigningIn(x))
                  /\ Cardinality(SigningIn(x)') \in Nat /\ Cardinality(SigningIn(x)) \in Nat
                BY <1>4, SigningInIsFinite, FS_Subset, FS_CardinalityType
            <4> QED BY <1>1, <3>3, <4>1, <4>2, AccountsAssumption DEF LoginsHold
        <3> QED BY <3>3, <3>4, <3>5 DEF LoginsHold
    <2>2. CASE failures' = failures \/ failures' = [failures EXCEPT ![p] = 0]
        <3>1. failures' \in [People -> Nat] /\ \A x \in People : failures'[x] <= failures[x]
            BY <1>1, <2>2 DEF LoginsHold
        <3> QED BY <1>1, <1>4, <3>1, LoginsStay
    <2> QED BY <1>3, <2>1, <2>2
<1>7. PeopleHold'
    BY <1>1, <1>3 DEF PeopleHold, Existing, Active, Team
<1> QED BY <1>4, <1>6, <1>7 DEF AccountsInv

LEMMA AssignEnds ==
    ASSUME AccountsInv, NEW q \in Requests, FinishAssign(q) \/ GiveUp(q)
    PROVE  AccountsInv'
<1>1. CodesHold /\ RequestsHold /\ PeopleHold /\ LoginsHold /\ RequestHolds(q)
    BY DEF AccountsInv, RequestsHold
<1>2. End(q) /\ UNCHANGED <<account, verified, codes, failures>>
    BY DEF FinishAssign, GiveUp
<1>3. CodesHold' /\ RequestsHold' /\ \A x \in People : SigningIn(x)' \subseteq SigningIn(x)
    BY <1>2, QuietEnd
<1>4. LoginsHold'
    BY <1>1, <1>2, <1>3, LoginsStay DEF LoginsHold
<1>5. PeopleHold'
    <2>1. CASE GiveUp(q)
        BY <1>1, <2>1 DEF GiveUp, PeopleHold, Existing, Active, Team
    <2>2. CASE FinishAssign(q)
        <3>1. /\ assignee' = request[q].who
              /\ excused' = IF request[q].met THEN excused \cup {"thread"} ELSE excused \ {"thread"}
              /\ request[q].who \in People /\ (request[q].met \/ request[q].who \in Active)
            BY <1>1, <2>2 DEF FinishAssign, RequestHolds, Existing
        <3> QED BY <1>1, <1>2, <3>1 DEF PeopleHold, Existing, Active, Team
    <2> QED BY <2>1, <2>2
<1> QED BY <1>3, <1>4, <1>5 DEF AccountsInv

LEMMA InviteEnds ==
    ASSUME AccountsInv, NEW q \in Requests, FinishInvite(q)
    PROVE  AccountsInv'
<1>1. CodesHold /\ RequestsHold /\ PeopleHold /\ LoginsHold /\ RequestHolds(q)
    BY DEF AccountsInv, RequestsHold
<1>2. PICK m : m = request[q].who
    OBVIOUS
<1>3. /\ request[q].does = "invite" /\ account[m] = "none" /\ RoomForCode
      /\ account' = [account EXCEPT ![m] = "active"]
      /\ codes' = WithCode(codes, m, "password_reset", FALSE)
      /\ excused' = IF request[q].met THEN excused \cup {"team"} ELSE excused
      /\ End(q) /\ UNCHANGED <<verified, assignee, failures>>
    BY <1>2 DEF FinishInvite
<1>4. /\ m \in Staff /\ m \in People /\ request[q].matter = "team" /\ m # Nobody
      /\ request[q].met \/ Cardinality(Team) < MaxStaff
    BY <1>1, <1>2, <1>3, AccountsAssumption DEF RequestHolds, MatterHolds, People
<1>5. /\ account' \in [People -> {"none", "active", "inactive"}]
      /\ Existing' = Existing \cup {m} /\ m \notin Existing
      /\ Team' = Team \cup {m} /\ m \notin Team /\ Active \subseteq Active'
    BY <1>1, <1>3, <1>4 DEF PeopleHold, Existing, Active, Team
<1>6. \A c \in Issued : codes[c].who # m
    BY <1>1, <1>5 DEF CodesHold, CodeHolds
<1>7. /\ CodesHold' /\ CodesGoOn
      /\ \A c \in Issued : StaysRead(c)
      /\ \A c \in Issued' \ Issued : codes'[c].who = m
    <2>1. PICK entry : entry = NewCode(m, "password_reset", FALSE)
        OBVIOUS
    <2>2. /\ codes' = [c \in Issued \cup {Cardinality(Issued) + 1} |-> IF c \in Issued THEN codes[c] ELSE entry]
          /\ entry \in CodeRows /\ entry.who = m
          /\ entry.used = 0 /\ entry.attempts = 0 /\ entry.wrong = 0
          /\ ~entry.outdated /\ ~entry.after
          /\ RoomForCode /\ Existing \subseteq Existing' /\ m \in Existing'
        BY <1>3, <1>4, <1>5, <2>1 DEF WithCode, NewCode, CodeRows, Purposes
    <2>3. Comes(codes, entry)
        BY <1>6, <2>2 DEF Comes
    <2>4. /\ CodesHold' /\ CodesGoOn
          /\ \A c \in Issued : StaysRead(c)
          /\ \A c \in Issued' \ Issued : codes'[c] = entry
        BY <1>1, <2>2, <2>3, CodeComes
    <2> QED BY <2>2, <2>4
<1>8. ASSUME NEW r \in Requests \ {q} PROVE RequestHolds(r)'
    <2>1. Goes(r) /\ RequestHolds(r) /\ Meets(q, r)
        BY <1>1, <1>3 DEF Goes, End, RequestsHold
    <2>2. request[r].does = "invite" => request'[r].met
        <3>1. request[r].does = "invite" => request[r].met
            BY <1>4, <2>1 DEF RequestHolds, MatterHolds, Meets, SameMatter
        <3> QED BY <2>1, <3>1, GoesKeepsFields DEF RequestHolds
    <2>3. request[r].does = "issue" => request[r].who # m
        BY <1>5, <2>1 DEF RequestHolds
    <2>4. request[r].does \in {"link", "otp"} => request[r].of \in Issued
        BY <2>1 DEF RequestHolds, RedeemHolds
    <2> QED BY <1>5, <1>7, <2>1, <2>2, <2>3, <2>4, BystanderHolds
<1>9. RequestsHold' /\ \A p \in People : SigningIn(p)' \subseteq SigningIn(p)
    BY <1>1, <1>3, <1>8, EndEnds, RequestEnds
<1>10. LoginsHold'
    BY <1>1, <1>3, <1>9, LoginsStay DEF LoginsHold
<1>11. PeopleHold'
    <2>1. verified' \subseteq Existing' /\ excused' \subseteq {"thread", "team"}
        BY <1>1, <1>3, <1>5 DEF PeopleHold
    <2>2. assignee' \in Active' \cup {Nobody} \/ (assignee' \in People /\ "thread" \in excused')
        BY <1>1, <1>3, <1>5 DEF PeopleHold
    <2>3. Cardinality(Team') <= MaxStaff \/ "team" \in excused'
        <3>1. Cardinality(Team') = Cardinality(Team) + 1
            BY <1>5, TeamIsFinite, FS_AddElement
        <3>2. CASE request[q].met
            BY <1>3, <3>2
        <3>3. CASE ~request[q].met
            BY <1>4, <3>1, <3>3, TeamIsFinite, AccountsAssumption
        <3> QED BY <3>2, <3>3
    <2> QED BY <1>5, <2>1, <2>2, <2>3 DEF PeopleHold
<1> QED BY <1>7, <1>9, <1>10, <1>11 DEF AccountsInv

LEMMA IssueEnds ==
    ASSUME AccountsInv, NEW q \in Requests, FinishIssue(q)
    PROVE  AccountsInv'
<1>1. CodesHold /\ RequestsHold /\ PeopleHold /\ LoginsHold /\ RequestHolds(q)
    BY DEF AccountsInv, RequestsHold
<1>2. PICK p, u, met, gone : /\ p = request[q].who /\ u = request[q].matter /\ met = request[q].met
                             /\ gone = request[q].retires
    OBVIOUS
<1>3. /\ request[q].does = "issue" /\ p \in Existing /\ RoomForCode
      /\ codes' = WithCode(Retire(gone), p, u, met)
      /\ End(q) /\ UNCHANGED <<account, verified, assignee, failures, excused>>
    BY <1>2 DEF FinishIssue
<1>4. /\ p \in People /\ u \in Purposes /\ met \in BOOLEAN
      /\ \A c \in Live(p, u) \ gone : met /\ codes[c].met
    <2>1. request[q] \in RequestRows /\ MatterHolds(q) /\ IssueHolds(q)
        BY <1>1, <1>3 DEF RequestHolds
    <2> QED BY <1>2, <1>3, <2>1 DEF RequestRows, MatterHolds, IssueHolds, Existing
<1>5. Existing' = Existing /\ Team' = Team /\ Active' = Active
    BY <1>3 DEF Existing, Team, Active
<1>6. PICK others : others = Retire(gone)
    OBVIOUS
<1>7. /\ \A c \in Issued : others[c] = codes[c] \/ others[c] = [codes[c] EXCEPT !.live = FALSE]
      /\ \A c \in Issued : others[c].live /\ codes[c].who = p /\ codes[c].purpose = u
                               => met /\ codes[c].met
    <2> SUFFICES ASSUME NEW c \in Issued
        PROVE  /\ others[c] = codes[c] \/ others[c] = [codes[c] EXCEPT !.live = FALSE]
               /\ others[c].live /\ codes[c].who = p /\ codes[c].purpose = u => met /\ codes[c].met
        OBVIOUS
    <2>1. codes[c] \in CodeRows
        BY <1>1 DEF CodesHold, CodeHolds
    <2>2. CASE c \in gone
        BY <1>6, <2>1, <2>2 DEF Retire, CodeRows
    <2>3. CASE c \notin gone
        BY <1>4, <1>6, <2>3 DEF Retire, Live, CodesOf
    <2> QED BY <2>2, <2>3
<1>8. /\ CodesHold' /\ CodesGoOn
      /\ \A c \in Issued : StaysRead(c)
      /\ \A c \in Issued' \ Issued :
            codes'[c].who = p /\ codes'[c].purpose = u /\ codes'[c].met = met
    <2>1. PICK entry : entry = NewCode(p, u, met)
        OBVIOUS
    <2>2. entry.who = p /\ entry.purpose = u /\ entry.met = met
        BY <2>1 DEF NewCode
    <2>3. /\ codes' = [c \in Issued \cup {Cardinality(Issued) + 1} |-> IF c \in Issued THEN others[c] ELSE entry]
          /\ entry \in CodeRows /\ entry.used = 0 /\ entry.attempts = 0 /\ entry.wrong = 0
          /\ ~entry.outdated /\ ~entry.after
          /\ RoomForCode /\ Existing \subseteq Existing' /\ entry.who \in Existing'
        BY <1>3, <1>4, <1>5, <1>6, <2>1 DEF WithCode, NewCode, CodeRows
    <2>4. \A c \in Issued : others[c].live /\ codes[c].who = entry.who /\ codes[c].purpose = entry.purpose
                              => entry.met /\ codes[c].met
        BY <1>7, <2>2
    <2>5. Comes(others, entry)
        BY <1>7, <2>3, <2>4 DEF Comes
    <2>6. /\ CodesHold' /\ CodesGoOn
          /\ \A c \in Issued : StaysRead(c)
          /\ \A c \in Issued' \ Issued : codes'[c] = entry
        BY <1>1, <2>3, <2>5, CodeComes
    <2> QED BY <2>2, <2>6
<1>9. ASSUME NEW r \in Requests \ {q} PROVE RequestHolds(r)'
    <2>1. Goes(r) /\ RequestHolds(r) /\ Meets(q, r)
        BY <1>1, <1>3 DEF Goes, End, RequestsHold
    <2>2. request[r].who = p /\ request[r].matter = u => met /\ request'[r].met
        <3>1. request[r].who = p /\ request[r].matter = u => met /\ request[r].met
            BY <1>2, <1>4, <2>1 DEF Meets, SameMatter, Purposes
        <3> QED BY <2>1, <3>1, GoesKeepsFields DEF RequestHolds
    <2>3. request[r].does \in {"link", "otp"} => request[r].of \in Issued
        BY <2>1 DEF RequestHolds, RedeemHolds
    <2> QED BY <1>5, <1>8, <2>1, <2>2, <2>3, BystanderHolds
<1>10. RequestsHold' /\ \A x \in People : SigningIn(x)' \subseteq SigningIn(x)
    BY <1>1, <1>3, <1>9, EndEnds, RequestEnds
<1>11. LoginsHold'
    BY <1>1, <1>3, <1>10, LoginsStay DEF LoginsHold
<1>12. PeopleHold'
    BY <1>1, <1>3, <1>5 DEF PeopleHold
<1> QED BY <1>8, <1>10, <1>11, <1>12 DEF AccountsInv

LEMMA CodesChange ==
    ASSUME CodesHold, Issued' = Issued, CodesGoOn, \A c \in Issued : CodeHolds(c)'
    PROVE  CodesHold'
<1>1. ASSUME NEW c \in Issued, NEW d \in Issued \ {c} PROVE Alone(c, d)'
    <2>1. Alone(c, d)
        BY DEF CodesHold
    <2> QED BY <2>1 DEF Alone, CodesGoOn
<1> QED BY <1>1 DEF CodesHold

\* A redemption ends: only its own code has been used or tried, and those that
\* read one that it outdates have met it.
LEMMA RedeemEnds ==
    ASSUME AccountsInv, NEW q \in Requests, request[q].does \in {"link", "otp"}, Ends(q),
           UNCHANGED <<account, assignee, failures, excused>>,
           verified' = verified \/ verified' = verified \cup {request[q].who},
           Issued' = Issued, CodesGoOn, \A c \in Issued : CodeHolds(c)',
           \A r \in Requests \ {q} :
               request[r].does \in {"link", "otp"} /\ request[r].of # request[q].of
                   => request'[r].met \/ StaysRead(request[r].of)
    PROVE  AccountsInv'
<1>1. CodesHold /\ RequestsHold /\ PeopleHold /\ LoginsHold /\ RequestHolds(q) /\ RedeemHolds(q)
    BY DEF AccountsInv, RequestsHold, RequestHolds
<1>2. CodesHold'
    BY <1>1, CodesChange
<1>3. ASSUME NEW r \in Requests \ {q} PROVE RequestHolds(r)'
    <2>1. Goes(r) /\ RequestHolds(r) /\ Meets(q, r) /\ (request[r].met => request'[r].met)
        BY <1>1, GoesKeepsFields DEF Ends, RequestsHold, RequestHolds
    <2>2. request[r].does \in {"link", "otp"} => request'[r].met \/ StaysRead(request[r].of)
        <3> SUFFICES ASSUME request[r].does \in {"link", "otp"}, request[r].of = request[q].of
            PROVE  request'[r].met
            OBVIOUS
        <3>1. request[r].who = request[q].who /\ request[r].matter = request[q].matter
            BY <1>1, <2>1 DEF RequestHolds, RedeemHolds
        <3>2. request[q].matter # "none"
            BY <1>1 DEF RequestHolds, MatterHolds
        <3> QED BY <2>1, <3>1, <3>2 DEF Meets, SameMatter
    <2> QED BY <2>1, <2>2, BystanderHolds DEF Existing, Active, Team
<1>4. RequestsHold' /\ \A p \in People : SigningIn(p)' \subseteq SigningIn(p)
    BY <1>1, <1>3, RequestEnds
<1>5. LoginsHold'
    BY <1>1, <1>4, LoginsStay DEF LoginsHold
<1>6. PeopleHold'
    <2>1. request[q].who \in Existing
        BY <1>1 DEF RequestHolds
    <2> QED BY <1>1, <2>1 DEF PeopleHold, Existing, Active, Team
<1> QED BY <1>2, <1>4, <1>5, <1>6 DEF AccountsInv

\* A redemption that met another passes that on to its code.
LEMMA TriedIsMet ==
    ASSUME NEW q \in Requests, NEW others, NEW c \in Issued, c = request[q].of,
           DOMAIN others = Issued, NEW d \in Issued, others[d] \in CodeRows, request[q] \in RequestRows
    PROVE  /\ Tried(others, q)[d] \in CodeRows /\ DOMAIN Tried(others, q) = Issued
           /\ Tried(others, q)[d] = [others[d] EXCEPT !.met = Tried(others, q)[d].met]
           /\ others[d].met => Tried(others, q)[d].met
           /\ d = c /\ request[q].met => Tried(others, q)[d].met
<1>1. Tried(others, q) = [others EXCEPT ![c] = [others[c] EXCEPT !.met = others[c].met \/ request[q].met]]
    BY DEF Tried
<1>2. CASE d # c
    BY <1>1, <1>2 DEF CodeRows
<1>3. CASE d = c
    <2>1. PICK m \in BOOLEAN : m = (others[c].met \/ request[q].met)
        OBVIOUS
    <2>2. Tried(others, q)[d] = [others[d] EXCEPT !.met = m]
        BY <1>1, <1>3, <2>1
    <2>3. Tried(others, q)[d] \in CodeRows /\ Tried(others, q)[d].met = m
        BY <2>2 DEF CodeRows
    <2> QED BY <1>1, <1>3, <2>1, <2>2, <2>3
<1> QED BY <1>2, <1>3

LEMMA OtpEnds ==
    ASSUME AccountsInv, NEW q \in Requests, FinishOtp(q)
    PROVE  AccountsInv'
<1>1. CodesHold /\ RequestsHold /\ PeopleHold /\ RequestHolds(q) /\ request[q] \in RequestRows
    BY DEF AccountsInv, RequestsHold, RequestHolds
<1>2. PICK c, tried : c = request[q].of /\ tried = Tried(codes, q)
    OBVIOUS
<1>3. /\ request[q].does = "otp" /\ End(q) /\ UNCHANGED <<account, assignee, failures, excused>>
      /\ verified' = verified \/ verified' = verified \cup {request[q].who}
      /\ \/ request[q].saw >= OtpMaxAttempts /\ codes' = [tried EXCEPT ![c].live = FALSE]
         \/ /\ request[q].saw < OtpMaxAttempts
            /\ codes' = [tried EXCEPT ![c].attempts = Attempt(q), ![c].wrong = @ + 1]
         \/ /\ request[q].saw < OtpMaxAttempts
            /\ codes' = Use([tried EXCEPT ![c].attempts = Attempt(q)], c)
    BY <1>2 DEF FinishOtp
<1>4. /\ c \in Issued /\ request[q].saw \in Nat
      /\ request[q].met \/ (codes[c].used = 0 /\ request[q].saw = codes[c].attempts)
      /\ codes[c].outdated => request[q].met \/ codes[c].purpose = "email_verify"
    BY <1>1, <1>2, <1>3 DEF RequestHolds, RedeemHolds, RequestRows
<1>5. \A d \in Issued : codes[d] \in CodeRows /\ CodeHolds(d)
    BY <1>1 DEF CodesHold, CodeHolds
<1>6. DOMAIN codes = Issued
    BY DEF Issued
<1>7. \A d \in Issued : /\ tried[d] \in CodeRows /\ DOMAIN tried = Issued
                        /\ tried[d] = [codes[d] EXCEPT !.met = tried[d].met]
                        /\ codes[d].met => tried[d].met
                        /\ d = c /\ request[q].met => tried[d].met
    BY <1>1, <1>2, <1>4, <1>5, <1>6, TriedIsMet
<1>8. /\ tried[c].used = codes[c].used /\ tried[c].wrong = codes[c].wrong
      /\ tried[c].attempts = codes[c].attempts /\ tried[c].live = codes[c].live
      /\ tried[c].outdated = codes[c].outdated /\ tried[c].who = codes[c].who
      /\ tried[c].purpose = codes[c].purpose /\ tried[c].after = codes[c].after
    <2>1. PICK code, met : code = codes[c] /\ met = tried[c].met
        OBVIOUS
    <2>2. code \in CodeRows /\ tried[c] = [code EXCEPT !.met = met]
        BY <1>4, <1>5, <1>7, <2>1
    <2>3. /\ tried[c].used = code.used /\ tried[c].wrong = code.wrong
          /\ tried[c].attempts = code.attempts /\ tried[c].live = code.live
          /\ tried[c].outdated = code.outdated /\ tried[c].who = code.who
          /\ tried[c].purpose = code.purpose /\ tried[c].after = code.after
        BY <2>2 DEF CodeRows
    <2> QED BY <2>1, <2>3
<1>9. PICK n, after : n = request[q].saw + 1 /\ after = (tried[c].after \/ codes[c].outdated)
    OBVIOUS
<1> after \in BOOLEAN
    BY <1>9
<1>10. /\ Issued' = Issued
       /\ \A d \in Issued \ {c} : codes'[d] = tried[d]
       /\ \/ request[q].saw >= OtpMaxAttempts /\ codes'[c] = [tried[c] EXCEPT !.live = FALSE]
          \/ /\ request[q].saw < OtpMaxAttempts
             /\ codes'[c] = [tried[c] EXCEPT !.attempts = n, !.wrong = tried[c].wrong + 1]
          \/ /\ request[q].saw < OtpMaxAttempts
             /\ codes'[c] = [tried[c] EXCEPT !.attempts = n, !.live = FALSE,
                                         !.used = tried[c].used + 1, !.after = after]
    <2>1. DOMAIN tried = Issued /\ Attempt(q) = n
        BY <1>4, <1>7, <1>9 DEF Attempt
    <2>2. CASE request[q].saw >= OtpMaxAttempts /\ codes' = [tried EXCEPT ![c].live = FALSE]
        BY <1>4, <2>1, <2>2 DEF Issued
    <2>3. CASE /\ request[q].saw < OtpMaxAttempts
               /\ codes' = [tried EXCEPT ![c].attempts = Attempt(q), ![c].wrong = @ + 1]
        <3>1. Issued' = Issued /\ \A d \in Issued \ {c} : codes'[d] = tried[d]
            BY <1>4, <2>1, <2>3 DEF Issued
        <3>2. codes'[c] = [tried[c] EXCEPT !.attempts = n, !.wrong = tried[c].wrong + 1]
            BY <1>4, <2>1, <2>3
        <3> QED BY <2>3, <3>1, <3>2
    <2>4. CASE /\ request[q].saw < OtpMaxAttempts
               /\ codes' = Use([tried EXCEPT ![c].attempts = Attempt(q)], c)
        <3>1. Issued' = Issued /\ \A d \in Issued \ {c} : codes'[d] = tried[d]
            BY <1>4, <2>1, <2>4 DEF Issued, Use
        <3>2. codes'[c] = [tried[c] EXCEPT !.attempts = n, !.live = FALSE, !.used = tried[c].used + 1,
                                          !.after = after]
            <4>1. tried[c] \in CodeRows
                BY <1>4, <1>7
            <4>2. codes'[c] = [[tried[c] EXCEPT !.attempts = n] EXCEPT !.live = FALSE, !.used = @ + 1,
                                              !.after = @ \/ codes[c].outdated]
                BY <1>4, <2>1, <2>4 DEF Use
            <4> QED BY <1>9, <4>1, <4>2 DEF CodeRows
        <3> QED BY <2>4, <3>1, <3>2
    <2> QED BY <1>3, <2>2, <2>3, <2>4
<1>11. ASSUME NEW d \in Issued \ {c}
       PROVE  /\ CodeHolds(d)' /\ codes'[d].who = codes[d].who /\ codes'[d].purpose = codes[d].purpose
              /\ codes'[d].live = codes[d].live /\ (codes[d].met => codes'[d].met)
              /\ StaysRead(d)
    <2>1. codes'[d] \in CodeRows /\ codes'[d] = [codes[d] EXCEPT !.met = codes'[d].met]
          /\ (codes[d].met => codes'[d].met)
        BY <1>7, <1>10
    <2>2. /\ codes'[d].who = codes[d].who /\ codes'[d].purpose = codes[d].purpose
          /\ codes'[d].live = codes[d].live /\ codes'[d].outdated = codes[d].outdated
          /\ codes'[d].used = codes[d].used /\ codes'[d].attempts = codes[d].attempts
          /\ codes'[d].wrong = codes[d].wrong /\ codes'[d].after = codes[d].after
        BY <1>5, <2>1 DEF CodeRows
    <2> QED BY <1>3, <1>5, <2>1, <2>2 DEF CodeHolds, Existing, StaysRead
<1>12. /\ CodeHolds(c)' /\ codes'[c].who = codes[c].who /\ codes'[c].purpose = codes[c].purpose
       /\ (codes'[c].live => codes[c].live) /\ (codes[c].met => codes'[c].met)
    <2>1. /\ CodeHolds(c) /\ tried[c] \in CodeRows /\ (codes[c].met => tried[c].met)
          /\ request[q].met => tried[c].met
        BY <1>4, <1>5, <1>7
    <2>2. CASE codes'[c] = [tried[c] EXCEPT !.live = FALSE]
        <3>1. /\ codes'[c] \in CodeRows /\ codes'[c].who = tried[c].who
              /\ codes'[c].purpose = tried[c].purpose /\ codes'[c].live = FALSE
              /\ codes'[c].met = tried[c].met /\ codes'[c].used = tried[c].used
              /\ codes'[c].wrong = tried[c].wrong /\ codes'[c].attempts = tried[c].attempts
              /\ codes'[c].after = tried[c].after
            BY <2>1, <2>2 DEF CodeRows
        <3> QED BY <1>3, <1>8, <2>1, <3>1 DEF CodeHolds, Existing
    <2>3. CASE /\ request[q].saw < OtpMaxAttempts
               /\ codes'[c] = [tried[c] EXCEPT !.attempts = n, !.wrong = tried[c].wrong + 1]
        <3>1. /\ codes'[c] \in CodeRows /\ codes'[c].who = tried[c].who
              /\ codes'[c].purpose = tried[c].purpose /\ codes'[c].live = tried[c].live
              /\ codes'[c].met = tried[c].met /\ codes'[c].used = tried[c].used
              /\ codes'[c].outdated = tried[c].outdated /\ codes'[c].after = tried[c].after
              /\ codes'[c].wrong = tried[c].wrong + 1 /\ codes'[c].attempts = n
            <4>1. /\ n \in Nat /\ tried[c].wrong \in Nat /\ tried[c].wrong + 1 \in Nat
                  /\ tried[c].used \in Nat /\ tried[c].used + 1 \in Nat
                BY <1>4, <1>9, <2>1 DEF CodeRows
            <4> QED BY <2>1, <2>3, <4>1 DEF CodeRows
        <3>2. codes[c].wrong \in Nat /\ codes[c].attempts \in Nat /\ codes[c].used \in Nat
            BY <1>4, <1>5 DEF CodeRows
        <3>3. tried[c].met \/ (codes[c].used <= 1 /\ codes[c].wrong + 1 <= n /\ n <= OtpMaxAttempts)
            BY <1>4, <1>9, <2>1, <2>3, <3>2, AccountsAssumption DEF CodeHolds
        <3> QED BY <1>3, <1>8, <2>1, <3>1, <3>3 DEF CodeHolds, Existing
    <2>4. CASE /\ request[q].saw < OtpMaxAttempts
               /\ codes'[c] = [tried[c] EXCEPT !.attempts = n, !.live = FALSE,
                                           !.used = tried[c].used + 1, !.after = after]
        <3>1. /\ codes'[c] \in CodeRows /\ codes'[c].who = tried[c].who
              /\ codes'[c].purpose = tried[c].purpose /\ codes'[c].live = FALSE
              /\ codes'[c].met = tried[c].met /\ codes'[c].used = tried[c].used + 1
              /\ codes'[c].wrong = tried[c].wrong /\ codes'[c].attempts = n /\ codes'[c].after = after
            <4>1. /\ n \in Nat /\ tried[c].wrong \in Nat /\ tried[c].wrong + 1 \in Nat
                  /\ tried[c].used \in Nat /\ tried[c].used + 1 \in Nat
                BY <1>4, <1>9, <2>1 DEF CodeRows
            <4> QED BY <2>1, <2>4, <4>1 DEF CodeRows
        <3>2. codes[c].wrong \in Nat /\ codes[c].attempts \in Nat /\ codes[c].used \in Nat
            BY <1>4, <1>5 DEF CodeRows
        <3>3. tried[c].met \/ (codes[c].used + 1 <= 1 /\ codes[c].wrong <= n /\ n <= OtpMaxAttempts)
            BY <1>4, <1>9, <2>1, <2>4, <3>2, AccountsAssumption DEF CodeHolds
        <3>4. after => tried[c].met \/ codes[c].purpose = "email_verify"
            BY <1>4, <1>8, <1>9, <2>1 DEF CodeHolds
        <3> QED BY <1>3, <1>8, <2>1, <3>1, <3>3, <3>4 DEF CodeHolds, Existing
    <2> QED BY <1>10, <2>2, <2>3, <2>4
<1>13. CodesGoOn /\ \A d \in Issued : CodeHolds(d)'
    BY <1>10, <1>11, <1>12 DEF CodesGoOn
<1>14. Ends(q)
    BY <1>1, <1>3, EndEnds
<1>15. \A r \in Requests \ {q} :
           request[r].does \in {"link", "otp"} /\ request[r].of # c => StaysRead(request[r].of)
    BY <1>1, <1>11 DEF RequestsHold, RequestHolds, RedeemHolds
<1> QED BY <1>2, <1>3, <1>10, <1>13, <1>14, <1>15, RedeemEnds

LEMMA UseFields ==
    ASSUME NEW others, NEW c \in Issued, NEW d \in Issued, DOMAIN others = Issued, others[d] \in CodeRows,
           codes[c] \in CodeRows
    PROVE  /\ DOMAIN Use(others, c) = Issued /\ Use(others, c)[d] \in CodeRows
           /\ Use(others, c)[d].who = others[d].who /\ Use(others, c)[d].purpose = others[d].purpose
           /\ Use(others, c)[d].met = others[d].met /\ Use(others, c)[d].outdated = others[d].outdated
           /\ Use(others, c)[d].wrong = others[d].wrong /\ Use(others, c)[d].attempts = others[d].attempts
           /\ Use(others, c)[d].live => others[d].live /\ d # c
           /\ Use(others, c)[d].used = IF d = c THEN others[d].used + 1 ELSE others[d].used
           /\ Use(others, c)[d].after => others[d].after \/ (d = c /\ codes[c].outdated)
<1>1. DOMAIN Use(others, c) = Issued
    BY DEF Use
<1>2. CASE d # c
    <2>1. Use(others, c)[d] = others[d]
        BY <1>2 DEF Use
    <2> QED BY <1>1, <1>2, <2>1 DEF CodeRows
<1>3. CASE d = c
    <2> PICK after \in BOOLEAN : after = (others[d].after \/ codes[c].outdated)
        OBVIOUS
    <2>1. Use(others, c)[d] = [others[d] EXCEPT !.live = FALSE, !.used = others[d].used + 1, !.after = after]
        BY <1>3 DEF Use
    <2>2. others[d].used + 1 \in Nat
        BY DEF CodeRows
    <2> QED BY <1>1, <1>3, <2>1, <2>2 DEF CodeRows
<1> QED BY <1>2, <1>3

LEMMA LinkEnds ==
    ASSUME AccountsInv, NEW q \in Requests, FinishLink(q)
    PROVE  AccountsInv'
<1>1. CodesHold /\ RequestsHold /\ PeopleHold /\ RequestHolds(q) /\ request[q] \in RequestRows
    BY DEF AccountsInv, RequestsHold, RequestHolds
<1>2. PICK c, p, retired : c = request[q].of /\ p = request[q].who /\ retired = Retire(Outstanding(p))
    OBVIOUS
<1>3. /\ request[q].does = "link" /\ UNCHANGED <<account, assignee, failures, excused>>
      /\ verified' = verified \cup {request[q].who}
      /\ \/ codes[c].purpose = "email_verify" /\ codes' = Use(Tried(codes, q), c) /\ End(q)
         \/ /\ codes[c].purpose = "password_reset" /\ codes' = Use(Outdate(Tried(retired, q), p), c)
            /\ EndReset(q)
    BY <1>2 DEF FinishLink
<1>4. /\ c \in Issued /\ (request[q].met \/ codes[c].used = 0)
      /\ codes[c].who = p /\ codes[c].purpose = request[q].matter
      /\ codes[c].outdated => request[q].met \/ codes[c].purpose = "email_verify"
    BY <1>1, <1>2, <1>3 DEF RequestHolds, RedeemHolds
<1>5. \A d \in Issued : codes[d] \in CodeRows /\ CodeHolds(d)
    BY <1>1 DEF CodesHold, CodeHolds
<1>6. PICK before : codes' = Use(before, c) /\ DOMAIN before = Issued
                    /\ \A d \in Issued : /\ before[d] \in CodeRows
                                         /\ before[d].who = codes[d].who /\ before[d].purpose = codes[d].purpose
                                         /\ before[d].used = codes[d].used /\ before[d].wrong = codes[d].wrong
                                         /\ before[d].attempts = codes[d].attempts
                                         /\ before[d].live => codes[d].live
                                         /\ codes[d].met => before[d].met
                                         /\ before[d].after = codes[d].after
                                         /\ before[d].outdated => codes[d].outdated \/
                                                (codes[c].purpose = "password_reset" /\ codes[d].who = p)
                                         /\ d = c /\ request[q].met => before[d].met
                                         /\ before[d].live /\ before[d].outdated =>
                                                codes[d].purpose = "email_verify"
    <2>1. CASE codes[c].purpose = "email_verify"
        <3>1. PICK before : before = Tried(codes, q)
            OBVIOUS
        <3>2. DOMAIN codes = Issued
            BY DEF Issued
        <3>3. DOMAIN before = Issued
            BY <1>1, <1>2, <1>4, <1>5, <3>1, <3>2, TriedIsMet
        <3>4. ASSUME NEW d \in Issued
              PROVE  /\ before[d] \in CodeRows /\ before[d] = [codes[d] EXCEPT !.met = before[d].met]
                     /\ codes[d].met => before[d].met
                     /\ d = c /\ request[q].met => before[d].met
            BY <1>1, <1>2, <1>4, <1>5, <3>1, <3>2, TriedIsMet
        <3>5. ASSUME NEW d \in Issued
              PROVE  /\ before[d].who = codes[d].who /\ before[d].purpose = codes[d].purpose
                     /\ before[d].used = codes[d].used /\ before[d].wrong = codes[d].wrong
                     /\ before[d].attempts = codes[d].attempts
                     /\ before[d].live = codes[d].live /\ before[d].outdated = codes[d].outdated
                     /\ before[d].after = codes[d].after
            <4>1. PICK code, met : code = codes[d] /\ met = before[d].met
                OBVIOUS
            <4>2. code \in CodeRows /\ before[d] = [code EXCEPT !.met = met]
                BY <1>5, <3>4, <4>1
            <4>3. /\ before[d].who = code.who /\ before[d].purpose = code.purpose
                  /\ before[d].used = code.used /\ before[d].wrong = code.wrong
                  /\ before[d].attempts = code.attempts
                  /\ before[d].live = code.live /\ before[d].outdated = code.outdated
                  /\ before[d].after = code.after
                BY <4>2 DEF CodeRows
            <4> QED BY <4>1, <4>3
        <3>6. codes' = Use(before, c)
            BY <1>3, <2>1, <3>1
        <3>7. ASSUME NEW d \in Issued, before[d].live, before[d].outdated
              PROVE  codes[d].purpose = "email_verify"
            BY <1>5, <3>5, <3>7 DEF CodeHolds
        <3> QED BY <3>3, <3>4, <3>5, <3>6, <3>7
    <2>2. CASE codes[c].purpose = "password_reset"
        <3>1. PICK tried, before : tried = Tried(retired, q) /\ before = Outdate(tried, p)
            OBVIOUS
        <3>2. DOMAIN retired = Issued /\ DOMAIN before = Issued /\ codes' = Use(before, c)
            BY <1>2, <1>3, <2>2, <3>1 DEF Retire, Outdate
        <3>3. ASSUME NEW d \in Issued
              PROVE  /\ retired[d] \in CodeRows
                     /\ retired[d].who = codes[d].who /\ retired[d].purpose = codes[d].purpose
                     /\ retired[d].used = codes[d].used /\ retired[d].wrong = codes[d].wrong
                     /\ retired[d].attempts = codes[d].attempts /\ retired[d].met = codes[d].met
                     /\ retired[d].live => codes[d].live /\ d \notin Outstanding(p)
                     /\ retired[d].outdated = codes[d].outdated /\ retired[d].after = codes[d].after
            <4>1. codes[d] \in CodeRows /\ retired[d] =
                      IF d \in Outstanding(p) THEN [codes[d] EXCEPT !.live = FALSE] ELSE codes[d]
                BY <1>2, <1>5 DEF Retire
            <4>2. CASE d \in Outstanding(p)
                <5>1. retired[d] = [codes[d] EXCEPT !.live = FALSE]
                    BY <4>1, <4>2
                <5> QED BY <4>1, <5>1 DEF CodeRows
            <4>3. CASE d \notin Outstanding(p)
                BY <4>1, <4>3
            <4> QED BY <4>2, <4>3
        <3>4. ASSUME NEW d \in Issued
              PROVE  /\ tried[d] \in CodeRows /\ tried[d] = [retired[d] EXCEPT !.met = tried[d].met]
                     /\ retired[d].met => tried[d].met
                     /\ d = c /\ request[q].met => tried[d].met
            BY <1>1, <1>2, <1>4, <3>1, <3>2, <3>3, TriedIsMet
        <3>5. ASSUME NEW d \in Issued
              PROVE  /\ tried[d].who = codes[d].who /\ tried[d].purpose = codes[d].purpose
                     /\ tried[d].used = codes[d].used /\ tried[d].wrong = codes[d].wrong
                     /\ tried[d].attempts = codes[d].attempts
                     /\ tried[d].live => codes[d].live /\ d \notin Outstanding(p)
                     /\ tried[d].outdated = codes[d].outdated /\ tried[d].after = codes[d].after
                     /\ codes[d].met => tried[d].met
            <4>1. /\ tried[d].who = retired[d].who /\ tried[d].purpose = retired[d].purpose
                  /\ tried[d].used = retired[d].used /\ tried[d].wrong = retired[d].wrong
                  /\ tried[d].attempts = retired[d].attempts /\ tried[d].live = retired[d].live
                  /\ tried[d].outdated = retired[d].outdated /\ tried[d].after = retired[d].after
                BY <3>3, <3>4, OnlyMetChanges
            <4> QED BY <3>3, <3>4, <4>1
        <3>6. ASSUME NEW d \in Issued
              PROVE  /\ before[d] \in CodeRows
                     /\ before[d].who = tried[d].who /\ before[d].purpose = tried[d].purpose
                     /\ before[d].used = tried[d].used /\ before[d].wrong = tried[d].wrong
                     /\ before[d].attempts = tried[d].attempts /\ before[d].met = tried[d].met
                     /\ before[d].live = tried[d].live /\ before[d].after = tried[d].after
                     /\ codes[d].who # p => before[d].outdated = tried[d].outdated
            <4>1. tried[d] \in CodeRows /\ before[d] =
                      IF codes[d].who = p THEN [tried[d] EXCEPT !.outdated = TRUE] ELSE tried[d]
                BY <3>1, <3>4 DEF Outdate
            <4>2. CASE codes[d].who = p
                <5>1. before[d] = [tried[d] EXCEPT !.outdated = TRUE]
                    BY <4>1, <4>2
                <5> QED BY <4>1, <4>2, <5>1 DEF CodeRows
            <4>3. CASE codes[d].who # p
                BY <4>1, <4>3
            <4> QED BY <4>2, <4>3
        <3>7. ASSUME NEW d \in Issued, before[d].live, before[d].outdated
              PROVE  codes[d].purpose = "email_verify"
            <4>1. codes[d].live /\ d \notin Outstanding(p)
                BY <3>5, <3>6, <3>7
            <4>2. codes[d].purpose \in Purposes
                BY <1>5 DEF CodeRows
            <4>3. CASE codes[d].who = p
                BY <4>1, <4>2, <4>3 DEF Outstanding, Live, CodesOf, Purposes
            <4>4. CASE codes[d].who # p
                BY <1>5, <3>5, <3>6, <3>7, <4>1, <4>4 DEF CodeHolds
            <4> QED BY <4>3, <4>4
        <3>8. ASSUME NEW d \in Issued
              PROVE  /\ before[d] \in CodeRows
                     /\ before[d].who = codes[d].who /\ before[d].purpose = codes[d].purpose
                     /\ before[d].used = codes[d].used /\ before[d].wrong = codes[d].wrong
                     /\ before[d].attempts = codes[d].attempts
                     /\ before[d].live => codes[d].live
                     /\ codes[d].met => before[d].met
                     /\ before[d].after = codes[d].after
                     /\ before[d].outdated => codes[d].outdated \/
                            (codes[c].purpose = "password_reset" /\ codes[d].who = p)
                     /\ d = c /\ request[q].met => before[d].met
            BY <2>2, <3>4, <3>5, <3>6
        <3> QED BY <3>2, <3>7, <3>8
    <2> QED BY <1>3, <2>1, <2>2
<1>7. Issued' = Issued
    BY <1>4, <1>5, <1>6, UseFields DEF Issued
<1>8. ASSUME NEW d \in Issued
      PROVE  /\ codes'[d] \in CodeRows
             /\ codes'[d].who = codes[d].who /\ codes'[d].purpose = codes[d].purpose
             /\ codes'[d].wrong = codes[d].wrong /\ codes'[d].attempts = codes[d].attempts
             /\ codes'[d].live => codes[d].live /\ d # c
             /\ codes[d].met => codes'[d].met
             /\ d = c /\ request[q].met => codes'[d].met
             /\ codes'[d].live /\ codes'[d].outdated => codes[d].purpose = "email_verify"
             /\ codes'[d].used = IF d = c THEN codes[d].used + 1 ELSE codes[d].used
             /\ codes'[d].after => codes[d].after \/ (d = c /\ codes[c].outdated)
             /\ codes'[d].outdated => codes[d].outdated \/
                    (codes[c].purpose = "password_reset" /\ codes[d].who = p)
    BY <1>4, <1>5, <1>6, UseFields
<1>9. ASSUME NEW d \in Issued PROVE CodeHolds(d)'
    <2>1. CodeHolds(d) /\ codes[d].used \in Nat
        BY <1>5 DEF CodeRows
    <2>2. codes'[d].live => codes'[d].used = 0
        BY <1>8, <2>1 DEF CodeHolds
    <2>3. codes'[d].met \/ codes'[d].used <= 1
        BY <1>4, <1>8, <2>1 DEF CodeHolds
    <2>4. codes'[d].after => codes'[d].met \/ codes'[d].purpose = "email_verify"
        BY <1>4, <1>8, <2>1 DEF CodeHolds
    <2> QED BY <1>3, <1>8, <2>1, <2>2, <2>3, <2>4 DEF CodeHolds, Existing
<1>10. CodesGoOn
    BY <1>7, <1>8 DEF CodesGoOn
<1>11. /\ Ends(q)
       /\ codes[c].purpose = "password_reset" =>
              \A r \in Requests \ {q} : SameMatter(p, "login_otp", r) => request'[r].met
    BY <1>1, <1>2, <1>3, EndEnds, ResetEnds
<1>12. ASSUME NEW r \in Requests \ {q}, request[r].does \in {"link", "otp"}, request[r].of # c
       PROVE  request'[r].met \/ StaysRead(request[r].of)
    <2>1. PICK d : d = request[r].of
        OBVIOUS
    <2>2. /\ RequestHolds(r) /\ Goes(r) /\ Meets(q, r)
          /\ d \in Issued \ {c} /\ codes[d].who = request[r].who /\ codes[d].purpose = request[r].matter
        BY <1>1, <1>11, <1>12, <2>1 DEF RequestsHold, RequestHolds, RedeemHolds, Ends
    <2>3. request[r].met => request'[r].met
        BY <2>2, GoesKeepsFields DEF RequestHolds
    <2>4. codes[d].purpose \in Purposes
        BY <1>5, <2>2 DEF CodeRows
    <2>5. CASE codes[c].purpose = "password_reset" /\ codes[d].who = p /\ codes[d].purpose # "email_verify"
        <3>1. CASE codes[d].purpose = "login_otp"
            BY <1>11, <2>2, <2>5, <3>1 DEF SameMatter
        <3>2. CASE codes[d].purpose = "password_reset"
            BY <1>2, <1>4, <2>2, <2>3, <2>5, <3>2 DEF Meets, SameMatter
        <3> QED BY <2>4, <2>5, <3>1, <3>2 DEF Purposes
    <2>6. CASE ~(codes[c].purpose = "password_reset" /\ codes[d].who = p) \/ codes[d].purpose = "email_verify"
        BY <1>8, <2>1, <2>2, <2>6 DEF StaysRead
    <2> QED BY <2>5, <2>6
<1> QED BY <1>2, <1>3, <1>7, <1>9, <1>10, <1>11, <1>12, RedeemEnds

-----------------------------------------------------------------------------
\* The steps that are no request's.
LEMMA CodesAge ==
    ASSUME AccountsInv, NEW c \in Issued, CodeAges(c)
    PROVE  AccountsInv'
<1>1. CodesHold /\ RequestsHold /\ PeopleHold /\ LoginsHold
    BY DEF AccountsInv
<1>2. /\ codes' = [codes EXCEPT ![c].recent = FALSE, ![c].live = @ /\ codes[c].recent]
      /\ UNCHANGED <<account, verified, request, assignee, failures, excused>>
    BY DEF CodeAges
<1>3. \A d \in Issued : codes[d] \in CodeRows /\ CodeHolds(d)
    BY <1>1 DEF CodesHold, CodeHolds
<1>4. PICK live \in BOOLEAN : live = (codes[c].live /\ codes[c].recent)
    OBVIOUS
<1>5. codes' = [codes EXCEPT ![c] = [codes[c] EXCEPT !.recent = FALSE, !.live = live]]
    BY <1>2, <1>3, <1>4 DEF CodeRows
<1>6. Issued' = Issued /\ codes'[c] = [codes[c] EXCEPT !.recent = FALSE, !.live = live]
      /\ \A d \in Issued \ {c} : codes'[d] = codes[d]
    BY <1>5 DEF Issued
<1>7. /\ codes'[c] \in CodeRows /\ codes'[c].live = live
      /\ codes'[c].who = codes[c].who /\ codes'[c].purpose = codes[c].purpose
      /\ codes'[c].met = codes[c].met /\ codes'[c].outdated = codes[c].outdated
      /\ codes'[c].after = codes[c].after /\ codes'[c].wrong = codes[c].wrong
      /\ codes'[c].attempts = codes[c].attempts
      /\ codes'[c].used = codes[c].used
    BY <1>3, <1>6 DEF CodeRows
<1>8. CodesGoOn /\ \A d \in Issued : StaysRead(d)
    BY <1>4, <1>6, <1>7 DEF CodesGoOn, StaysRead
<1>9. Existing' = Existing /\ Team' = Team /\ Active' = Active
    BY <1>2 DEF Existing, Team, Active
<1>10. ASSUME NEW d \in Issued PROVE CodeHolds(d)'
    <2>1. CASE d = c
        BY <1>3, <1>4, <1>7, <1>9, <2>1 DEF CodeHolds
    <2>2. CASE d # c
        BY <1>3, <1>6, <1>9, <2>2 DEF CodeHolds
    <2> QED BY <2>1, <2>2
<1>11. CodesHold'
    BY <1>1, <1>6, <1>8, <1>10, CodesChange
<1>12. RequestsHold'
    <2>1. ASSUME NEW r \in Requests PROVE RequestHolds(r)'
        <3>1. Goes(r) /\ RequestHolds(r)
            BY <1>1, <1>2 DEF Goes, RequestsHold
        <3>2. request[r].does \in {"link", "otp"} => request[r].of \in Issued
            BY <3>1 DEF RequestHolds, RedeemHolds
        <3> QED BY <1>6, <1>8, <1>9, <3>1, <3>2, BystanderHolds
    <2> QED BY <1>1, <1>2, <2>1 DEF RequestsHold, Meets, SameMatter
<1>13. PeopleHold' /\ LoginsHold'
    BY <1>1, <1>2, <1>9 DEF PeopleHold, LoginsHold, SigningIn
<1> QED BY <1>11, <1>12, <1>13 DEF AccountsInv

LEMMA OwnerComes ==
    ASSUME AccountsInv, Register
    PROVE  AccountsInv'
<1>1. CodesHold /\ RequestsHold /\ PeopleHold /\ LoginsHold
    BY DEF AccountsInv
<1>2. /\ account[Owner] = "none" /\ RoomForCode
      /\ account' = [account EXCEPT ![Owner] = "active"]
      /\ codes' = WithCode(codes, Owner, "email_verify", FALSE)
      /\ UNCHANGED <<verified, request, assignee, failures, excused>>
    BY DEF Register
<1>3. /\ account' \in [People -> {"none", "active", "inactive"}]
      /\ Existing' = Existing \cup {Owner} /\ Owner \notin Existing /\ Team' = Team
      /\ Active \subseteq Active' /\ Owner \in People
    BY <1>1, <1>2, AccountsAssumption DEF PeopleHold, Existing, Active, Team, People
<1>4. \A c \in Issued : codes[c].who # Owner
    BY <1>1, <1>3 DEF CodesHold, CodeHolds
<1>5. PICK entry : entry = NewCode(Owner, "email_verify", FALSE)
    OBVIOUS
<1>6. /\ codes' = [c \in Issued \cup {Cardinality(Issued) + 1} |-> IF c \in Issued THEN codes[c] ELSE entry]
      /\ entry \in CodeRows /\ entry.who = Owner
      /\ entry.used = 0 /\ entry.attempts = 0 /\ entry.wrong = 0
      /\ ~entry.outdated /\ ~entry.after
      /\ RoomForCode /\ Existing \subseteq Existing' /\ Owner \in Existing'
    BY <1>2, <1>3, <1>5 DEF WithCode, NewCode, CodeRows, Purposes
<1>7. Comes(codes, entry)
    BY <1>4, <1>6 DEF Comes
<1>8. CodesHold' /\ CodesGoOn
    BY <1>1, <1>6, <1>7, CodeComes
<1>9. \A c \in Issued' \ Issued : codes'[c].who = Owner
    BY <1>1, <1>6, <1>7, CodeComes
<1>10. \A c \in Issued : StaysRead(c)
    BY <1>1, <1>6, <1>7, CodeComes
<1>11. RequestsHold'
    <2>1. ASSUME NEW r \in Requests PROVE RequestHolds(r)'
        <3>1. Goes(r) /\ RequestHolds(r)
            BY <1>1, <1>2 DEF Goes, RequestsHold
        <3>2. request[r].does \in {"link", "otp"} => request[r].of \in Issued
            BY <3>1 DEF RequestHolds, RedeemHolds
        <3>3. request[r].does = "issue" => request[r].who # Owner
            BY <1>3, <3>1 DEF RequestHolds
        <3> QED BY <1>3, <1>8, <1>9, <1>10, <3>1, <3>2, <3>3, BystanderHolds
    <2> QED BY <1>1, <1>2, <2>1 DEF RequestsHold, Meets, SameMatter
<1>12. PeopleHold' /\ LoginsHold'
    BY <1>1, <1>2, <1>3 DEF PeopleHold, LoginsHold, SigningIn
<1> QED BY <1>8, <1>11, <1>12 DEF AccountsInv

LEMMA MembersMove ==
    ASSUME AccountsInv, NEW m \in Staff, Deactivate(m) \/ Activate(m)
    PROVE  AccountsInv'
<1>1. CodesHold /\ RequestsHold /\ PeopleHold /\ LoginsHold
    BY DEF AccountsInv
<1>2. /\ UNCHANGED <<verified, codes, failures, excused>> /\ account[m] \in {"active", "inactive"}
      /\ account' = [account EXCEPT ![m] = "active"] \/ account' = [account EXCEPT ![m] = "inactive"]
    BY DEF Deactivate, Activate, Active
<1>3. m \in People /\ m # Nobody
    BY AccountsAssumption DEF People
<1>4. /\ account' \in [People -> {"none", "active", "inactive"}]
      /\ Existing' = Existing /\ Team' = Team
    BY <1>1, <1>2, <1>3 DEF PeopleHold, Existing, Team
<1>5. CodesHold' /\ CodesGoOn
    BY <1>1, <1>2, <1>4, CodesStay
<1>6. ASSUME NEW r \in Requests PROVE RequestHolds(r) /\ Goes(r)
    <2>1. RequestHolds(r)
        BY <1>1 DEF RequestsHold
    <2>2. SameMatter(m, "thread", r) => request[r].does # "nothing"
        BY <2>1 DEF SameMatter, RequestHolds, MatterHolds, Free
    <2> QED BY <2>1, <2>2 DEF Goes, Deactivate, Activate
<1>7. ASSUME NEW r \in Requests PROVE RequestHolds(r)'
    <2>1. RequestHolds(r) /\ Goes(r)
        BY <1>6
    <2>2. request[r].does = "assign" => request'[r].met \/ request[r].who \in Active'
        <3> SUFFICES ASSUME request[r].does = "assign" PROVE request'[r].met \/ request[r].who \in Active'
            OBVIOUS
        <3>1. request[r] \in RequestRows /\ request[r].matter = "thread"
              /\ (request[r].met \/ request[r].who \in Active)
            BY <2>1 DEF RequestHolds, MatterHolds
        <3>2. CASE Activate(m)
            BY <1>1, <1>3, <1>4, <3>1, <3>2 DEF Activate, Active, PeopleHold
        <3>3. CASE Deactivate(m)
            <4>1. CASE request[r].who = m
                <5>1. request'[r] = [request[r] EXCEPT !.met = TRUE]
                    BY <3>1, <3>3, <4>1 DEF Deactivate, SameMatter
                <5> QED BY <3>1, <5>1 DEF RequestRows
            <4>2. CASE request[r].who # m
                BY <1>1, <1>3, <1>4, <2>1, <3>1, <3>3, <4>2, GoesKeepsFields
                DEF Deactivate, Active, PeopleHold
            <4> QED BY <4>1, <4>2
        <3> QED BY <3>2, <3>3
    <2>3. request[r].does \in {"link", "otp"} => request[r].of \in Issued
        BY <2>1 DEF RequestHolds, RedeemHolds
    <2> QED BY <1>2, <1>4, <1>5, <2>1, <2>2, <2>3, BystanderHolds DEF Issued, StaysRead
<1>8. RequestsHold'
    <2>1. DOMAIN request' = Requests
        BY <1>1 DEF RequestsHold, Deactivate, Activate
    <2>2. ASSUME NEW r \in Requests, NEW t \in Requests \ {r} PROVE Meets(r, t)'
        <3>1. Meets(r, t)
            BY <1>1 DEF RequestsHold
        <3> QED BY <1>6, <3>1, MeetingsStay
    <2> QED BY <1>7, <2>1, <2>2 DEF RequestsHold
<1>9. PeopleHold'
    <2>1. assignee' \in Active' \cup {Nobody} \/ (assignee' \in People /\ "thread" \in excused')
        <3>1. CASE Activate(m)
            BY <1>1, <1>3, <3>1 DEF Activate, PeopleHold, Active
        <3>2. CASE Deactivate(m)
            BY <1>1, <1>3, <3>2 DEF Deactivate, Unassign, PeopleHold, Active
        <3> QED BY <3>1, <3>2
    <2> QED BY <1>1, <1>2, <1>4, <2>1 DEF PeopleHold
<1>10. LoginsHold'
    <2>1. \A p \in People : SigningIn(p)' \subseteq SigningIn(p)
        BY <1>6, GoesKeepsFields DEF SigningIn, RequestHolds
    <2> QED BY <1>1, <1>2, <2>1, LoginsStay DEF LoginsHold
<1> QED BY <1>5, <1>8, <1>9, <1>10 DEF AccountsInv

LEMMA ShopGoes ==
    ASSUME AccountsInv, DeleteShop
    PROVE  AccountsInv'
<1>1. PeopleHold /\ LoginsHold
    BY DEF AccountsInv
<1>2. /\ account' = [p \in People |-> "none"] /\ verified' = {} /\ codes' = [c \in {} |-> 0]
      /\ request' = [q \in Requests |-> Free] /\ assignee' = Nobody /\ excused' = {}
      /\ failures' = failures
    BY DEF DeleteShop
<1>3. Issued' = {} /\ CodesHold'
    <2>1. Issued' = {} /\ 1..0 = {} /\ 0 \in 0..MaxCodes
        BY <1>2, AccountsAssumption DEF Issued
    <2> QED BY <2>1 DEF CodesHold
<1>4. RequestsHold'
    BY <1>2 DEF RequestsHold, RequestHolds, Meets, Free, RequestRows, MatterHolds, Matters, SameMatter
<1>5. PeopleHold'
    <2>1. Existing' = {} /\ Team' = {} /\ Cardinality({}) = 0
        BY <1>2, FS_EmptySet DEF Existing, Team
    <2> QED BY <1>2, <2>1, AccountsAssumption DEF PeopleHold
<1>6. LoginsHold'
    <2>1. \A p \in People : SigningIn(p)' \subseteq SigningIn(p)
        BY <1>2 DEF SigningIn, Free
    <2> QED BY <1>1, <1>2, <2>1, LoginsStay DEF LoginsHold
<1> QED BY <1>3, <1>4, <1>5, <1>6 DEF AccountsInv

LEMMA LittleElse ==
    ASSUME AccountsInv,
           \/ \E p \in People : WindowPasses(p)
           \/ HandBackThread
           \/ UNCHANGED accountVars
    PROVE  AccountsInv'
<1>1. CodesHold /\ RequestsHold /\ PeopleHold /\ LoginsHold
    BY DEF AccountsInv
<1>2. UNCHANGED <<account, verified, codes, request, excused>>
    BY DEF WindowPasses, HandBackThread, accountVars
<1>3. CodesHold'
    BY <1>1, <1>2, CodesStay DEF Existing
<1>4. RequestsHold'
    <2>1. ASSUME NEW r \in Requests PROVE RequestHolds(r)'
        <3>1. Goes(r) /\ RequestHolds(r)
            BY <1>1, <1>2 DEF Goes, RequestsHold
        <3>2. CodesGoOn
            BY <1>1, <1>2, CodesStay DEF Existing
        <3> QED BY <1>2, <3>1, <3>2, BystanderHolds DEF Existing, Active, Team, Issued, StaysRead
    <2> QED BY <1>1, <1>2, <2>1 DEF RequestsHold, Meets, SameMatter
<1>5. PeopleHold'
    BY <1>1, <1>2, AccountsAssumption
    DEF PeopleHold, Existing, Active, Team, People, WindowPasses, HandBackThread, accountVars
<1>6. LoginsHold'
    <2>1. \A p \in People : SigningIn(p)' \subseteq SigningIn(p)
        BY <1>2 DEF SigningIn
    <2>2. failures' \in [People -> Nat] /\ \A p \in People : failures'[p] <= failures[p]
        BY <1>1 DEF LoginsHold, WindowPasses, HandBackThread, accountVars
    <2> QED BY <1>1, <2>1, <2>2, LoginsStay
<1> QED BY <1>3, <1>4, <1>5, <1>6 DEF AccountsInv

LEMMA AccountsInitHolds == AccountsInit => AccountsInv
<1> SUFFICES ASSUME AccountsInit PROVE AccountsInv
    OBVIOUS
<1>1. CodesHold
    <2>1. Issued = {} /\ 1..0 = {} /\ 0 \in 0..MaxCodes
        BY AccountsAssumption DEF AccountsInit, Issued
    <2> QED BY <2>1 DEF CodesHold
<1>2. RequestsHold
    BY DEF AccountsInit, RequestsHold, RequestHolds, Meets, Free, RequestRows, MatterHolds, Matters, SameMatter
<1>3. PeopleHold
    <2>1. Existing = verified /\ Team = {} /\ Cardinality({}) = 0
        BY FS_EmptySet, AccountsAssumption DEF AccountsInit, Existing, Team, People
    <2> QED BY <2>1, AccountsAssumption DEF AccountsInit, PeopleHold
<1>4. LoginsHold
    <2> SUFFICES ASSUME NEW p \in People
        PROVE  failures[p] + Cardinality(SigningIn(p)) < LoginMaxAttempts + Cardinality(Requests)
        BY DEF AccountsInit, LoginsHold
    <2>1. Cardinality(SigningIn(p)) = 0 /\ Cardinality(Requests) \in Nat
        <3>1. SigningIn(p) = {}
            BY DEF AccountsInit, SigningIn, Free
        <3> QED BY <3>1, FS_EmptySet, SigningInIsFinite
    <2> QED BY <2>1, AccountsAssumption DEF AccountsInit
<1> QED BY <1>1, <1>2, <1>3, <1>4 DEF AccountsInv

LEMMA AccountsInvariant == AccountsSpec => []AccountsInv
<1>1. AccountsInit => AccountsInv
    BY AccountsInitHolds
<1>2. AccountsInv /\ [AccountsNext]_accountVars => AccountsInv'
    <2> SUFFICES ASSUME AccountsInv, [AccountsNext]_accountVars PROVE AccountsInv'
        OBVIOUS
    <2>1. CASE MembershipNext
        BY <2>1, OwnerComes, ShopGoes, MembersMove, AssignEnds DEF MembershipNext
    <2>2. CASE InvitesNext
        BY <2>2, InviteStarts, InviteEnds DEF InvitesNext
    <2>3. CASE CodesNext
        BY <2>3, CodesAge, IssueStarts, IssueEnds DEF CodesNext
    <2>4. CASE LinksNext
        BY <2>4, LinkStarts, LinkEnds DEF LinksNext
    <2>5. CASE OtpNext
        BY <2>5, OtpStarts, OtpEnds DEF OtpNext
    <2>6. CASE LoginsNext
        BY <2>6, LittleElse, OthersStart, LoginEnds DEF LoginsNext
    <2>7. CASE AssignNext
        BY <2>7, LittleElse, OthersStart, AssignEnds DEF AssignNext
    <2> QED BY <2>1, <2>2, <2>3, <2>4, <2>5, <2>6, <2>7, LittleElse DEF AccountsNext
<1> QED BY <1>1, <1>2, PTL DEF AccountsSpec

(* The state of every account, code and request keeps its type.               *)
THEOREM AccountsTyped == AccountsSpec => []AccountsTypeOK
<1>1. ASSUME AccountsInv PROVE AccountsTypeOK
    <2>1. CodesHold /\ RequestsHold /\ PeopleHold /\ LoginsHold
        BY <1>1 DEF AccountsInv
    <2>2. Issued \subseteq 1..MaxCodes
        BY <2>1, AccountsAssumption DEF CodesHold
    <2>3. \A c \in Issued : codes[c] \in CodeRows
        BY <2>1 DEF CodesHold, CodeHolds
    <2>4. \A q \in Requests : request[q].who \in People \cup {Nobody} /\ request[q].retires \subseteq Issued
        BY <2>1 DEF RequestsHold, RequestHolds, RequestRows
    <2>5. assignee \in People \cup {Nobody}
        BY <2>1 DEF PeopleHold, Active
    <2> QED BY <2>1, <2>2, <2>3, <2>4, <2>5 DEF AccountsTypeOK, CodeRows, PeopleHold, LoginsHold
<1> QED BY <1>1, AccountsInvariant, PTL

(* Whoever registers, invites, asks for codes, redeems them, signs in and     *)
(* assigns at once: only one code of a kind is live and it is used once, and  *)
(* no request that begins after a reset redeems a code from before it -- two  *)
(* requests that met may each redeem what both read live, one of them after   *)
(* the reset that the other was; and threads, the team and failed sign-ins    *)
(* keep to their bounds.                                                      *)
THEOREM AccountsAlwaysHold == AccountsSpec => []AccountsHold
<1>1. ASSUME AccountsInv PROVE AccountsHold
    <2>1. CodesHold /\ RequestsHold /\ PeopleHold /\ LoginsHold
        BY <1>1 DEF AccountsInv
    <2>2. CodesAreSingle
        <3>1. \A c, d \in Issued : c # d => Alone(c, d)
            BY <2>1 DEF CodesHold
        <3>2. ASSUME NEW c \in Issued
              PROVE  /\ codes[c].met \/ (codes[c].used <= 1 /\ codes[c].wrong <= OtpMaxAttempts)
                     /\ codes[c].live /\ codes[c].outdated => codes[c].purpose = "email_verify"
                     /\ codes[c].after => codes[c].met \/ codes[c].purpose = "email_verify"
            <4>1. CodeHolds(c)
                BY <2>1 DEF CodesHold
            <4>2. codes[c].wrong \in Nat /\ codes[c].attempts \in Nat
                BY <4>1 DEF CodeHolds, CodeRows
            <4> QED BY <4>1, <4>2, AccountsAssumption DEF CodeHolds
        <3> QED BY <3>1, <3>2 DEF CodesAreSingle, Alone
    <2>3. TeamHolds
        <3>1. ASSUME NEW p \in People PROVE failures[p] < LoginMaxAttempts + Cardinality(Requests)
            <4>1. failures[p] \in Nat /\ Cardinality(SigningIn(p)) \in Nat /\ Cardinality(Requests) \in Nat
                BY <2>1, SigningInIsFinite DEF LoginsHold
            <4> QED BY <2>1, <4>1, AccountsAssumption DEF LoginsHold
        <3> QED BY <2>1, <3>1 DEF TeamHolds, PeopleHold, Team
    <2> QED BY <2>2, <2>3 DEF AccountsHold
<1> QED BY <1>1, AccountsInvariant, PTL

-----------------------------------------------------------------------------
(* Customers.  A customer, a thread and a message each keep what the workers  *)
(* and the staff who read them rely on: a row once used is never new again, a *)
(* live thread is of a live customer, what was said in it only grows, and no  *)
(* worker holds a customer who is forgotten, unless the customer is late.     *)

CustomerRows == [row : {"unused", "live", "gone"}, known : BOOLEAN,
                 name : {"none", "placeholder", "given", "anonymous"}, late : BOOLEAN]

ThreadRows == [row : {"unused", "live", "gone"}, of : 0..MaxCustomers, channel : BOOLEAN,
               open : BOOLEAN, unread : 0..Cardinality(Messages), fresh : SUBSET Messages]

Works == [at : {"due", "found", "threaded", "done", "lost"}, customer : 0..MaxCustomers,
          thread : 0..MaxThreads, renames : BOOLEAN, saw : 0..Cardinality(Messages)]

DeskRows == [does : {"nothing", "add", "rehearse", "read", "delete"}, of : Nat, saw : Nat]

Forgotten(c) == customers[c].row = "live" /\ ~customers[c].known /\ ~customers[c].late

\* A customer who is forgotten is nameless, and no worker holds it.
CustomerHolds(c) ==
    /\ customers[c] \in CustomerRows
    /\ customers[c].late => ~customers[c].known /\ customers[c].row # "unused"
    /\ Forgotten(c) => /\ customers[c].name = "anonymous"
                       /\ \A m \in Messages : inbound[m].customer # c

\* A live thread is of a live customer and counts what was said in it.
ThreadHolds(t) ==
    /\ threads[t] \in ThreadRows
    /\ threads[t].row = "live" =>
           /\ threads[t].of \in Rows(customers)
           /\ threads[t].unread = 0 => threads[t].fresh = {}
           /\ threads[t].unread <= Cardinality(Said(t))
           /\ Forgotten(threads[t].of) => Said(t) = {}

\* What a worker has read: rows in use, a customer it keeps from being deleted,
\* or a thread of that customer where at least as much was said as it counted;
\* the thread goes, and the message is lost, only with the customer.
WorkHolds(m) ==
    LET w == inbound[m]
    IN  /\ w \in Works
        /\ w.at \in {"due", "done"} => w.customer = 0
        /\ w.customer # 0 => customers[w.customer].row # "unused"
        /\ w.at = "threaded" /\ w.thread = 0 =>
               /\ w.customer # 0 => w.customer \in Rows(customers)
               /\ w.saw = 0
        /\ w.at = "threaded" /\ w.thread # 0 =>
               /\ w.customer # 0 /\ threads[w.thread].row # "unused" /\ threads[w.thread].of = w.customer
               /\ threads[w.thread].row = "live" => w.saw <= Cardinality(Said(w.thread))
               /\ threads[w.thread].row = "live" \/ Left(w.customer)
        /\ w.at = "lost" => w.customer # 0 /\ Left(w.customer)

\* A message is kept in a live thread once it is done, unless it is forgotten.
MessageHolds(m) ==
    /\ keptIn[m] \in {0} \cup Rows(threads)
    /\ keptIn[m] # 0 <=> (inbound[m].at = "done" /\ m \notin forgotten)
    /\ m \in forgotten => inbound[m].at = "done"

DeskHolds(d) ==
    /\ desk[d] \in DeskRows
    /\ desk[d].does = "delete" => desk[d].of \in DOMAIN customers /\ customers[desk[d].of].row # "unused"

\* Workers and staff who found nobody.
Newcomers == {m \in Messages : inbound[m].at \in {"found", "threaded"} /\ inbound[m].customer = 0}
Adding    == {d \in Desks : desk[d].does = "add"}

\* But for an overlap, one is known, or one is about to insert the person.
OneHolds ==
    ~overlapped =>
        /\ \A c, e \in Known : c = e
        /\ \A m, n \in Newcomers : m = n
        /\ \A d, e \in Adding : d = e
        /\ Newcomers = {} \/ Adding = {}
        /\ Known # {} => Newcomers = {} /\ Adding = {}

CustomersInv ==
    /\ DOMAIN customers = 1..MaxCustomers /\ \A c \in 1..MaxCustomers : CustomerHolds(c)
    /\ DOMAIN threads = 1..MaxThreads /\ \A t \in 1..MaxThreads : ThreadHolds(t)
    /\ DOMAIN inbound = Messages /\ \A m \in Messages : WorkHolds(m)
    /\ keptIn \in [Messages -> 0..MaxThreads] /\ forgotten \subseteq Messages /\ \A m \in Messages : MessageHolds(m)
    /\ DOMAIN desk = Desks /\ \A d \in Desks : DeskHolds(d)
    /\ overlapped \in BOOLEAN /\ OneHolds

-----------------------------------------------------------------------------
\* The next row to insert is unused, if one is.
LEMMA NextRowIsUnused ==
    ASSUME NEW f, NEW n \in Nat, DOMAIN f = 1..n, Unused(f) # {}
    PROVE  NextRow(f) \in Unused(f) /\ NextRow(f) \in 1..n
<1>1. Unused(f) \in SUBSET Nat /\ Unused(f) \subseteq 1..n
    BY DEF Unused
<1>2. PICK i \in Unused(f) : \A k \in Unused(f) : ~(<<k, i>> \in OpToRel(<, Nat))
    BY <1>1, NatLessThanWellFounded, WFMin
<1>3. \A k \in Unused(f) : ~(k < i)
    BY <1>1, <1>2 DEF OpToRel
<1>4. \A k \in Unused(f) : i <= k
    BY <1>1, <1>3
<1> QED BY <1>1, <1>4 DEF NextRow

LEMMA SaidIsFinite ==
    ASSUME NEW t
    PROVE  /\ IsFiniteSet(Said(t)) /\ Cardinality(Said(t)) \in Nat
           /\ Cardinality(Messages) \in Nat /\ Cardinality(Said(t)) <= Cardinality(Messages)
<1>1. Said(t) \subseteq Messages
    BY DEF Said
<1> QED BY <1>1, CustomersAssumption, FS_Subset, FS_CardinalityType

LEMMA SaidGrows ==
    ASSUME NEW t, Said(t) \subseteq Said(t)'
    PROVE  Cardinality(Said(t)) <= Cardinality(Said(t)') /\ Cardinality(Said(t)') \in Nat
<1>1. Said(t)' \subseteq Messages
    BY DEF Said
<1>2. IsFiniteSet(Said(t)')
    BY <1>1, CustomersAssumption, FS_Subset
<1> QED BY <1>2, FS_Subset, FS_CardinalityType

\* What every step leaves of the rows it does not insert.
RowsGoOn ==
    /\ DOMAIN customers' = 1..MaxCustomers /\ DOMAIN threads' = 1..MaxThreads
    /\ \A c \in 1..MaxCustomers : /\ customers[c].row # "unused" => customers'[c].row # "unused"
                                  /\ Left(c) => Left(c)'
    /\ \A t \in 1..MaxThreads : threads[t].row # "unused" =>
           /\ threads'[t].row # "unused" /\ threads'[t].of = threads[t].of
           /\ threads'[t].row = "live" => threads[t].row = "live" /\ Said(t) \subseteq Said(t)'

LEMMA RowsStay ==
    ASSUME CustomersInv, UNCHANGED <<customers, threads, keptIn>>
    PROVE  RowsGoOn
BY DEF CustomersInv, RowsGoOn, Said, Left

\* A worker that a step is not about can go on.
LEMMA WorkStays ==
    ASSUME CustomersInv, NEW m \in Messages, inbound'[m] = inbound[m], RowsGoOn,
           inbound[m].at = "threaded" /\ inbound[m].thread = 0 /\ inbound[m].customer # 0 =>
               inbound[m].customer \in Rows(customers'),
           inbound[m].at = "threaded" /\ inbound[m].thread # 0 /\ threads[inbound[m].thread].row = "live" =>
               threads'[inbound[m].thread].row = "live" \/ Left(inbound[m].customer)'
    PROVE  WorkHolds(m)'
<1>1. PICK w : w = inbound[m]
    OBVIOUS
<1>2. /\ w \in Works
      /\ w.at \in {"due", "done"} => w.customer = 0
      /\ w.customer # 0 => customers[w.customer].row # "unused"
      /\ w.at = "threaded" /\ w.thread = 0 => w.saw = 0
      /\ w.at = "threaded" /\ w.thread # 0 =>
             /\ w.customer # 0 /\ threads[w.thread].row # "unused" /\ threads[w.thread].of = w.customer
             /\ threads[w.thread].row = "live" => w.saw <= Cardinality(Said(w.thread))
             /\ threads[w.thread].row = "live" \/ Left(w.customer)
      /\ w.at = "lost" => w.customer # 0 /\ Left(w.customer)
    BY <1>1 DEF CustomersInv, WorkHolds
<1>3. w.customer \in 0..MaxCustomers /\ w.thread \in 0..MaxThreads /\ w.saw \in 0..Cardinality(Messages)
    BY <1>2 DEF Works
<1>4. w.customer # 0 => customers'[w.customer].row # "unused"
    BY <1>2, <1>3, CustomersAssumption DEF RowsGoOn
<1>5. w.at = "threaded" /\ w.thread # 0 =>
          /\ w.customer # 0 /\ threads'[w.thread].row # "unused" /\ threads'[w.thread].of = w.customer
          /\ threads'[w.thread].row = "live" => w.saw <= Cardinality(Said(w.thread)')
    <2> SUFFICES ASSUME w.at = "threaded", w.thread # 0
        PROVE  /\ w.customer # 0 /\ threads'[w.thread].row # "unused" /\ threads'[w.thread].of = w.customer
               /\ threads'[w.thread].row = "live" => w.saw <= Cardinality(Said(w.thread)')
        OBVIOUS
    <2>1. /\ w.thread \in 1..MaxThreads /\ w.customer # 0
          /\ threads'[w.thread].row # "unused" /\ threads'[w.thread].of = w.customer
          /\ threads'[w.thread].row = "live" =>
                 threads[w.thread].row = "live" /\ Said(w.thread) \subseteq Said(w.thread)'
        BY <1>2, <1>3, CustomersAssumption DEF RowsGoOn
    <2>2. Cardinality(Said(w.thread)) \in Nat /\ w.saw \in Nat
        BY <1>3, SaidIsFinite
    <2>3. threads'[w.thread].row = "live" => w.saw <= Cardinality(Said(w.thread)')
        BY <1>2, <2>1, <2>2, SaidGrows
    <2> QED BY <2>1, <2>3
<1>6. inbound'[m] = w
    BY <1>1
<1>7. w.customer # 0 /\ Left(w.customer) => Left(w.customer)'
    BY <1>3, CustomersAssumption DEF RowsGoOn
<1>8. w.at = "threaded" /\ w.thread # 0 => threads'[w.thread].row = "live" \/ Left(w.customer)'
    BY <1>1, <1>2, <1>7
<1>9. w.at = "lost" => w.customer # 0 /\ Left(w.customer)'
    BY <1>2, <1>7
<1> QED BY <1>1, <1>2, <1>4, <1>5, <1>6, <1>8, <1>9 DEF WorkHolds

LEMMA OneStays ==
    ASSUME OneHolds, UNCHANGED overlapped, Known' \subseteq Known, Newcomers' \subseteq Newcomers,
           Adding' \subseteq Adding
    PROVE  OneHolds'
BY DEF OneHolds

\* Staff go on, or are done.
DeskGoesOn == DOMAIN desk' = Desks /\ \A d \in Desks : desk'[d] = desk[d] \/ desk'[d] = DeskIdle

LEMMA DeskStays ==
    ASSUME CustomersInv, RowsGoOn, DeskGoesOn
    PROVE  (\A d \in Desks : DeskHolds(d)') /\ Adding' \subseteq Adding
<1>1. ASSUME NEW d \in Desks PROVE DeskHolds(d)'
    <2>1. DeskHolds(d) /\ (desk'[d] = desk[d] \/ desk'[d] = DeskIdle)
        BY DEF CustomersInv, DeskGoesOn
    <2>2. CASE desk'[d] = DeskIdle
        BY <2>2 DEF DeskHolds, DeskIdle, DeskRows
    <2>3. CASE desk'[d] = desk[d]
        BY <2>1, <2>3 DEF DeskHolds, CustomersInv, RowsGoOn
    <2> QED BY <2>1, <2>2, <2>3
<1>2. Adding' \subseteq Adding
    BY DEF DeskGoesOn, Adding, DeskIdle
<1> QED BY <1>1, <1>2

\* A customer who is as before and whom no worker comes to hold.
LEMMA CustomerStays ==
    ASSUME NEW c \in 1..MaxCustomers, CustomerHolds(c), customers'[c] = customers[c],
           Forgotten(c) => \A m \in Messages : inbound'[m].customer = c => inbound[m].customer = c
    PROVE  CustomerHolds(c)'
BY DEF CustomerHolds, Forgotten

\* A thread as before, of a customer as before, with what was said in it.
LEMMA ThreadStays ==
    ASSUME CustomersInv, NEW t \in 1..MaxThreads, threads'[t] = threads[t],
           threads[t].row = "live" =>
               customers'[threads[t].of] = customers[threads[t].of] /\ Said(t)' = Said(t),
           DOMAIN customers' = 1..MaxCustomers
    PROVE  ThreadHolds(t)'
<1>1. ThreadHolds(t)
    BY DEF CustomersInv
<1> QED BY <1>1 DEF ThreadHolds, Forgotten, Rows, CustomersInv

-----------------------------------------------------------------------------
\* A worker takes a step and commits nothing.
LEMMA WorkerMoves ==
    ASSUME CustomersInv, NEW m \in Messages, NEW w,
           UNCHANGED <<customers, threads, keptIn, desk, forgotten>>, inbound' = [inbound EXCEPT ![m] = w],
           inbound[m].at # "done", w.at # "done", WorkHolds(m)',
           w.customer = 0 \/ ~Forgotten(w.customer), overlapped' \in BOOLEAN, OneHolds'
    PROVE  CustomersInv'
<1>1. /\ DOMAIN inbound' = Messages /\ inbound'[m] = w
      /\ \A n \in Messages \ {m} : inbound'[n] = inbound[n]
    BY DEF CustomersInv
<1>2. RowsGoOn /\ DeskGoesOn
    BY RowsStay DEF CustomersInv, DeskGoesOn
<1>3. \A n \in Messages : WorkHolds(n)'
    <2> SUFFICES ASSUME NEW n \in Messages \ {m} PROVE WorkHolds(n)'
        OBVIOUS
    <2>1. WorkHolds(n)
        BY DEF CustomersInv
    <2>2. inbound[n].at = "threaded" /\ inbound[n].thread = 0 /\ inbound[n].customer # 0 =>
              inbound[n].customer \in Rows(customers')
        BY <2>1 DEF WorkHolds
    <2> QED BY <1>1, <1>2, <2>2, WorkStays
<1>4. \A c \in 1..MaxCustomers : CustomerHolds(c)'
    <2> SUFFICES ASSUME NEW c \in 1..MaxCustomers PROVE CustomerHolds(c)'
        OBVIOUS
    <2>1. CustomerHolds(c) /\ customers'[c] = customers[c] /\ c # 0
        BY DEF CustomersInv
    <2>2. Forgotten(c) => \A n \in Messages : inbound'[n].customer = c => inbound[n].customer = c
        BY <1>1, <2>1
    <2> QED BY <2>1, <2>2, CustomerStays
<1>5. \A t \in 1..MaxThreads : ThreadHolds(t)'
    BY ThreadStays DEF CustomersInv, Said
<1>6. \A n \in Messages : MessageHolds(n)'
    BY <1>1 DEF CustomersInv, MessageHolds
<1>7. \A d \in Desks : DeskHolds(d)'
    BY <1>2, DeskStays
<1> QED BY <1>1, <1>3, <1>4, <1>5, <1>6, <1>7 DEF CustomersInv

\* A worker whose customer left loses its message.
LEMMA LosingKeeps ==
    ASSUME CustomersInv, NEW m \in Messages, inbound[m].at # "done",
           inbound[m].customer # 0, Left(inbound[m].customer), LoseMessage(m)
    PROVE  CustomersInv'
<1>1. PICK w, c : w = [inbound[m] EXCEPT !.at = "lost"] /\ c = inbound[m].customer
    OBVIOUS
<1>2. /\ inbound' = [inbound EXCEPT ![m] = w] /\ inbound[m] \in Works /\ WorkHolds(m) /\ OneHolds
      /\ UNCHANGED <<customers, threads, keptIn, desk, overlapped, forgotten>>
      /\ overlapped \in BOOLEAN /\ DOMAIN inbound = Messages
    BY <1>1 DEF CustomersInv, WorkHolds, LoseMessage
<1>3. w \in Works /\ w.at = "lost" /\ w.customer = c /\ inbound'[m] = w
    BY <1>1, <1>2 DEF Works
<1>4. c \in 1..MaxCustomers /\ customers[c].row # "unused"
    BY <1>1, <1>2, CustomersAssumption DEF WorkHolds, Works
<1>5. WorkHolds(m)'
    BY <1>1, <1>2, <1>3, <1>4 DEF WorkHolds, Left
<1>6. Newcomers' \subseteq Newcomers /\ Known' = Known /\ Adding' = Adding
    BY <1>2, <1>3 DEF Newcomers, Known, Adding
<1>7. OneHolds'
    BY <1>2, <1>6, OneStays
<1>8. ~Forgotten(w.customer)
    BY <1>1, <1>3 DEF Forgotten, Left
<1> QED BY <1>2, <1>3, <1>5, <1>7, <1>8, WorkerMoves

LEMMA FindKeeps ==
    ASSUME CustomersInv, NEW m \in Messages, Find(m)
    PROVE  CustomersInv'
<1>1. PICK c \in IF Known = {} THEN {0} ELSE Known, named \in BOOLEAN :
          /\ inbound' = [inbound EXCEPT ![m].at = "found", ![m].customer = c,
                 ![m].renames = named /\ (c = 0 \/ customers[c].name = "placeholder")]
          /\ overlapped' = (overlapped \/ (c = 0 /\ Inserting # {}))
    BY DEF Find
<1>2. /\ inbound[m].at = "due" /\ UNCHANGED <<customers, threads, keptIn, desk, forgotten>>
    BY DEF Find
<1>3. WorkHolds(m) /\ inbound[m] \in Works /\ DOMAIN inbound = Messages
    BY DEF CustomersInv, WorkHolds
<1>4. PICK renames \in BOOLEAN : renames = (named /\ (c = 0 \/ customers[c].name = "placeholder"))
    OBVIOUS
<1>5. PICK w : w = [inbound[m] EXCEPT !.at = "found", !.customer = c, !.renames = renames]
    OBVIOUS
<1>6. inbound' = [inbound EXCEPT ![m] = w]
    BY <1>1, <1>3, <1>4, <1>5
<1>7. c \in 0..MaxCustomers /\ (c = 0 => Known = {}) /\ (c # 0 => c \in Known)
    BY CustomersAssumption DEF Known, Rows, CustomersInv
<1>8. w \in Works /\ w.at = "found" /\ w.customer = c
    BY <1>3, <1>5, <1>7 DEF Works
<1>9. c = 0 \/ (customers[c].row = "live" /\ customers[c].known)
    BY <1>7 DEF Known, Rows
<1>10. WorkHolds(m)'
    BY <1>2, <1>3, <1>6, <1>8, <1>9 DEF WorkHolds
<1>11. OneHolds'
    <2> SUFFICES ASSUME ~overlapped'
        PROVE  /\ \A b, e \in Known' : b = e
               /\ \A l, n \in Newcomers' : l = n
               /\ \A d, e \in Adding' : d = e
               /\ Newcomers' = {} \/ Adding' = {}
               /\ Known' # {} => Newcomers' = {} /\ Adding' = {}
        BY DEF OneHolds
    <2>1. OneHolds /\ ~overlapped /\ ~(c = 0 /\ Inserting # {})
        BY <1>1 DEF CustomersInv
    <2>2. Known' = Known /\ Adding' = Adding
        BY <1>2 DEF Known, Adding
    <2>3. Newcomers' = IF c = 0 THEN Newcomers \cup {m} ELSE Newcomers
        BY <1>2, <1>3, <1>6, <1>8 DEF Newcomers
    <2>4. c = 0 => Newcomers = {} /\ Adding = {}
        BY <2>1 DEF Inserting, Newcomers, Adding
    <2> QED BY <1>7, <2>1, <2>2, <2>3, <2>4 DEF OneHolds
<1>12. overlapped' \in BOOLEAN
    BY <1>1
<1> QED BY <1>2, <1>6, <1>8, <1>9, <1>10, <1>11, <1>12, WorkerMoves DEF Forgotten

LEMMA FindThreadKeeps ==
    ASSUME CustomersInv, NEW m \in Messages, FindThread(m)
    PROVE  CustomersInv'
<1>1. PICK c : c = inbound[m].customer
    OBVIOUS
<1>2. /\ inbound[m].at = "found" /\ UNCHANGED <<customers, threads, keptIn, desk, overlapped, forgotten>>
      /\ \/ /\ c # 0 /\ c \notin Rows(customers)
            /\ inbound' = [inbound EXCEPT ![m].at = "lost"]
         \/ /\ c = 0 \/ c \in Rows(customers)
            /\ \E t \in IF c = 0 \/ Reusable(c) = {} THEN {0} ELSE Reusable(c) :
                 inbound' = [inbound EXCEPT ![m].at = "threaded", ![m].thread = t,
                     ![m].saw = IF t = 0 THEN 0 ELSE threads[t].unread]
    BY <1>1 DEF FindThread, LoseMessage
<1>3. /\ WorkHolds(m) /\ inbound[m] \in Works /\ DOMAIN inbound = Messages /\ OneHolds
      /\ overlapped \in BOOLEAN /\ DOMAIN customers = 1..MaxCustomers /\ DOMAIN threads = 1..MaxThreads
    BY DEF CustomersInv, WorkHolds
<1>4. Known' = Known /\ Adding' = Adding
    BY <1>2 DEF Known, Adding
<1>5. CASE c # 0 /\ c \notin Rows(customers) /\ inbound' = [inbound EXCEPT ![m].at = "lost"]
    <2>1. c \in 1..MaxCustomers /\ customers[c].row = "gone"
        <3>1. c \in 1..MaxCustomers /\ customers[c].row # "unused"
            BY <1>1, <1>3, <1>5, CustomersAssumption DEF WorkHolds, Works
        <3>2. customers[c] \in CustomerRows
            BY <3>1 DEF CustomersInv, CustomerHolds
        <3> QED BY <1>3, <1>5, <3>1, <3>2 DEF CustomerRows, Rows
    <2> QED BY <1>1, <1>2, <1>5, <2>1, LosingKeeps DEF Left, LoseMessage
<1>6. ASSUME c = 0 \/ c \in Rows(customers), NEW t \in IF c = 0 \/ Reusable(c) = {} THEN {0} ELSE Reusable(c),
             inbound' = [inbound EXCEPT ![m].at = "threaded", ![m].thread = t,
                             ![m].saw = IF t = 0 THEN 0 ELSE threads[t].unread]
      PROVE  CustomersInv'
    <2>1. PICK saw : saw = IF t = 0 THEN 0 ELSE threads[t].unread
        OBVIOUS
    <2>2. PICK w : w = [inbound[m] EXCEPT !.at = "threaded", !.thread = t, !.saw = saw]
        OBVIOUS
    <2>3. inbound' = [inbound EXCEPT ![m] = w]
        BY <1>3, <1>6, <2>1, <2>2
    <2>4. t # 0 => /\ c # 0 /\ t \in 1..MaxThreads /\ threads[t].row = "live" /\ threads[t].of = c
        BY <1>3, <1>6 DEF Reusable, OpenThreads, ThreadsOf, Rows
    <2>5. t # 0 => threads[t].unread \in 0..Cardinality(Messages) /\ threads[t].unread <= Cardinality(Said(t))
        BY <2>4 DEF CustomersInv, ThreadHolds, ThreadRows
    <2>6. w \in Works /\ w.at = "threaded" /\ w.thread = t /\ w.saw = saw /\ w.customer = c
        <3>1. saw \in 0..Cardinality(Messages) /\ t \in 0..MaxThreads
            BY <2>1, <2>4, <2>5, CustomersAssumption, FS_CardinalityType
        <3> QED BY <1>1, <1>3, <2>2, <3>1 DEF Works
    <2>7. WorkHolds(m)'
        <3>1. Said(t)' = Said(t)
            BY <1>2 DEF Said
        <3>2. c # 0 => customers[c].row # "unused"
            BY <1>1, <1>3 DEF WorkHolds
        <3>3. inbound'[m] = w
            BY <1>3, <2>3
        <3>4. w.thread = 0 => (w.customer # 0 => w.customer \in Rows(customers)) /\ w.saw = 0
            BY <1>6, <2>1, <2>6
        <3>5. w.thread # 0 => /\ w.customer # 0 /\ threads[w.thread].row = "live"
                              /\ threads[w.thread].of = w.customer /\ w.saw <= Cardinality(Said(t))
            BY <2>1, <2>4, <2>5, <2>6
        <3>6. customers' = customers /\ threads' = threads
            BY <1>2
        <3> QED BY <2>6, <3>1, <3>2, <3>3, <3>4, <3>5, <3>6 DEF WorkHolds, Rows
    <2>8. Newcomers' \subseteq Newcomers
        BY <1>1, <1>2, <1>3, <2>3, <2>6 DEF Newcomers
    <2>9. OneHolds'
        BY <1>2, <1>3, <1>4, <2>8, OneStays
    <2>10. c = 0 \/ ~Forgotten(c)
        <3>1. c # 0 => c \in 1..MaxCustomers /\ CustomerHolds(c)
            BY <1>3, <1>6 DEF CustomersInv, Rows
        <3> QED BY <1>1, <3>1 DEF CustomerHolds
    <2> QED BY <1>2, <1>3, <2>3, <2>6, <2>7, <2>9, <2>10, WorkerMoves
<1> QED BY <1>2, <1>5, <1>6

-----------------------------------------------------------------------------
\* Staff read, and commit nothing.
LEMMA DeskStartKeeps ==
    ASSUME CustomersInv, NEW d \in Desks, NEW does \in {"add", "rehearse", "read", "delete"},
           NEW of \in Nat, NEW saw \in Nat, DeskStart(d, does, of, saw),
           does = "delete" => of \in Rows(customers),
           \/ does # "add" /\ UNCHANGED overlapped
           \/ does = "add" /\ Known = {} /\ overlapped' = (overlapped \/ Inserting # {})
    PROVE  CustomersInv'
<1>1. /\ desk[d] = DeskIdle /\ DOMAIN desk' = Desks
      /\ desk'[d] = [does |-> does, of |-> of, saw |-> saw]
      /\ \A e \in Desks \ {d} : desk'[e] = desk[e]
      /\ UNCHANGED <<customers, threads, keptIn, inbound, forgotten>>
    BY DEF DeskStart, CustomersInv
<1>2. \A e \in Desks : DeskHolds(e)'
    <2>1. DeskHolds(d)'
        BY <1>1 DEF DeskHolds, DeskRows, Rows
    <2>2. \A e \in Desks \ {d} : DeskHolds(e)'
        BY <1>1 DEF CustomersInv, DeskHolds
    <2> QED BY <2>1, <2>2
<1>3. ASSUME NEW m \in Messages PROVE WorkHolds(m)' /\ MessageHolds(m)'
    <2>1. WorkHolds(m) /\ MessageHolds(m) /\ RowsGoOn
        BY <1>1, RowsStay DEF CustomersInv
    <2>2. inbound[m].at = "threaded" /\ inbound[m].thread = 0 /\ inbound[m].customer # 0 =>
              inbound[m].customer \in Rows(customers')
        BY <1>1, <2>1 DEF WorkHolds
    <2>3. WorkHolds(m)'
        BY <1>1, <2>1, <2>2, WorkStays
    <2> QED BY <1>1, <2>1, <2>3 DEF MessageHolds
<1>4. \A c \in 1..MaxCustomers : CustomerHolds(c)'
    BY <1>1 DEF CustomersInv, CustomerHolds, Forgotten
<1>5. \A t \in 1..MaxThreads : ThreadHolds(t)'
    BY <1>1, ThreadStays DEF CustomersInv, Said
<1>6. Known' = Known /\ Newcomers' = Newcomers
    BY <1>1 DEF Known, Newcomers
<1>7. OneHolds' /\ overlapped' \in BOOLEAN
    <2>1. CASE does # "add"
        <3>1. Adding' \subseteq Adding
            BY <1>1, <2>1 DEF Adding
        <3> QED BY <1>6, <2>1, <3>1, OneStays DEF CustomersInv
    <2>2. CASE does = "add"
        <3>1. Adding' \subseteq Adding \cup {d}
            BY <1>1 DEF Adding
        <3>2. ~overlapped' => ~overlapped /\ Newcomers = {} /\ Adding = {}
            BY <2>2 DEF Inserting, Newcomers, Adding
        <3>3. overlapped' \in BOOLEAN
            BY <2>2
        <3> QED BY <1>6, <2>2, <3>1, <3>2, <3>3 DEF OneHolds
    <2> QED BY <2>1, <2>2
<1> QED BY <1>1, <1>2, <1>3, <1>4, <1>5, <1>7 DEF CustomersInv

LEMMA DeskStartsKeep ==
    ASSUME CustomersInv, NEW d \in Desks,
           \/ StartAdd(d)
           \/ \E c \in Rows(customers) : StartDelete(d, c) \/ StartRehearsal(d, c)
           \/ \E t \in Rows(threads) : StartRead(d, t)
    PROVE  CustomersInv'
<1>1. CASE StartAdd(d)
    BY <1>1, DeskStartKeeps DEF StartAdd
<1>2. ASSUME NEW c \in Rows(customers), StartDelete(d, c) \/ StartRehearsal(d, c) PROVE CustomersInv'
    <2>1. c \in Nat
        BY CustomersAssumption DEF Rows, CustomersInv
    <2> QED BY <1>2, <2>1, DeskStartKeeps DEF StartDelete, StartRehearsal
<1>3. ASSUME NEW t \in Rows(threads), StartRead(d, t) PROVE CustomersInv'
    <2>1. t \in Nat /\ threads[t].unread \in Nat
        BY CustomersAssumption, FS_CardinalityType DEF Rows, CustomersInv, ThreadHolds, ThreadRows
    <2> QED BY <1>3, <2>1, DeskStartKeeps DEF StartRead
<1> QED BY <1>1, <1>2, <1>3

-----------------------------------------------------------------------------
LEMMA NothingCommitted ==
    ASSUME CustomersInv, UNCHANGED <<customers, threads, keptIn, inbound, overlapped, forgotten>>, DeskGoesOn
    PROVE  CustomersInv'
<1>1. (\A d \in Desks : DeskHolds(d)') /\ Adding' \subseteq Adding
    BY RowsStay, DeskStays
<1>2. ASSUME NEW m \in Messages PROVE WorkHolds(m)' /\ MessageHolds(m)'
    <2>1. WorkHolds(m) /\ MessageHolds(m) /\ RowsGoOn
        BY RowsStay DEF CustomersInv
    <2>2. inbound[m].at = "threaded" /\ inbound[m].thread = 0 /\ inbound[m].customer # 0 =>
              inbound[m].customer \in Rows(customers')
        BY <2>1 DEF WorkHolds
    <2>3. WorkHolds(m)'
        BY <2>1, <2>2, WorkStays
    <2> QED BY <2>1, <2>3 DEF MessageHolds
<1>3. \A c \in 1..MaxCustomers : CustomerHolds(c)'
    BY DEF CustomersInv, CustomerHolds, Forgotten
<1>4. \A t \in 1..MaxThreads : ThreadHolds(t)'
    BY ThreadStays DEF CustomersInv, Said
<1>5. OneHolds'
    <2>1. Known' = Known /\ Newcomers' = Newcomers
        BY DEF Known, Newcomers
    <2> QED BY <1>1, <2>1, OneStays DEF CustomersInv
<1> QED BY <1>1, <1>2, <1>3, <1>4, <1>5 DEF CustomersInv, DeskGoesOn

\* One thread is inserted, or changed as the seller may.
LEMMA ThreadMoves ==
    ASSUME CustomersInv, NEW t \in 1..MaxThreads, NEW entry \in ThreadRows, threads' = [threads EXCEPT ![t] = entry],
           UNCHANGED <<customers, keptIn, inbound, overlapped, forgotten>>, DeskGoesOn,
           threads[t].row = "unused" \/ (threads[t].row = "live" /\ entry.of = threads[t].of),
           entry.row = "live", entry.of \in Rows(customers), entry.unread = 0 => entry.fresh = {},
           entry.unread <= Cardinality(Said(t)), Forgotten(entry.of) => Said(t) = {}
    PROVE  CustomersInv'
<1>1. /\ DOMAIN threads' = 1..MaxThreads /\ threads'[t] = entry
      /\ \A s \in (1..MaxThreads) \ {t} : threads'[s] = threads[s]
      /\ \A s : Said(s)' = Said(s)
    BY DEF CustomersInv, Said
<1>2. RowsGoOn
    BY <1>1 DEF RowsGoOn, CustomersInv, Left
<1>3. (\A d \in Desks : DeskHolds(d)') /\ Adding' \subseteq Adding
    BY <1>2, DeskStays
<1>4. \A m \in Messages : WorkHolds(m)'
    <2> SUFFICES ASSUME NEW m \in Messages PROVE WorkHolds(m)'
        OBVIOUS
    <2>1. inbound[m].at = "threaded" /\ inbound[m].thread = 0 /\ inbound[m].customer # 0 =>
              inbound[m].customer \in Rows(customers')
        BY DEF CustomersInv, WorkHolds
    <2>2. \A s \in 1..MaxThreads : threads[s].row = "live" => threads'[s].row = "live"
        BY <1>1
    <2>3. inbound[m].at = "threaded" /\ inbound[m].thread # 0 => inbound[m].thread \in 1..MaxThreads
        BY CustomersAssumption DEF CustomersInv, WorkHolds, Works
    <2> QED BY <1>2, <2>1, <2>2, <2>3, WorkStays
<1>5. \A m \in Messages : MessageHolds(m)'
    <2>1. Rows(threads) \subseteq Rows(threads')
        BY <1>1 DEF Rows, CustomersInv
    <2> QED BY <2>1 DEF CustomersInv, MessageHolds
<1>6. \A c \in 1..MaxCustomers : CustomerHolds(c)'
    BY DEF CustomersInv, CustomerHolds, Forgotten
<1>7. \A s \in 1..MaxThreads : ThreadHolds(s)'
    <2>1. ThreadHolds(t)'
        BY <1>1 DEF ThreadHolds, Forgotten
    <2>2. \A s \in (1..MaxThreads) \ {t} : ThreadHolds(s)'
        BY <1>1, ThreadStays DEF CustomersInv
    <2> QED BY <2>1, <2>2
<1>8. OneHolds'
    <2>1. Known' = Known /\ Newcomers' = Newcomers
        BY DEF Known, Newcomers
    <2> QED BY <1>3, <2>1, OneStays DEF CustomersInv
<1> QED BY <1>1, <1>3, <1>4, <1>5, <1>6, <1>7, <1>8 DEF CustomersInv, DeskGoesOn

LEMMA UnusedIsEmpty ==
    ASSUME CustomersInv, NEW t \in 1..MaxThreads, threads[t].row # "live"
    PROVE  Said(t) = {}
<1>1. t \notin Rows(threads) /\ t # 0
    BY DEF Rows
<1> QED BY <1>1 DEF Said, CustomersInv, MessageHolds

LEMMA DeskEnds == ASSUME CustomersInv, NEW d \in Desks, DeskEnd(d) PROVE DeskGoesOn
BY DEF DeskEnd, DeskGoesOn, CustomersInv

LEMMA SeveralThreadSteps ==
    ASSUME CustomersInv,
           \/ \E d \in Desks : FinishRehearsal(d) \/ FinishRead(d)
           \/ \E t \in Rows(threads), open \in BOOLEAN : SetOpen(t, open)
    PROVE  CustomersInv'
<1>0. /\ DOMAIN customers = 1..MaxCustomers /\ DOMAIN threads = 1..MaxThreads
      /\ 0 \in 0..Cardinality(Messages)
    BY CustomersAssumption, FS_CardinalityType DEF CustomersInv
<1>1. ASSUME NEW d \in Desks, FinishRehearsal(d) PROVE CustomersInv'
    <2>1. PICK c, t : c = desk[d].of /\ t = NextRow(threads)
        OBVIOUS
    <2>2. /\ c \in Rows(customers) => Unused(threads) # {}
          /\ threads' = IF c \in Rows(customers) THEN [threads EXCEPT ![t] = NewThread(c, FALSE)] ELSE threads
          /\ DeskGoesOn /\ UNCHANGED <<customers, keptIn, inbound, overlapped, forgotten>>
        BY <1>1, <2>1, DeskEnds DEF FinishRehearsal
    <2>3. CASE c \notin Rows(customers)
        BY <2>2, <2>3, NothingCommitted
    <2>4. CASE c \in Rows(customers)
        <3>1. t \in 1..MaxThreads /\ threads[t].row = "unused"
            BY <1>0, <2>1, <2>2, <2>4, NextRowIsUnused, CustomersAssumption DEF Unused
        <3>2. Said(t) = {} /\ Cardinality(Said(t)) = 0
            BY <3>1, UnusedIsEmpty, FS_EmptySet
        <3>3. PICK entry : entry = NewThread(c, FALSE)
            OBVIOUS
        <3>4. entry \in ThreadRows /\ entry.row = "live" /\ entry.of = c /\ entry.unread = 0 /\ entry.fresh = {}
            <4>1. c \in 0..MaxCustomers
                BY <1>0, <2>4, CustomersAssumption DEF Rows
            <4> QED BY <1>0, <3>3, <4>1 DEF NewThread, ThreadRows
        <3>5. threads' = [threads EXCEPT ![t] = entry]
            BY <2>2, <2>4, <3>3
        <3>6. entry.of \in Rows(customers)
            BY <2>4, <3>4
        <3>7. entry.unread <= Cardinality(Said(t))
            <4>1. PICK u, n : u = entry.unread /\ n = Cardinality(Said(t))
                OBVIOUS
            <4>2. u = 0 /\ n = 0
                BY <3>2, <3>4, <4>1
            <4> QED BY <4>1, <4>2
        <3> QED BY <2>2, <3>1, <3>2, <3>4, <3>5, <3>6, <3>7, ThreadMoves
    <2> QED BY <2>3, <2>4
<1>2. ASSUME NEW d \in Desks, FinishRead(d) PROVE CustomersInv'
    <2>1. PICK t, unread : t = desk[d].of /\ unread = IF desk[d].saw # 0 THEN 0 ELSE threads[t].unread
        OBVIOUS
    <2>2. DeskGoesOn /\ UNCHANGED <<customers, keptIn, inbound, overlapped, forgotten>>
        BY <1>2, DeskEnds DEF FinishRead
    <2>3. CASE t \notin Rows(threads)
        BY <1>2, <2>1, <2>2, <2>3, NothingCommitted DEF FinishRead
    <2>4. CASE t \in Rows(threads)
        <3>1. t \in 1..MaxThreads /\ ThreadHolds(t) /\ threads[t] \in ThreadRows /\ threads[t].row = "live"
            BY <1>0, <2>4 DEF Rows, CustomersInv, ThreadHolds
        <3>2. PICK entry : entry = [threads[t] EXCEPT !.unread = unread, !.fresh = {}]
            OBVIOUS
        <3>3. threads' = [threads EXCEPT ![t] = entry]
            BY <1>0, <1>2, <2>1, <2>4, <3>1, <3>2 DEF FinishRead
        <3>4. unread \in 0..Cardinality(Messages) /\ unread <= Cardinality(Said(t))
            <4>1. threads[t].unread \in 0..Cardinality(Messages) /\ threads[t].unread <= Cardinality(Said(t))
                BY <3>1 DEF ThreadHolds, ThreadRows
            <4> QED BY <1>0, <2>1, <4>1, SaidIsFinite
        <3>5. /\ entry \in ThreadRows /\ entry.row = "live" /\ entry.of = threads[t].of
              /\ entry.unread = unread /\ entry.fresh = {}
            BY <3>1, <3>2, <3>4 DEF ThreadRows
        <3> QED BY <2>2, <3>1, <3>3, <3>4, <3>5, ThreadMoves DEF ThreadHolds
    <2> QED BY <2>3, <2>4
<1>3. ASSUME NEW t \in Rows(threads), NEW open \in BOOLEAN, SetOpen(t, open) PROVE CustomersInv'
    <2>1. t \in 1..MaxThreads /\ ThreadHolds(t) /\ threads[t] \in ThreadRows /\ threads[t].row = "live"
        BY <1>0 DEF Rows, CustomersInv, ThreadHolds
    <2>2. PICK entry : entry = [threads[t] EXCEPT !.open = open]
        OBVIOUS
    <2>3. threads' = [threads EXCEPT ![t] = entry]
        BY <1>0, <1>3, <2>1, <2>2 DEF SetOpen
    <2>4. /\ entry \in ThreadRows /\ entry.row = "live" /\ entry.of = threads[t].of
          /\ entry.unread = threads[t].unread /\ entry.fresh = threads[t].fresh
        BY <2>1, <2>2 DEF ThreadRows
    <2>5. DeskGoesOn /\ UNCHANGED <<customers, keptIn, inbound, overlapped, forgotten>>
        BY <1>3 DEF SetOpen, DeskGoesOn, CustomersInv
    <2> QED BY <2>1, <2>3, <2>4, <2>5, ThreadMoves DEF ThreadHolds
<1> QED BY <1>1, <1>2, <1>3

-----------------------------------------------------------------------------
(* The commit of a message: a customer it found or brought, a thread of that  *)
(* customer, and one more unread.                                             *)
LEMMA StoreKeeps ==
    ASSUME CustomersInv, NEW m \in Messages, Store(m)
    PROVE  CustomersInv'
<1>1. PICK w, c, t : /\ w = inbound[m]
                     /\ c = IF w.customer = 0 THEN NextRow(customers) ELSE w.customer
                     /\ t = IF w.thread = 0 THEN NextRow(threads) ELSE w.thread
    OBVIOUS
<1>2. PICK named, entry : /\ named = IF w.renames THEN "given" ELSE "placeholder"
                        /\ entry = IF w.thread = 0 THEN NewThread(c, TRUE) ELSE threads[t]
    OBVIOUS
<1>3. /\ w.at = "threaded"
      /\ w.customer = 0 => Unused(customers) # {}
      /\ w.thread = 0 => Unused(threads) # {}
      /\ IF w.thread # 0 /\ w.thread \notin Rows(threads) THEN LoseMessage(m)
         ELSE /\ customers' = IF w.customer = 0
                              THEN [customers EXCEPT ![c] = NewCustomer(named)]
                              ELSE [customers EXCEPT ![c].name = IF w.renames THEN "given" ELSE @]
              /\ threads' = [threads EXCEPT ![t] =
                     [entry EXCEPT !.unread = OneMore(w.saw), !.fresh = @ \cup {m}]]
              /\ keptIn' = [keptIn EXCEPT ![m] = t]
              /\ inbound' = [inbound EXCEPT ![m] = [DueNow EXCEPT !.at = "done"]]
              /\ UNCHANGED <<desk, overlapped, forgotten>>
    BY <1>1, <1>2 DEF Store
<1>4. /\ DOMAIN customers = 1..MaxCustomers /\ DOMAIN threads = 1..MaxThreads /\ DOMAIN inbound = Messages
      /\ DOMAIN keptIn = Messages /\ w \in Works /\ WorkHolds(m) /\ MessageHolds(m) /\ OneHolds
    BY <1>1 DEF CustomersInv, WorkHolds
<1>5. CASE w.thread # 0 /\ w.thread \notin Rows(threads)
    <2>1. w.customer # 0 /\ Left(w.customer)
        <3>1. w.customer # 0 /\ (threads[w.thread].row = "live" \/ Left(w.customer))
            BY <1>1, <1>3, <1>4, <1>5 DEF WorkHolds
        <3>2. w.thread \in 1..MaxThreads
            BY <1>4, <1>5, CustomersAssumption DEF Works
        <3> QED BY <1>4, <1>5, <3>1, <3>2 DEF Rows
    <2> QED BY <1>1, <1>3, <1>5, <2>1, LosingKeeps
<1>6. CASE w.thread = 0 \/ w.thread \in Rows(threads)
    <2>1. /\ customers' = IF w.customer = 0
                          THEN [customers EXCEPT ![c] = NewCustomer(named)]
                          ELSE [customers EXCEPT ![c].name = IF w.renames THEN "given" ELSE @]
          /\ threads' = [threads EXCEPT ![t] =
                 [entry EXCEPT !.unread = OneMore(w.saw), !.fresh = @ \cup {m}]]
          /\ keptIn' = [keptIn EXCEPT ![m] = t]
          /\ inbound' = [inbound EXCEPT ![m] = [DueNow EXCEPT !.at = "done"]]
          /\ UNCHANGED <<desk, overlapped, forgotten>>
        BY <1>3, <1>6
    <2>2. /\ c \in 1..MaxCustomers
          /\ w.customer = 0 => customers[c].row = "unused"
          /\ w.customer # 0 => c = w.customer /\ ~Forgotten(c)
        <3>1. CASE w.customer = 0
            BY <1>1, <1>3, <1>4, <3>1, NextRowIsUnused, CustomersAssumption DEF Unused
        <3>2. CASE w.customer # 0
            <4>1. c = w.customer /\ c \in 1..MaxCustomers
                BY <1>1, <1>4, <3>2, CustomersAssumption DEF Works
            <4>2. CustomerHolds(c)
                BY <4>1 DEF CustomersInv
            <4> QED BY <1>1, <3>2, <4>1, <4>2 DEF CustomerHolds
        <3> QED BY <3>1, <3>2
    <2>3. /\ t \in 1..MaxThreads /\ ThreadHolds(t)
          /\ w.thread = 0 => threads[t].row = "unused"
          /\ w.thread # 0 => t = w.thread /\ threads[t].row = "live" /\ threads[t].of = c /\ w.customer # 0
        <3>1. CASE w.thread = 0
            BY <1>1, <1>3, <1>4, <3>1, NextRowIsUnused, CustomersAssumption DEF Unused, CustomersInv
        <3>2. CASE w.thread # 0
            BY <1>1, <1>3, <1>4, <1>6, <3>2 DEF Rows, CustomersInv, WorkHolds
        <3> QED BY <3>1, <3>2
    <2>4. w.customer # 0 => customers[c].row = "live"
        <3>1. CASE w.customer # 0 /\ w.thread = 0
            BY <1>1, <1>3, <1>4, <2>2, <3>1 DEF WorkHolds, Rows
        <3>2. CASE w.thread # 0
            BY <1>4, <2>3, <3>2 DEF ThreadHolds, Rows
        <3> QED BY <3>1, <3>2
    <2>5. CustomerHolds(c) /\ customers[c] \in CustomerRows
        BY <2>2 DEF CustomersInv, CustomerHolds
    <2>6. /\ DOMAIN customers' = 1..MaxCustomers
          /\ customers'[c] \in CustomerRows /\ customers'[c].row = "live"
          /\ ~(~customers'[c].known /\ ~customers'[c].late)
          /\ customers'[c].late => ~customers'[c].known
          /\ Left(c) => Left(c)'
          /\ w.customer # 0 => customers'[c].known = customers[c].known
          /\ \A e \in (1..MaxCustomers) \ {c} : customers'[e] = customers[e]
        <3>1. CASE w.customer = 0
            <4>1. customers' = [customers EXCEPT ![c] = NewCustomer(named)]
                BY <2>1, <3>1
            <4> QED BY <1>2, <1>4, <2>2, <2>5, <3>1, <4>1 DEF NewCustomer, CustomerRows, CustomerHolds, Left
        <3>2. CASE w.customer # 0
            <4>1. PICK name : name = IF w.renames THEN "given" ELSE customers[c].name
                OBVIOUS
            <4>2. customers' = [customers EXCEPT ![c] = [customers[c] EXCEPT !.name = name]]
                BY <1>4, <2>1, <2>2, <3>2, <4>1
            <4>3. /\ customers'[c] = [customers[c] EXCEPT !.name = name] /\ DOMAIN customers' = 1..MaxCustomers
                  /\ \A e \in (1..MaxCustomers) \ {c} : customers'[e] = customers[e]
                BY <1>4, <2>2, <4>2
            <4>4. /\ customers'[c] \in CustomerRows /\ customers'[c].row = customers[c].row
                  /\ customers'[c].known = customers[c].known /\ customers'[c].late = customers[c].late
                BY <2>5, <4>1, <4>3 DEF CustomerRows
            <4> QED BY <2>2, <2>4, <2>5, <3>2, <4>3, <4>4 DEF Forgotten, CustomerHolds, Left
        <3> QED BY <3>1, <3>2
    <2>7. keptIn[m] = 0 /\ m \notin Said(t) /\ m \notin forgotten
        BY <1>1, <1>3, <1>4, <2>3 DEF MessageHolds, Said
    <2>8. /\ keptIn'[m] = t /\ keptIn' \in [Messages -> 0..MaxThreads] /\ DOMAIN inbound' = Messages
          /\ inbound'[m] = [DueNow EXCEPT !.at = "done"]
          /\ \A n \in Messages \ {m} : keptIn'[n] = keptIn[n] /\ inbound'[n] = inbound[n]
        <3>1. keptIn \in [Messages -> 0..MaxThreads] /\ t \in 0..MaxThreads
            BY <2>3, CustomersAssumption DEF CustomersInv
        <3> QED BY <1>4, <2>1, <3>1
    <2>9. /\ Said(t)' = Said(t) \cup {m}
          /\ \A s \in (1..MaxThreads) \ {t} : Said(s)' = Said(s)
        BY <2>7, <2>8 DEF Said
    <2>10. w.saw \in Nat /\ w.saw <= Cardinality(Said(t))
        <3>1. w.saw \in Nat
            BY <1>4, FS_CardinalityType, CustomersAssumption DEF Works
        <3>2. CASE w.thread = 0
            BY <1>1, <1>3, <1>4, <3>2, SaidIsFinite DEF WorkHolds
        <3>3. CASE w.thread # 0
            <4>1. threads[w.thread].row = "live" => w.saw <= Cardinality(Said(w.thread))
                BY <1>1, <1>3, <1>4, <3>3 DEF WorkHolds
            <4> QED BY <2>3, <3>1, <3>3, <4>1
        <3> QED BY <3>1, <3>2, <3>3
    <2>11. PICK unread : unread = w.saw + 1
        OBVIOUS
    <2>12. unread \in 0..Cardinality(Messages) /\ unread # 0 /\ unread <= Cardinality(Said(t)')
        <3>1. Cardinality(Said(t) \cup {m}) = Cardinality(Said(t)) + 1
            BY <2>7, SaidIsFinite, FS_AddElement
        <3>2. Cardinality(Said(t)') <= Cardinality(Messages) /\ Cardinality(Messages) \in Nat
            <4>1. Said(t)' \subseteq Messages
                BY DEF Said
            <4> QED BY <4>1, CustomersAssumption, FS_Subset, FS_CardinalityType
        <3>3. Cardinality(Said(t)) \in Nat
            BY SaidIsFinite
        <3> QED BY <2>9, <2>10, <2>11, <3>1, <3>2, <3>3
    <2>13. /\ DOMAIN threads' = 1..MaxThreads
           /\ threads'[t] \in ThreadRows /\ threads'[t].row = "live" /\ threads'[t].of = c
           /\ threads'[t].unread = unread
           /\ \A s \in (1..MaxThreads) \ {t} : threads'[s] = threads[s]
        <3>1. entry \in ThreadRows /\ entry.row = "live" /\ entry.of = c
            <4>1. CASE w.thread = 0
                <5>1. c \in 0..MaxCustomers /\ 0 \in 0..Cardinality(Messages)
                    BY <2>2, CustomersAssumption, FS_CardinalityType
                <5> QED BY <1>2, <4>1, <5>1 DEF NewThread, ThreadRows
            <4>2. CASE w.thread # 0
                BY <1>2, <2>3, <4>2 DEF ThreadHolds
            <4> QED BY <4>1, <4>2
        <3>2. PICK fresh : fresh = entry.fresh \cup {m}
            OBVIOUS
        <3>3. threads' = [threads EXCEPT ![t] = [entry EXCEPT !.unread = unread, !.fresh = fresh]]
            BY <2>1, <2>11, <3>2 DEF OneMore
        <3>4. fresh \in SUBSET Messages
            BY <3>1, <3>2 DEF ThreadRows
        <3>5. threads'[t] = [entry EXCEPT !.unread = unread, !.fresh = fresh]
            BY <1>4, <2>3, <3>3
        <3>6. /\ threads'[t] \in ThreadRows /\ threads'[t].row = "live" /\ threads'[t].of = c
              /\ threads'[t].unread = unread
            BY <2>12, <3>1, <3>4, <3>5 DEF ThreadRows
        <3> QED BY <1>4, <2>3, <3>3, <3>6
    <2>14. RowsGoOn /\ DeskGoesOn
        <3>1. \A s \in 1..MaxThreads : Said(s) \subseteq Said(s)'
            BY <2>9
        <3>2. \A e \in 1..MaxCustomers : /\ customers[e].row # "unused" => customers'[e].row # "unused"
                                         /\ Left(e) => Left(e)'
            BY <2>6 DEF Left
        <3>3. threads[t].row # "unused" => threads[t].row = "live" /\ threads[t].of = c
            BY <2>3
        <3> QED BY <2>1, <2>6, <2>13, <3>1, <3>2, <3>3 DEF RowsGoOn, DeskGoesOn, CustomersInv
    <2>15. Rows(customers') = Rows(customers) \cup {c} /\ Rows(threads') = Rows(threads) \cup {t}
        BY <1>4, <2>2, <2>3, <2>6, <2>13 DEF Rows
    <2>16. \A n \in Messages : WorkHolds(n)'
        <3>1. WorkHolds(m)'
            <4>1. PICK v : v = inbound'[m]
                OBVIOUS
            <4>2. v = [at |-> "done", customer |-> 0, thread |-> 0, renames |-> FALSE, saw |-> 0]
                BY <2>8, <4>1 DEF DueNow
            <4>3. v \in Works /\ v.at = "done" /\ v.customer = 0
                BY <4>2, CustomersAssumption, FS_CardinalityType DEF Works
            <4> QED BY <4>1, <4>3 DEF WorkHolds
        <3>2. ASSUME NEW n \in Messages \ {m} PROVE WorkHolds(n)'
            <4>1. inbound[n].at = "threaded" /\ inbound[n].thread = 0 /\ inbound[n].customer # 0 =>
                      inbound[n].customer \in Rows(customers')
                BY <2>15 DEF CustomersInv, WorkHolds
            <4>2. \A s \in 1..MaxThreads : threads[s].row = "live" => threads'[s].row = "live"
                BY <2>13
            <4>3. inbound[n].at = "threaded" /\ inbound[n].thread # 0 => inbound[n].thread \in 1..MaxThreads
                BY CustomersAssumption DEF CustomersInv, WorkHolds, Works
            <4> QED BY <2>8, <2>14, <4>1, <4>2, <4>3, WorkStays
        <3> QED BY <3>1, <3>2
    <2>17. \A n \in Messages : MessageHolds(n)'
        <3>1. MessageHolds(m)'
            <4>1. inbound'[m].at = "done"
                BY <2>8 DEF DueNow
            <4>2. m \notin forgotten'
                BY <2>1, <2>7
            <4>3. t \in Rows(threads') /\ t # 0
                BY <2>3, <2>13 DEF Rows
            <4> QED BY <2>8, <4>1, <4>2, <4>3 DEF MessageHolds
        <3>2. \A n \in Messages \ {m} : MessageHolds(n)'
            BY <2>1, <2>8, <2>15 DEF CustomersInv, MessageHolds
        <3> QED BY <3>1, <3>2
    <2>18. \A e \in 1..MaxCustomers : CustomerHolds(e)'
        <3>1. CustomerHolds(c)'
            BY <2>6 DEF CustomerHolds, Forgotten
        <3>2. ASSUME NEW e \in (1..MaxCustomers) \ {c} PROVE CustomerHolds(e)'
            <4>1. \A n \in Messages : inbound'[n].customer = e => inbound[n].customer = e
                BY <2>8 DEF DueNow
            <4>2. CustomerHolds(e) /\ customers'[e] = customers[e]
                BY <2>6 DEF CustomersInv
            <4> QED BY <4>1, <4>2, CustomerStays
        <3> QED BY <3>1, <3>2
    <2>19. \A s \in 1..MaxThreads : ThreadHolds(s)'
        <3>1. ThreadHolds(t)'
            BY <2>6, <2>12, <2>13, <2>15 DEF ThreadHolds, Forgotten
        <3>2. ASSUME NEW s \in (1..MaxThreads) \ {t} PROVE ThreadHolds(s)'
            <4>1. ThreadHolds(s) /\ threads'[s] = threads[s] /\ Said(s)' = Said(s)
                BY <2>9, <2>13 DEF CustomersInv
            <4>2. threads[s].row = "live" => threads[s].of \in Rows(customers') /\ threads[s].of \in 1..MaxCustomers
                BY <1>4, <2>15, <4>1 DEF ThreadHolds, Rows
            <4>3. threads[s].row = "live" /\ Forgotten(threads[s].of)' => Forgotten(threads[s].of)
                BY <2>6, <4>1, <4>2 DEF Forgotten
            <4> QED BY <4>1, <4>2, <4>3 DEF ThreadHolds, Forgotten
        <3> QED BY <3>1, <3>2
    <2>20. OneHolds'
        <3>1. m \notin Newcomers' /\ Newcomers' \subseteq Newcomers /\ Adding' = Adding
            BY <2>1, <2>8 DEF Newcomers, DueNow, Adding
        <3>2. CASE w.customer = 0
            <4>1. m \in Newcomers
                BY <1>1, <1>3, <3>2 DEF Newcomers
            <4>2. Known' \subseteq Known \cup {c}
                BY <1>4, <2>6 DEF Known, Rows
            <4> QED BY <1>4, <2>1, <3>1, <4>1, <4>2 DEF OneHolds
        <3>3. CASE w.customer # 0
            <4>1. Known' \subseteq Known
                BY <1>4, <2>2, <2>4, <2>6, <3>3 DEF Known, Rows
            <4> QED BY <1>4, <2>1, <3>1, <4>1, OneStays
        <3> QED BY <3>2, <3>3
    <2>21. \A d \in Desks : DeskHolds(d)'
        BY <2>14, DeskStays
    <2> QED BY <2>1, <2>6, <2>8, <2>13, <2>16, <2>17, <2>18, <2>19, <2>20, <2>21 DEF CustomersInv
<1> QED BY <1>3, <1>5, <1>6

-----------------------------------------------------------------------------
\* A new customer knows no thread and no worker yet.
LEMMA FinishAddKeeps ==
    ASSUME CustomersInv, NEW d \in Desks, FinishAdd(d)
    PROVE  CustomersInv'
<1>1. PICK c, new : c = NextRow(customers) /\ new = NewCustomer("given")
    OBVIOUS
<1>2. /\ desk[d].does = "add" /\ Unused(customers) # {} /\ DeskEnd(d) /\ DeskGoesOn
      /\ customers' = [customers EXCEPT ![c] = new]
      /\ UNCHANGED <<threads, keptIn, inbound, overlapped, forgotten>>
    BY <1>1, DeskEnds DEF FinishAdd
<1>3. /\ DOMAIN customers = 1..MaxCustomers /\ DOMAIN threads = 1..MaxThreads /\ DOMAIN desk = Desks /\ OneHolds
    BY DEF CustomersInv
<1>4. c \in 1..MaxCustomers /\ customers[c].row = "unused"
    BY <1>1, <1>2, <1>3, NextRowIsUnused, CustomersAssumption DEF Unused
<1>5. new \in CustomerRows /\ new.row = "live" /\ new.known /\ ~new.late
    BY <1>1 DEF NewCustomer, CustomerRows
<1>6. /\ DOMAIN customers' = 1..MaxCustomers /\ customers'[c] = new
      /\ \A e \in (1..MaxCustomers) \ {c} : customers'[e] = customers[e]
    BY <1>2, <1>3, <1>4
<1>7. RowsGoOn
    <2>1. ~Left(c)
        BY <1>4 DEF Left, CustomersInv, CustomerHolds
    <2> QED BY <1>2, <1>3, <1>5, <1>6, <2>1 DEF RowsGoOn, Said, Left
<1>8. (\A e \in Desks : DeskHolds(e)') /\ Adding' \subseteq Adding
    BY <1>2, <1>7, DeskStays
<1>9. \A m \in Messages : WorkHolds(m)'
    <2> SUFFICES ASSUME NEW m \in Messages PROVE WorkHolds(m)'
        OBVIOUS
    <2>1. Rows(customers) \subseteq Rows(customers')
        BY <1>3, <1>5, <1>6 DEF Rows
    <2>2. inbound[m].at = "threaded" /\ inbound[m].thread = 0 /\ inbound[m].customer # 0 =>
              inbound[m].customer \in Rows(customers')
        BY <2>1 DEF CustomersInv, WorkHolds
    <2> QED BY <1>2, <1>7, <2>2, WorkStays
<1>10. \A m \in Messages : MessageHolds(m)'
    BY <1>2 DEF CustomersInv, MessageHolds
<1>11. \A e \in 1..MaxCustomers : CustomerHolds(e)'
    <2>1. CustomerHolds(c)'
        BY <1>5, <1>6 DEF CustomerHolds, Forgotten
    <2>2. ASSUME NEW e \in (1..MaxCustomers) \ {c} PROVE CustomerHolds(e)'
        <3>1. CustomerHolds(e) /\ customers'[e] = customers[e]
            BY <1>6 DEF CustomersInv
        <3> QED BY <1>2, <3>1, CustomerStays
    <2> QED BY <2>1, <2>2
<1>12. \A t \in 1..MaxThreads : ThreadHolds(t)'
    <2> SUFFICES ASSUME NEW t \in 1..MaxThreads PROVE ThreadHolds(t)'
        OBVIOUS
    <2>1. threads[t].row = "live" => threads[t].of \in 1..MaxCustomers /\ threads[t].of # c
        BY <1>3, <1>4 DEF CustomersInv, ThreadHolds, Rows
    <2>2. threads[t].row = "live" => customers'[threads[t].of] = customers[threads[t].of]
        BY <1>6, <2>1
    <2>3. Said(t)' = Said(t) /\ threads'[t] = threads[t]
        BY <1>2 DEF Said
    <2> QED BY <1>6, <2>2, <2>3, ThreadStays
<1>13. OneHolds'
    <2>1. d \in Adding /\ Newcomers' = Newcomers
        BY <1>2 DEF Adding, Newcomers
    <2>2. d \notin Adding'
        BY <1>2, <1>3 DEF Adding, DeskEnd, DeskIdle
    <2>3. Known' \subseteq Known \cup {c}
        BY <1>3, <1>6 DEF Known, Rows
    <2> QED BY <1>2, <1>3, <1>8, <2>1, <2>2, <2>3 DEF OneHolds
<1> QED BY <1>2, <1>6, <1>8, <1>9, <1>10, <1>11, <1>12, <1>13 DEF CustomersInv, DeskGoesOn

Swept(gone) ==
    /\ threads' = [t \in DOMAIN threads |-> IF t \in gone THEN [threads[t] EXCEPT !.row = "gone"] ELSE threads[t]]
    /\ keptIn' = [m \in Messages |-> IF keptIn[m] \in gone THEN 0 ELSE keptIn[m]]
    /\ forgotten' = forgotten \cup {m \in Messages : keptIn[m] \in gone}

\* Some customers are deleted or struck out, and their threads go with what was said.
LEMMA SweepKeeps ==
    ASSUME CustomersInv, NEW S \in SUBSET (1..MaxCustomers), NEW gone,
           gone = {t \in Rows(threads) : threads[t].of \in S},
           DOMAIN customers' = 1..MaxCustomers,
           \A c \in (1..MaxCustomers) \ S : customers'[c] = customers[c],
           \A c \in S : CustomerHolds(c)' /\ customers'[c].row # "unused" /\ ~customers'[c].known,
           Swept(gone), UNCHANGED <<inbound, overlapped>>, DeskGoesOn,
           \A m \in Messages : inbound[m].at = "threaded" /\ inbound[m].thread = 0 /\ inbound[m].customer \in S =>
               inbound[m].customer \in Rows(customers'),
           \A c \in S : Left(c) \/ (\E m \in Messages : inbound[m].customer = c) => Left(c)'
    PROVE  CustomersInv'
<1>1. /\ DOMAIN customers = 1..MaxCustomers /\ DOMAIN threads = 1..MaxThreads /\ DOMAIN desk = Desks /\ OneHolds
      /\ DOMAIN inbound = Messages /\ forgotten \subseteq Messages /\ overlapped \in BOOLEAN
    BY DEF CustomersInv
<1>0. /\ threads' = [t \in DOMAIN threads |-> IF t \in gone THEN [threads[t] EXCEPT !.row = "gone"] ELSE threads[t]]
      /\ keptIn' = [m \in Messages |-> IF keptIn[m] \in gone THEN 0 ELSE keptIn[m]]
      /\ forgotten' = forgotten \cup {m \in Messages : keptIn[m] \in gone}
    BY DEF Swept
<1>2. gone \subseteq 1..MaxThreads /\ 0 \notin gone
    BY <1>1 DEF Rows
<1>3. \A t \in 1..MaxThreads : t \notin gone => threads'[t] = threads[t] /\ Said(t)' = Said(t)
    <2> SUFFICES ASSUME NEW t \in 1..MaxThreads, t \notin gone
        PROVE  threads'[t] = threads[t] /\ Said(t)' = Said(t)
        OBVIOUS
    <2>1. \A m \in Messages : keptIn'[m] = t <=> keptIn[m] = t
        BY <1>0, <1>2
    <2> QED BY <1>0, <1>1, <2>1 DEF Said
<1>4. \A t \in gone : threads[t].row = "live" /\ threads'[t] = [threads[t] EXCEPT !.row = "gone"]
    BY <1>0, <1>1 DEF Rows
<1>5. \A t \in gone : /\ threads[t] \in ThreadRows /\ threads'[t] \in ThreadRows
                      /\ threads'[t].row = "gone" /\ threads'[t].of = threads[t].of
    <2> SUFFICES ASSUME NEW t \in gone
        PROVE  /\ threads[t] \in ThreadRows /\ threads'[t] \in ThreadRows
               /\ threads'[t].row = "gone" /\ threads'[t].of = threads[t].of
        OBVIOUS
    <2>1. threads[t] \in ThreadRows
        BY <1>2 DEF CustomersInv, ThreadHolds
    <2>2. PICK old : old = threads[t]
        OBVIOUS
    <2>3. old \in ThreadRows /\ threads'[t] = [old EXCEPT !.row = "gone"]
        BY <1>4, <2>1, <2>2
    <2> QED BY <2>2, <2>3 DEF ThreadRows
<1>6. DOMAIN threads' = 1..MaxThreads /\ keptIn' \in [Messages -> 0..MaxThreads]
    BY <1>0, <1>1, CustomersAssumption DEF CustomersInv
<1>7. RowsGoOn
    <2>1. \A c \in 1..MaxCustomers : /\ customers[c].row # "unused" => customers'[c].row # "unused"
                                     /\ Left(c) => Left(c)'
        BY DEF Left
    <2>2. ASSUME NEW t \in 1..MaxThreads, threads[t].row # "unused"
          PROVE  /\ threads'[t].row # "unused" /\ threads'[t].of = threads[t].of
                 /\ threads'[t].row = "live" => threads[t].row = "live" /\ Said(t) \subseteq Said(t)'
        <3>1. CASE t \in gone
            BY <1>5, <3>1
        <3>2. CASE t \notin gone
            BY <1>3, <2>2, <3>2
        <3> QED BY <3>1, <3>2
    <2> QED BY <1>6, <2>1, <2>2 DEF RowsGoOn
<1>8. (\A d \in Desks : DeskHolds(d)') /\ Adding' \subseteq Adding
    BY <1>7, DeskStays
<1>9. \A m \in Messages : WorkHolds(m)'
    <2> SUFFICES ASSUME NEW m \in Messages PROVE WorkHolds(m)'
        OBVIOUS
    <2>1. inbound[m].at = "threaded" /\ inbound[m].thread = 0 /\ inbound[m].customer # 0 =>
              inbound[m].customer \in Rows(customers)
        BY DEF CustomersInv, WorkHolds
    <2>2. inbound[m].at = "threaded" /\ inbound[m].thread = 0 /\ inbound[m].customer # 0 =>
              inbound[m].customer \in Rows(customers')
        <3>1. CASE inbound[m].customer \in S
            BY <3>1
        <3>2. CASE inbound[m].customer \notin S
            BY <1>1, <2>1, <3>2 DEF Rows
        <3> QED BY <3>1, <3>2
    <2>3. inbound[m].at = "threaded" /\ inbound[m].thread # 0 /\ threads[inbound[m].thread].row = "live" =>
              threads'[inbound[m].thread].row = "live" \/ Left(inbound[m].customer)'
        <3> SUFFICES ASSUME inbound[m].at = "threaded", inbound[m].thread # 0,
                            threads[inbound[m].thread].row = "live",
                            threads'[inbound[m].thread].row # "live"
            PROVE  Left(inbound[m].customer)'
            OBVIOUS
        <3>1. inbound[m].thread \in 1..MaxThreads /\ threads[inbound[m].thread].of = inbound[m].customer
            BY CustomersAssumption DEF CustomersInv, WorkHolds, Works
        <3>2. inbound[m].thread \in gone
            BY <1>3, <3>1
        <3> QED BY <3>1, <3>2
    <2> QED BY <1>7, <2>2, <2>3, WorkStays
<1>10. \A m \in Messages : MessageHolds(m)'
    <2> SUFFICES ASSUME NEW m \in Messages PROVE MessageHolds(m)'
        OBVIOUS
    <2>1. MessageHolds(m)
        BY DEF CustomersInv
    <2>2. CASE keptIn[m] \in gone
        <3>1. keptIn'[m] = 0 /\ m \in forgotten' /\ keptIn[m] # 0
            BY <1>0, <1>2, <2>2
        <3> QED BY <2>1, <3>1 DEF MessageHolds
    <2>3. CASE keptIn[m] \notin gone
        <3>1. keptIn'[m] = keptIn[m] /\ (m \in forgotten' <=> m \in forgotten)
            BY <1>0, <2>3
        <3>2. keptIn[m] \in Rows(threads) => keptIn[m] \in Rows(threads')
            BY <1>1, <1>3, <1>6, <2>3 DEF Rows
        <3> QED BY <2>1, <3>1, <3>2 DEF MessageHolds
    <2> QED BY <2>2, <2>3
<1>11. \A c \in 1..MaxCustomers : CustomerHolds(c)'
    <2> SUFFICES ASSUME NEW c \in (1..MaxCustomers) \ S PROVE CustomerHolds(c)'
        OBVIOUS
    <2>1. CustomerHolds(c) /\ customers'[c] = customers[c]
        BY DEF CustomersInv
    <2> QED BY <2>1, CustomerStays
<1>12. \A t \in 1..MaxThreads : ThreadHolds(t)'
    <2> SUFFICES ASSUME NEW t \in 1..MaxThreads PROVE ThreadHolds(t)'
        OBVIOUS
    <2>1. CASE t \in gone
        BY <1>5, <2>1 DEF ThreadHolds
    <2>2. CASE t \notin gone
        <3>1. threads[t].row = "live" => threads[t].of \in (1..MaxCustomers) \ S
            BY <1>1, <2>2 DEF CustomersInv, ThreadHolds, Rows
        <3>2. threads[t].row = "live" => customers'[threads[t].of] = customers[threads[t].of]
            BY <3>1
        <3>3. threads'[t] = threads[t] /\ Said(t)' = Said(t)
            BY <1>3, <2>2
        <3> QED BY <3>2, <3>3, ThreadStays
    <2> QED BY <2>1, <2>2
<1>13. OneHolds'
    <2>1. Known' \subseteq Known
        BY <1>1 DEF Known, Rows
    <2>2. Newcomers' \subseteq Newcomers
        BY DEF Newcomers
    <2> QED BY <1>1, <1>8, <2>1, <2>2, OneStays
<1>14. forgotten' \subseteq Messages
    BY <1>0, <1>1
<1>15. DOMAIN desk' = Desks
    BY DEF DeskGoesOn
<1> QED BY <1>1, <1>6, <1>8, <1>9, <1>10, <1>11, <1>12, <1>13, <1>14, <1>15 DEF CustomersInv

LEMMA FinishDeleteKeeps ==
    ASSUME CustomersInv, NEW d \in Desks, FinishDelete(d)
    PROVE  CustomersInv'
<1>1. PICK c, gone : c = desk[d].of /\ gone = ThreadsOf(c)
    OBVIOUS
<1>2. /\ desk[d].does = "delete" /\ ~Pinned(c) /\ DeskGoesOn
      /\ customers' = [customers EXCEPT ![c].row = "gone", ![c].known = FALSE]
      /\ Swept(gone) /\ UNCHANGED <<inbound, overlapped>>
    BY <1>1, DeskEnds DEF FinishDelete, Swept
<1>3. DOMAIN customers = 1..MaxCustomers /\ c \in 1..MaxCustomers /\ customers[c] \in CustomerRows
    BY <1>1, <1>2 DEF CustomersInv, DeskHolds, CustomerHolds
<1>4. PICK old : old = customers[c]
    OBVIOUS
<1>5. customers' = [customers EXCEPT ![c] = [old EXCEPT !.row = "gone", !.known = FALSE]]
    BY <1>2, <1>3, <1>4
<1>6. /\ DOMAIN customers' = 1..MaxCustomers
      /\ customers'[c] = [old EXCEPT !.row = "gone", !.known = FALSE]
      /\ \A e \in (1..MaxCustomers) \ {c} : customers'[e] = customers[e]
    BY <1>3, <1>5
<1>7. customers'[c] \in CustomerRows /\ customers'[c].row = "gone" /\ ~customers'[c].known
    BY <1>3, <1>4, <1>6 DEF CustomerRows
<1>8. CustomerHolds(c)'
    BY <1>7 DEF CustomerHolds, Forgotten
<1>9. gone = {t \in Rows(threads) : threads[t].of \in {c}}
    BY <1>1 DEF ThreadsOf
<1>10. \A m \in Messages : inbound[m].at = "threaded" /\ inbound[m].thread = 0 => inbound[m].customer \notin {c}
    BY <1>2 DEF Pinned, Pins
<1>11. {c} \in SUBSET (1..MaxCustomers)
    BY <1>3
<1>12. \A e \in {c} : CustomerHolds(e)' /\ customers'[e].row # "unused" /\ ~customers'[e].known
    BY <1>7, <1>8
<1>13. \A e \in {c} : Left(e) \/ (\E m \in Messages : inbound[m].customer = e) => Left(e)'
    BY <1>7 DEF Left
<1> QED BY <1>2, <1>6, <1>9, <1>10, <1>11, <1>12, <1>13, SweepKeeps

LEMMA EraseKeeps ==
    ASSUME CustomersInv, Erase
    PROVE  CustomersInv'
<1>1. PICK gone, tied : /\ gone = UNION {ThreadsOf(c) : c \in Erased}
                        /\ tied = {c \in Erased : \E m \in Messages : inbound[m].customer = c}
    OBVIOUS
<1>2. /\ customers' = [c \in DOMAIN customers |->
             IF c \notin Erased THEN customers[c]
             ELSE [customers[c] EXCEPT !.known = FALSE, !.name = "anonymous", !.late = c \in tied]]
      /\ threads' = [t \in DOMAIN threads |-> IF t \in gone THEN [threads[t] EXCEPT !.row = "gone"] ELSE threads[t]]
      /\ forgotten' = forgotten \cup {m \in Messages : keptIn[m] # 0 /\ threads[keptIn[m]].of \in Known}
      /\ keptIn' = [m \in Messages |-> IF keptIn[m] \in gone THEN 0 ELSE keptIn[m]]
      /\ UNCHANGED <<inbound, desk, overlapped>>
    BY <1>1 DEF Erase
<1>3. /\ DOMAIN customers = 1..MaxCustomers /\ DOMAIN threads = 1..MaxThreads /\ DOMAIN desk = Desks
      /\ Erased = Known /\ Known \in SUBSET (1..MaxCustomers)
    BY DEF CustomersInv, Erased, Known, Rows
<1>4. gone = {t \in Rows(threads) : threads[t].of \in Known}
    BY <1>1, <1>3 DEF ThreadsOf
<1>5. Swept(gone)
    <2>1. ASSUME NEW m \in Messages
          PROVE  keptIn[m] \in gone <=> (keptIn[m] # 0 /\ threads[keptIn[m]].of \in Known)
        <3>1. keptIn[m] \in {0} \cup Rows(threads) /\ 0 \notin Rows(threads)
            BY <1>3 DEF CustomersInv, MessageHolds, Rows
        <3> QED BY <1>4, <3>1
    <2>2. {m \in Messages : keptIn[m] # 0 /\ threads[keptIn[m]].of \in Known} = {m \in Messages : keptIn[m] \in gone}
        BY <2>1
    <2> QED BY <1>2, <2>2 DEF Swept
<1>6. DOMAIN customers' = 1..MaxCustomers /\ \A c \in (1..MaxCustomers) \ Known : customers'[c] = customers[c]
    BY <1>2, <1>3
<1>7. ASSUME NEW c \in Known
      PROVE  /\ CustomerHolds(c)' /\ customers'[c].row = "live" /\ ~customers'[c].known
             /\ ~Left(c) /\ \A m \in Messages : inbound[m].customer = c => Left(c)'
    <2>1. c \in 1..MaxCustomers /\ customers[c] \in CustomerRows /\ customers[c].row = "live"
          /\ ~customers[c].late
        BY <1>3 DEF CustomersInv, CustomerHolds, Known, Rows
    <2>2. PICK late : late = (c \in tied)
        OBVIOUS
    <2>0. late \in BOOLEAN /\ late = (c \in tied)
        BY <2>2
    <2>7. PICK old : old = customers[c]
        OBVIOUS
    <2>3. late \/ \A m \in Messages : inbound[m].customer # c
        BY <1>1, <1>3, <1>7, <2>0
    <2>4. customers'[c] = [old EXCEPT !.known = FALSE, !.name = "anonymous", !.late = late]
        BY <1>2, <1>3, <1>7, <2>0, <2>1, <2>7
    <2>5. /\ customers'[c] \in CustomerRows /\ customers'[c].row = "live" /\ ~customers'[c].known
          /\ customers'[c].name = "anonymous" /\ customers'[c].late = late
        BY <2>0, <2>1, <2>7, <2>4 DEF CustomerRows
    <2>6. ~late => \A m \in Messages : inbound'[m].customer # c
        BY <1>2, <2>3
    <2>8. ~Left(c) /\ (late => Left(c)')
        BY <2>1, <2>5 DEF Left
    <2> QED BY <2>3, <2>5, <2>6, <2>8 DEF CustomerHolds, Forgotten
<1>8. \A m \in Messages : inbound[m].customer \in Known => inbound[m].customer \in Rows(customers')
    BY <1>3, <1>6, <1>7 DEF Rows
<1>9. DeskGoesOn
    BY <1>2, <1>3 DEF DeskGoesOn
<1>10. \A c \in Known : CustomerHolds(c)' /\ customers'[c].row # "unused" /\ ~customers'[c].known
    BY <1>7
<1>11. \A c \in Known : Left(c) \/ (\E m \in Messages : inbound[m].customer = c) => Left(c)'
    BY <1>7
<1> QED BY <1>2, <1>3, <1>4, <1>5, <1>6, <1>8, <1>9, <1>10, <1>11, SweepKeeps

-----------------------------------------------------------------------------
LEMMA CustomersStart == CustomersInit => CustomersInv
<1> SUFFICES ASSUME CustomersInit PROVE CustomersInv
    OBVIOUS
<1>1. \A c \in 1..MaxCustomers : CustomerHolds(c) /\ customers[c].row = "unused"
    BY DEF CustomersInit, CustomerHolds, CustomerRows, Forgotten, NewCustomer
<1>2. \A t \in 1..MaxThreads : ThreadHolds(t)
    <2>1. 0 \in 0..MaxCustomers /\ 0 \in 0..Cardinality(Messages)
        BY CustomersAssumption, FS_CardinalityType
    <2>2. \A t \in 1..MaxThreads :
              threads[t] = [row |-> "unused", of |-> 0, channel |-> FALSE, open |-> TRUE, unread |-> 0, fresh |-> {}]
        BY DEF CustomersInit, NewThread
    <2>3. [row |-> "unused", of |-> 0, channel |-> FALSE, open |-> TRUE, unread |-> 0, fresh |-> {}] \in ThreadRows
        BY <2>1 DEF ThreadRows
    <2> QED BY <2>2, <2>3 DEF ThreadHolds
<1>3. \A m \in Messages : WorkHolds(m) /\ MessageHolds(m) /\ inbound[m].at = "due"
    BY CustomersAssumption, FS_CardinalityType DEF CustomersInit, WorkHolds, MessageHolds, Works, DueNow
<1>4. \A d \in Desks : DeskHolds(d) /\ desk[d].does = "nothing"
    BY DEF CustomersInit, DeskHolds, DeskIdle, DeskRows
<1>5. Known = {} /\ Newcomers = {} /\ Adding = {}
    BY <1>1, <1>3, <1>4 DEF CustomersInit, Known, Rows, Newcomers, Adding
<1>6. OneHolds
    BY <1>5 DEF OneHolds
<1>7. keptIn \in [Messages -> 0..MaxThreads]
    <2>1. 0 \in 0..MaxThreads
        BY CustomersAssumption
    <2> QED BY <2>1 DEF CustomersInit
<1>8. overlapped \in BOOLEAN
    BY DEF CustomersInit
<1> QED BY <1>1, <1>2, <1>3, <1>4, <1>6, <1>7, <1>8 DEF CustomersInit, CustomersInv

LEMMA CustomersStep == CustomersInv /\ [CustomersNext]_customersVars => CustomersInv'
<1> SUFFICES ASSUME CustomersInv, [CustomersNext]_customersVars PROVE CustomersInv'
    OBVIOUS
<1>1. CASE InboundNext
    BY <1>1, FindKeeps, FindThreadKeeps, StoreKeeps DEF InboundNext
<1>2. CASE PeopleDeskNext
    BY <1>2, DeskStartsKeep, FinishAddKeeps, FinishDeleteKeeps DEF PeopleDeskNext
<1>3. CASE ThreadDeskNext
    BY <1>3, DeskStartsKeep, SeveralThreadSteps DEF ThreadDeskNext
<1>4. CASE Erase
    BY <1>4, EraseKeeps
<1>5. CASE UNCHANGED customersVars
    <2>1. DeskGoesOn
        BY <1>5 DEF customersVars, DeskGoesOn, CustomersInv
    <2> QED BY <1>5, <2>1, NothingCommitted DEF customersVars
<1> QED BY <1>1, <1>2, <1>3, <1>4, <1>5 DEF CustomersNext

LEMMA CustomersInvariant == CustomersSpec => []CustomersInv
<1> QED BY CustomersStart, CustomersStep, PTL DEF CustomersSpec

(* Every row keeps its type, for any number of messages, staff and rows.      *)
THEOREM CustomersTyped == CustomersSpec => []CustomersTypeOK
<1>1. CustomersInv => CustomersTypeOK
    <2> SUFFICES ASSUME CustomersInv PROVE CustomersTypeOK
        OBVIOUS
    <2>1. \A c \in DOMAIN customers : customers[c] \in CustomerRows
        BY DEF CustomersInv, CustomerHolds
    <2>2. \A t \in DOMAIN threads : threads[t].of \in 0..MaxCustomers /\ threads[t].unread \in 0..Cardinality(Messages)
        BY DEF CustomersInv, ThreadHolds, ThreadRows
    <2>3. keptIn \in [Messages -> 0..MaxThreads] /\ forgotten \subseteq Messages
        BY DEF CustomersInv
    <2> QED BY <2>1, <2>2, <2>3 DEF CustomersTypeOK, CustomerRows
<1> QED BY <1>1, CustomersInvariant, PTL

(* One person is one customer but for an overlap, what was stored is kept     *)
(* until the person is forgotten and what was not is of a customer who left   *)
(* while its worker ran, the forgotten stay so, and unread counts tell,       *)
(* whatever the workers, the staff and the person do meanwhile.               *)
THEOREM PeopleAreAlwaysKept == CustomersSpec => []PeopleAreKept
<1>1. CustomersInv => PeopleAreKept
    <2> SUFFICES ASSUME CustomersInv PROVE PeopleAreKept
        OBVIOUS
    <2>0. DOMAIN customers = 1..MaxCustomers /\ DOMAIN threads = 1..MaxThreads
        BY DEF CustomersInv
    <2>1. OnePersonOneCustomer
        <3> SUFFICES ASSUME ~overlapped PROVE Cardinality(Known) <= 1
            BY DEF OnePersonOneCustomer
        <3>1. CASE Known = {}
            <4>1. Cardinality(Known) = 0
                BY <3>1, FS_EmptySet
            <4> QED BY <4>1
        <3>2. CASE Known # {}
            <4>1. PICK c \in Known : Known = {c}
                BY <3>2 DEF CustomersInv, OneHolds
            <4>2. Cardinality(Known) = 1
                BY <4>1, FS_Singleton
            <4> QED BY <4>2
        <3> QED BY <3>1, <3>2
    <2>2. HandledIsKept
        <3>0. \A m \in Messages : inbound[m].at = "lost" => Left(inbound[m].customer)
            BY DEF CustomersInv, WorkHolds
        <3> SUFFICES ASSUME NEW m \in Messages, inbound[m].at = "done", m \notin forgotten
            PROVE  keptIn[m] \in Rows(threads) /\ threads[keptIn[m]].of \in Rows(customers)
            BY <3>0 DEF HandledIsKept
        <3>1. keptIn[m] \in Rows(threads)
            BY DEF CustomersInv, MessageHolds
        <3>2. keptIn[m] \in 1..MaxThreads /\ threads[keptIn[m]].row = "live"
            BY <2>0, <3>1 DEF Rows
        <3> QED BY <3>1, <3>2 DEF CustomersInv, ThreadHolds
    <2>3. ForgottenStaysSo
        <3>1. \A m \in forgotten : keptIn[m] = 0
            BY DEF CustomersInv, MessageHolds
        <3>2. ASSUME NEW c \in Rows(customers), ~customers[c].known, ~customers[c].late
              PROVE  (\A t \in ThreadsOf(c) : Said(t) = {}) /\ customers[c].name = "anonymous"
            <4>1. c \in 1..MaxCustomers /\ Forgotten(c)
                BY <2>0, <3>2 DEF Rows, Forgotten
            <4>2. customers[c].name = "anonymous"
                BY <4>1 DEF CustomersInv, CustomerHolds
            <4>3. ASSUME NEW t \in ThreadsOf(c) PROVE Said(t) = {}
                <5>1. t \in 1..MaxThreads /\ threads[t].row = "live" /\ threads[t].of = c
                    BY <2>0 DEF ThreadsOf, Rows
                <5> QED BY <4>1, <5>1 DEF CustomersInv, ThreadHolds
            <4> QED BY <4>2, <4>3
        <3> QED BY <3>1, <3>2 DEF ForgottenStaysSo
    <2>4. UnreadTells
        BY <2>0 DEF UnreadTells, CustomersInv, ThreadHolds, Rows
    <2> QED BY <2>1, <2>2, <2>3, <2>4 DEF PeopleAreKept
<1> QED BY <1>1, CustomersInvariant, PTL

-----------------------------------------------------------------------------
(* Customer updates.  Notices implements Told, for any number of jobs,        *)
(* attempts and failures.                                                     *)
(*                                                                            *)
(* What carries it: one job at a time holds the order, its news is true and   *)
(* not recorded, and the customer heard an event once for its record, once    *)
(* for each record lost, and once if it is on its way to being recorded.      *)

JobType == [event : Events \cup {"none"},
            at    : {"absent", "waiting", "sending", "sent", "done", "failed"},
            tries : Nat]

NoticesTypeOK ==
    /\ notified \subseteq Events
    /\ paid \in BOOLEAN
    /\ job \in [Jobs -> JobType]
    /\ heard \in [Events -> Nat] /\ lost \in [Events -> Nat]

OneHolder == \A i, j \in InHand : i = j

JobsName == \A j \in Jobs :
    job[j].at # "absent" => job[j].event \in Events /\ (job[j].event = "paid" => paid)

HeldIsNews == \A j \in InHand : job[j].event \in Facts \ notified

Unrecorded(e) == \E j \in Jobs : job[j].at = "sent" /\ job[j].event = e

HeardOnce == \A e \in Events :
    heard[e] = lost[e] + (IF e \in notified \/ Unrecorded(e) THEN 1 ELSE 0)

NoticesInv == NoticesTypeOK /\ OneHolder /\ JobsName /\ HeldIsNews /\ HeardOnce

\* A step is a step of Told or changes nothing Told speaks of.
MappedStep == [Promise!ToldNext]_(Promise!toldVars)

-----------------------------------------------------------------------------
LEMMA NoticesStart == NoticesInit => NoticesInv /\ Promise!ToldInit
<1> SUFFICES ASSUME NoticesInit PROVE NoticesInv /\ Promise!ToldInit
    OBVIOUS
<1> USE DEF NoticesInit
<1>1. Facts = {}
    BY DEF Facts, StatusEvents, Events
<1>2. NoticesTypeOK
    BY DEF NoticesTypeOK, JobType, NoJob
<1>3. \A j \in Jobs : job[j].at = "absent"
    BY DEF NoJob
<1>4. OneHolder /\ JobsName /\ HeldIsNews
    BY <1>3 DEF OneHolder, InHand, JobsName, HeldIsNews
<1>5. HeardOnce
    BY <1>3 DEF HeardOnce, Unrecorded
<1>6. Promise!ToldInit
    BY <1>1 DEF Promise!ToldInit
<1> QED BY <1>2, <1>4, <1>5, <1>6 DEF NoticesInv

(* Announcing queues one job in place of one that was not there, or none.     *)
LEMMA AnnounceQueues ==
    ASSUME NoticesInv, OrderFree, NEW e, Announce(e), e = "paid" => paid'
    PROVE  /\ job' \in [Jobs -> JobType]
           /\ \A j \in Jobs : \/ job'[j] = job[j]
                              \/ /\ job'[j].at = "waiting" /\ job'[j].event \in Events
                                 /\ job'[j].event = "paid" => paid'
<1> USE DEF NoticesInv, NoticesTypeOK
<1>1. CASE e \in Events \ notified /\ wanted
    <2>1. PICK i \in Jobs :
            job' = [job EXCEPT ![i] = [event |-> e, at |-> "waiting", tries |-> 0]]
        BY <1>1 DEF Announce
    <2>2. [event |-> e, at |-> "waiting", tries |-> 0] \in JobType
        BY <1>1 DEF JobType
    <2> QED BY <1>1, <2>1, <2>2
<1>2. CASE ~(e \in Events \ notified /\ wanted)
    BY <1>2 DEF Announce
<1> QED BY <1>1, <1>2

(* While nobody holds the order, it may change and jobs may be queued.        *)
LEMMA OrderMoves ==
    ASSUME NoticesInv, OrderFree, UNCHANGED <<notified, heard, lost>>,
           paid' \in BOOLEAN, paid => paid',
           job' \in [Jobs -> JobType],
           \A j \in Jobs : \/ job'[j] = job[j]
                           \/ /\ job'[j].at \in {"waiting", "done"} /\ job'[j].event \in Events
                              /\ job'[j].event = "paid" => paid'
    PROVE  NoticesInv' /\ MappedStep
<1> USE DEF NoticesInv, NoticesTypeOK
<1>1. \A j \in Jobs : job[j].at \notin {"sending", "sent"} /\ job'[j].at \notin {"sending", "sent"}
    BY DEF OrderFree, InHand
<1>2. NoticesTypeOK' /\ OneHolder' /\ HeldIsNews'
    BY <1>1 DEF OneHolder, HeldIsNews, InHand
<1>3. JobsName'
    BY DEF JobsName
<1>4. HeardOnce'
    BY <1>1 DEF HeardOnce, Unrecorded
<1>5. MappedStep
    BY DEF MappedStep, Promise!ToldNext, Promise!OrderChanges, Facts
<1> QED BY <1>2, <1>3, <1>4, <1>5

LEMMA NextImplements == NoticesInv /\ [NoticesNext]_noticeVars => NoticesInv' /\ MappedStep
<1> SUFFICES ASSUME NoticesInv, [NoticesNext]_noticeVars PROVE NoticesInv' /\ MappedStep
    OBVIOUS
<1> DEFINE Goal == NoticesInv' /\ MappedStep
<1> SUFFICES Goal
    OBVIOUS
<1> HIDE DEF Goal
<1> USE DEF NoticesInv
<1>1. ASSUME NEW new \in {"pending", "confirmed", "shipped"}, NEW tell \in BOOLEAN,
             ChangeStatus(new, tell)
      PROVE  Goal
    <2>1. /\ OrderFree /\ UNCHANGED <<notified, heard, lost, paid>>
          /\ Announce(new) \/ UNCHANGED job
        BY <1>1 DEF ChangeStatus
    <2>2. CASE Announce(new)
        BY <2>1, <2>2, AnnounceQueues, OrderMoves DEF Goal, NoticesTypeOK
    <2>3. CASE UNCHANGED job
        BY <2>1, <2>3, OrderMoves DEF Goal, NoticesTypeOK
    <2> QED BY <2>1, <2>2, <2>3
<1>2. CASE Pay
    <2>1. OrderFree /\ paid' = TRUE /\ Announce("paid") /\ UNCHANGED <<notified, heard, lost>>
        BY <1>2 DEF Pay
    <2> QED BY <2>1, AnnounceQueues, OrderMoves DEF Goal
<1>3. CASE Configure \/ UNCHANGED noticeVars
    <2>1. UNCHANGED <<status, paid, notified, job, heard, lost>>
        BY <1>3 DEF Configure, noticeVars
    <2> QED BY <2>1 DEF Goal, NoticesTypeOK, OneHolder, InHand, JobsName, HeldIsNews, HeardOnce,
                        Unrecorded, Facts, MappedStep, Promise!toldVars
<1>4. ASSUME NEW j \in Jobs, Deliver(j) PROVE Goal
    <2>1. /\ job[j].at = "waiting" /\ OrderFree
          /\ UNCHANGED <<status, paid, notified, heard, lost>>
          /\ job[j] \in JobType
        BY <1>4 DEF Deliver, shop, NoticesTypeOK
    <2>2. /\ job' \in [Jobs -> JobType]
          /\ \A i \in Jobs : i # j => job'[i] = job[i]
          /\ job'[j].event = job[j].event
          /\ job'[j].at = IF Due(job[j].event) THEN "sending" ELSE "done"
        BY <1>4, <2>1 DEF Deliver, NoticesTypeOK, JobType
    <2>3. job[j].event \in Events /\ (job[j].event = "paid" => paid)
        BY <2>1 DEF JobsName
    <2>4. CASE ~Due(job[j].event)
        BY <2>1, <2>2, <2>3, <2>4, OrderMoves DEF Goal, NoticesTypeOK
    <2>5. CASE Due(job[j].event)
        <3>1. job[j].event \in Facts \ notified
            BY <2>3, <2>5 DEF Due, Still, Facts, Events
        <3>2. \A i \in Jobs : job[i].at \notin {"sending", "sent"}
            BY <2>1 DEF OrderFree, InHand
        <3>3. NoticesTypeOK' /\ OneHolder' /\ JobsName' /\ HeldIsNews'
            BY <2>1, <2>2, <2>3, <2>5, <3>1, <3>2
            DEF NoticesTypeOK, OneHolder, JobsName, HeldIsNews, InHand, Facts
        <3>4. HeardOnce'
            BY <2>1, <2>2, <2>5, <3>2 DEF HeardOnce, Unrecorded
        <3>5. MappedStep
            BY <2>1 DEF MappedStep, Promise!toldVars, Facts
        <3> QED BY <3>3, <3>4, <3>5 DEF Goal
    <2> QED BY <2>4, <2>5
<1>5. ASSUME NEW j \in Jobs, PlatformAccepts(j) PROVE Goal
    <2> DEFINE e == job[j].event
    <2>1. /\ j \in InHand /\ job[j].at = "sending" /\ job[j] \in JobType
          /\ UNCHANGED <<status, paid, notified, lost>>
          /\ heard' = [heard EXCEPT ![e] = @ + 1]
        BY <1>5 DEF PlatformAccepts, shop, InHand, NoticesTypeOK
    <2>2. /\ job' \in [Jobs -> JobType]
          /\ \A i \in Jobs : i # j => job'[i] = job[i]
          /\ job'[j].event = e /\ job'[j].at = "sent"
        BY <1>5, <2>1 DEF PlatformAccepts, Move, NoticesTypeOK, JobType
    <2>3. e \in Facts \ notified /\ e \in Events /\ ~Unrecorded(e)
        BY <2>1 DEF HeldIsNews, Facts, OneHolder, Unrecorded, InHand
    <2>4. heard[e] = lost[e] /\ heard[e] \in Nat
        BY <2>3 DEF HeardOnce, NoticesTypeOK
    <2>5. NoticesTypeOK' /\ OneHolder' /\ JobsName' /\ HeldIsNews'
        BY <2>1, <2>2, <2>3 DEF NoticesTypeOK, OneHolder, JobsName, HeldIsNews, InHand, Facts
    <2>6. HeardOnce'
        <3>1. \A d \in Events : d = e => Unrecorded(d)'
            BY <2>2 DEF Unrecorded
        <3>2. \A d \in Events : d # e => heard'[d] = heard[d] /\ (Unrecorded(d)' <=> Unrecorded(d))
            BY <2>1, <2>2 DEF Unrecorded, NoticesTypeOK
        <3>3. heard'[e] = lost[e] + 1
            BY <2>1, <2>3, <2>4 DEF NoticesTypeOK
        <3> QED BY <2>1, <3>1, <3>2, <3>3 DEF HeardOnce, NoticesTypeOK
    <2>7. MappedStep
        <3>1. Promise!Tell(e)
            BY <2>1, <2>3, <2>4 DEF Promise!Tell, Facts
        <3> QED BY <2>3, <3>1 DEF MappedStep, Promise!ToldNext
    <2> QED BY <2>5, <2>6, <2>7 DEF Goal
<1>6. ASSUME NEW j \in Jobs, Record(j) PROVE Goal
    <2> DEFINE e == job[j].event
    <2>1. /\ j \in InHand /\ job[j].at = "sent" /\ job[j] \in JobType
          /\ UNCHANGED <<status, paid, heard, lost>>
          /\ notified' = notified \cup {e}
        BY <1>6 DEF Record, shop, InHand, NoticesTypeOK
    <2>2. /\ job' \in [Jobs -> JobType]
          /\ \A i \in Jobs : i # j => job'[i] = job[i]
          /\ job'[j].event = e /\ job'[j].at = "done"
        BY <1>6, <2>1 DEF Record, Move, NoticesTypeOK, JobType
    <2>3. e \in Events /\ \A i \in Jobs : i # j => job[i].at \notin {"sending", "sent"}
        BY <2>1 DEF HeldIsNews, Facts, OneHolder, InHand
    <2>4. NoticesTypeOK' /\ OneHolder' /\ JobsName' /\ HeldIsNews'
        BY <2>1, <2>2, <2>3 DEF NoticesTypeOK, OneHolder, JobsName, HeldIsNews, InHand
    <2>5. HeardOnce'
        <3>1. \A d \in Events : (d \in notified' \/ Unrecorded(d)') <=> (d \in notified \/ Unrecorded(d))
            BY <2>1, <2>2, <2>3 DEF Unrecorded
        <3> QED BY <2>1, <3>1 DEF HeardOnce
    <2>6. MappedStep
        BY <2>1 DEF MappedStep, Promise!toldVars, Facts
    <2> QED BY <2>4, <2>5, <2>6 DEF Goal
<1>7. ASSUME NEW j \in Jobs, NEW to \in {"waiting", "failed"}, Move(j, to),
             job[j].at \in {"sending", "sent"}, UNCHANGED <<shop, notified, heard>>,
             lost' = IF job[j].at = "sent" THEN [lost EXCEPT ![job[j].event] = @ + 1] ELSE lost
      PROVE  Goal
    <2> DEFINE e == job[j].event
    <2>1. /\ j \in InHand /\ job[j] \in JobType /\ UNCHANGED <<status, paid, notified, heard>>
        BY <1>7 DEF shop, InHand, NoticesTypeOK
    <2>2. /\ job' \in [Jobs -> JobType]
          /\ \A i \in Jobs : i # j => job'[i] = job[i]
          /\ job'[j].event = e /\ job'[j].at \in {"waiting", "failed"}
        BY <1>7, <2>1 DEF Move, NoticesTypeOK, JobType
    <2>3. /\ e \in Events \ notified /\ (e = "paid" => paid)
          /\ \A i \in Jobs : i # j => job[i].at \notin {"sending", "sent"}
        BY <2>1 DEF HeldIsNews, Facts, OneHolder, InHand
    <2>4. NoticesTypeOK' /\ OneHolder' /\ JobsName' /\ HeldIsNews'
        BY <1>7, <2>1, <2>2, <2>3 DEF NoticesTypeOK, OneHolder, JobsName, HeldIsNews, InHand
    <2>5. \A d \in Events : ~Unrecorded(d)'
        BY <2>2, <2>3 DEF Unrecorded
    <2>6. CASE job[j].at = "sent"
        <3>1. Unrecorded(e) /\ \A d \in Events : d # e => ~Unrecorded(d)
            BY <2>3, <2>6 DEF Unrecorded
        <3>2. heard[e] = lost[e] + 1 /\ lost[e] \in Nat
            BY <2>3, <3>1 DEF HeardOnce, NoticesTypeOK
        <3>3. \A d \in Events : lost'[d] = IF d = e THEN lost[d] + 1 ELSE lost[d]
            BY <1>7, <2>6 DEF NoticesTypeOK
        <3>4. HeardOnce'
            BY <2>1, <2>3, <2>5, <3>1, <3>2, <3>3 DEF HeardOnce, NoticesTypeOK
        <3>5. Promise!LoseRecord(e)
            BY <1>7, <2>1, <2>6, <3>2 DEF Promise!LoseRecord, Facts
        <3>6. MappedStep
            BY <2>3, <3>5 DEF MappedStep, Promise!ToldNext
        <3> QED BY <2>4, <3>4, <3>6 DEF Goal
    <2>7. CASE job[j].at = "sending"
        <3>1. \A d \in Events : ~Unrecorded(d)
            BY <2>3, <2>7 DEF Unrecorded
        <3>2. HeardOnce'
            BY <1>7, <2>1, <2>5, <2>7, <3>1 DEF HeardOnce
        <3>3. MappedStep
            BY <1>7, <2>1, <2>7 DEF MappedStep, Promise!toldVars, Facts
        <3> QED BY <2>4, <3>2, <3>3 DEF Goal
    <2> QED BY <1>7, <2>6, <2>7
<1>8. ASSUME NEW j \in Jobs, PlatformRefuses(j) PROVE Goal
    BY <1>7, <1>8 DEF PlatformRefuses, AfterFailure
<1>9. ASSUME NEW j \in Jobs, Lose(j) PROVE Goal
    BY <1>7, <1>9 DEF Lose, AfterFailure
<1>10. CASE \E j \in Jobs : \/ Deliver(j) \/ PlatformAccepts(j) \/ PlatformRefuses(j)
                            \/ Record(j) \/ Lose(j)
    BY <1>4, <1>5, <1>6, <1>8, <1>9, <1>10
<1>11. CASE \E new \in {"pending", "confirmed", "shipped"}, tell \in BOOLEAN : ChangeStatus(new, tell)
    BY <1>1, <1>11
<1> QED BY <1>2, <1>3, <1>10, <1>11 DEF NoticesNext

-----------------------------------------------------------------------------
(* However jobs, workers, failures and the order's own changes interleave,    *)
(* what a customer experiences is Told: true as it is sent, and sent again    *)
(* only when the record of having sent it was lost.                           *)
THEOREM NoticesKeepPromise == NoticesSpec => ToldAsPromised
<1>1. NoticesInit => NoticesInv /\ Promise!ToldInit
    BY NoticesStart
<1>2. NoticesInv /\ [NoticesNext]_noticeVars => NoticesInv' /\ [Promise!ToldNext]_(Promise!toldVars)
    BY NextImplements DEF MappedStep
<1> QED BY <1>1, <1>2, PTL DEF NoticesSpec, ToldAsPromised, Promise!ToldSpec
=============================================================================
