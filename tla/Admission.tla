----------------------------- MODULE Admission -----------------------------
(***************************************************************************)
(* How one school takes in its students: UsersService and PlansService,    *)
(* adminEnrollStudent of PaymentsService over them, and createSubscription *)
(* up to the row it writes (Enrolling has the rest of it).                 *)
(*                                                                         *)
(* As in BillingData, each awaited statement is one action.  Passwords,    *)
(* names, roles and profiles are left out: nothing here depends on them.   *)
(***************************************************************************)
EXTENDS Naturals, FiniteSets

CONSTANTS
    Users,          \* ids a User row can get
    Emails,
    Ruts,           \* national identity numbers
    Plans,          \* ids of the plans
    Subscriptions,  \* ids a Subscription row can get
    Requests,       \* slots of requests being served at the same time
    Arrivals,       \* the users an administrator may add by hand
    Applications,   \* the forms an administrator may submit
    Changes,        \* the changes of users an administrator may ask for
    Orders,         \* the subscriptions clients may ask for by themselves
    None            \* null, or a field that a change does not give

Person == [email : Emails, rut : Ruts]
Arrival == [person : Person, tutors : SUBSET Users]
\* Every tutor field is optional; no rut stands for any other field left out.
Guardian == [email : Emails \cup {None}, rut : Ruts \cup {None}]
\* With isAdult no tutor field is read: no guardian.
Application == [pupil : Person, guardian : Guardian \cup {None}, plan : Plans]
Change == [email : Emails \cup {None}, rut : Ruts \cup {None}]
Order == [email : Emails, student : Users \cup {None}, plan : Plans]

UserRow == [email : Emails, rut : Ruts, active : BOOLEAN, tutors : SUBSET Users]
\* open: the status is PENDING or ACTIVE
SubscriptionRow == [student : Users, payer : Users, plan : Plans, open : BOOLEAN]

ASSUME InputAssumption ==
    /\ Arrivals \subseteq Arrival
    /\ Applications \subseteq Application
    /\ Changes \subseteq Change
    /\ Orders \subseteq Order
ASSUME NoneAssumption ==
    /\ None \notin Users \cup Emails \cup Ruts \cup Plans \cup Subscriptions
    /\ None \notin Guardian \cup UserRow \cup SubscriptionRow

VARIABLES
    users,     \* table User, with the tutors of UserTutor
    plans,     \* column active of table Plan
    subs,      \* table Subscription
    request,   \* what each request being served carries over its awaits
    news,      \* history: requests whose tutor or student had a new email meanwhile
    named,     \* history: whom a form or a client has named to pay for which student
    suspect,   \* history: subscriptions whose payer comes from an enrolment that had
               \* news, or whose form named nobody
    admitted   \* history: subscriptions created by adminEnrollStudent

vars == <<users, plans, subs, request, news, named, suspect, admitted>>
tables == <<users, plans, subs>>
history == <<news, named, suspect, admitted>>

Waits ==
    {"idle",
     "insertUser",                     \* create
     "checkTutor", "insertTutor",      \* adminEnrollStudent
     "checkStudent", "insertStudent",
     "payer", "plan", "find", "write"} \* createSubscription

RequestState ==
    [at : Waits, enrols : BOOLEAN, pupil : Person \cup {None}, tutors : SUBSET Users,
     guardian : Guardian \cup {None}, tutor : Users \cup {None},
     student : Users \cup {None}, mail : Emails \cup {None}, plan : Plans \cup {None},
     payer : Users \cup {None}, sub : Subscriptions \cup {None}]

Idle ==
    [at |-> "idle", enrols |-> FALSE, pupil |-> None, tutors |-> {}, guardian |-> None,
     tutor |-> None, student |-> None, mail |-> None, plan |-> None, payer |-> None, sub |-> None]

TypeOK ==
    /\ users \in [Users -> UserRow \cup {None}]
    /\ plans \in [Plans -> BOOLEAN]
    /\ subs \in [Subscriptions -> SubscriptionRow \cup {None}]
    /\ request \in [Requests -> RequestState]
    /\ news \subseteq Requests
    /\ named \subseteq Users \X Users
    /\ suspect \subseteq Subscriptions
    /\ admitted \subseteq Subscriptions

Init ==
    /\ users = [u \in Users |-> None]
    /\ plans = [p \in Plans |-> TRUE]
    /\ subs = [s \in Subscriptions |-> None]
    /\ request = [r \in Requests |-> Idle]
    /\ news = {}
    /\ named = {}
    /\ suspect = {}
    /\ admitted = {}

At(r, place) == request[r].at = place
Become(r, state) == request' = [request EXCEPT ![r] = state] /\ UNCHANGED news
GoTo(r, place) == Become(r, [request[r] EXCEPT !.at = place])
Finish(r) == request' = [request EXCEPT ![r] = Idle] /\ news' = news \ {r}

-----------------------------------------------------------------------------
(***************************************************************************)
(* UsersService.  create looks for the email and the rut, hidden users     *)
(* included, hashes the password, and inserts; the unique keys of the      *)
(* table have the last word.                                               *)
(***************************************************************************)
Holders(person) ==
    {u \in Users : users[u] # None /\ (users[u].email = person.email \/ users[u].rut = person.rut)}

Known(person) == Holders(person) # {}

\* Mutant of Refused: a table without unique keys, that trusts the check of create.
NeverRefused(person) == FALSE

\* @@unique([rut, schoolId]), @@unique([email, schoolId])
Refused(person) == Known(person)

NewUser(person, tutors) ==
    [email |-> person.email, rut |-> person.rut, active |-> TRUE, tutors |-> tutors]

Insert(u, person, tutors) ==
    /\ ~Refused(person)
    /\ users[u] = None
    /\ users' = [users EXCEPT ![u] = NewUser(person, tutors)]

AskUser(r) ==
    /\ At(r, "idle")
    /\ \E a \in Arrivals :
         /\ ~Known(a.person)
         /\ Become(r, [Idle EXCEPT !.at = "insertUser", !.pupil = a.person, !.tutors = a.tutors])
    /\ UNCHANGED <<tables, named, suspect, admitted>>

\* Tutors given by hand must exist: a foreign key.
InsertUser(r) ==
    LET missing == {u \in request[r].tutors : users[u] = None}
    IN /\ At(r, "insertUser")
       /\ \/ missing = {} /\ \E u \in Users : Insert(u, request[r].pupil, request[r].tutors)
          \/ missing # {} /\ UNCHANGED users
          \/ Refused(request[r].pupil) /\ UNCHANGED users
       /\ Finish(r)
       /\ UNCHANGED <<plans, subs, named, suspect, admitted>>

Kept(new, old) == IF new = None THEN old ELSE new

\* update: one statement, on hidden users too.  Whoever holds the user's email
\* has news if it changes.
ChangeUser ==
    \E u \in Users, c \in Changes :
        LET email == Kept(c.email, users[u].email)
            rut == Kept(c.rut, users[u].rut)
        IN /\ users[u] # None
           /\ Holders([email |-> email, rut |-> rut]) \subseteq {u}
           /\ users' = [users EXCEPT ![u].email = email, ![u].rut = rut]
           /\ news' = IF email = users[u].email THEN news
                      ELSE news \cup {r \in Requests : u \in {request[r].tutor, request[r].student}}
           /\ UNCHANGED <<plans, subs, request, named, suspect, admitted>>

\* remove: the user is only hidden.
RemoveUser ==
    \E u \in Users :
        /\ users[u] # None
        /\ users' = [users EXCEPT ![u].active = FALSE]
        /\ UNCHANGED <<plans, subs, request, history>>

\* PlansService.remove.  findFirst and update, and nothing revives a plan between.
RemovePlan ==
    \E p \in Plans :
        /\ plans[p]
        /\ plans' = [plans EXCEPT ![p] = FALSE]
        /\ UNCHANGED <<users, subs, request, history>>

-----------------------------------------------------------------------------
(***************************************************************************)
(* adminEnrollStudent.  A minor's tutor is looked up by email, hidden or   *)
(* not, and created if there is none; then the student is created, which   *)
(* fails if it is known; then createSubscription gets the payer's email.   *)
(* Without an email the lookup filters by the school only, and any user of *)
(* it is the tutor.                                                        *)
(***************************************************************************)
FoundBy(email) == {u \in Users : users[u] # None /\ (email = None \/ users[u].email = email)}

AskEnrolment(r) ==
    /\ At(r, "idle")
    /\ \E form \in Applications :
         LET begun == [Idle EXCEPT !.enrols = TRUE, !.pupil = form.pupil,
                                   !.guardian = form.guardian, !.plan = form.plan]
         IN \/ /\ form.guardian = None
               /\ ~Known(form.pupil)
               /\ Become(r, [begun EXCEPT !.at = "insertStudent"])
            \/ /\ form.guardian # None
               /\ \E u \in FoundBy(form.guardian.email) :
                    Become(r, [begun EXCEPT !.at = "checkStudent", !.tutor = u,
                                            !.mail = users[u].email])
            \/ /\ form.guardian # None
               /\ FoundBy(form.guardian.email) = {}
               /\ Become(r, [begun EXCEPT !.at = "checkTutor"])
    /\ UNCHANGED <<tables, named, suspect, admitted>>

\* A tutor with a field missing is refused by the check, the hash or the insert.
CheckTutor(r) ==
    /\ At(r, "checkTutor")
    /\ IF request[r].guardian \notin Person \/ Known(request[r].guardian)
       THEN Finish(r)
       ELSE GoTo(r, "insertTutor")
    /\ UNCHANGED <<tables, named, suspect, admitted>>

InsertTutor(r) ==
    /\ At(r, "insertTutor")
    /\ \/ \E u \in Users :
            /\ Insert(u, request[r].guardian, {})
            /\ Become(r, [request[r] EXCEPT !.at = "checkStudent", !.tutor = u,
                                            !.mail = request[r].guardian.email])
       \/ Refused(request[r].guardian) /\ Finish(r) /\ UNCHANGED users
    /\ UNCHANGED <<plans, subs, named, suspect, admitted>>

CheckStudent(r) ==
    /\ At(r, "checkStudent")
    /\ IF Known(request[r].pupil) THEN Finish(r) ELSE GoTo(r, "insertStudent")
    /\ UNCHANGED <<tables, named, suspect, admitted>>

\* Mutant of TutorLinks: an adult is linked to the tutor that it does not have.
TutorLinksAlways(r) == {request[r].tutor}

TutorLinks(r) == {request[r].tutor} \ {None}

\* Mutant of PayerEmail: the student's, as for an adult.
PupilEmail(r) == request[r].pupil.email

\* user.email or tutor.email, of the row as it was read.
PayerEmail(r) == IF request[r].tutor = None THEN request[r].pupil.email ELSE request[r].mail

\* Whom the form names to pay for the student u: itself, or the tutor of that email.
Named(r, u) ==
    IF request[r].guardian = None THEN {<<u, u>>}
    ELSE IF request[r].guardian.email = None THEN {}
    ELSE {<<request[r].tutor, u>>}

\* Mutant of InsertStudent: goes on with the user that is already there.
InsertStudentOrTake(r) ==
    /\ At(r, "insertStudent")
    /\ \E u \in Users :
         /\ \/ Insert(u, request[r].pupil, TutorLinks(r))
            \/ u \in Holders(request[r].pupil) /\ UNCHANGED users
         /\ Become(r, [request[r] EXCEPT !.at = "payer", !.student = u, !.mail = PayerEmail(r)])
         /\ named' = named \cup Named(r, u)
    /\ UNCHANGED <<plans, subs, suspect, admitted>>

InsertStudent(r) ==
    /\ At(r, "insertStudent")
    /\ \/ \E u \in Users :
            /\ Insert(u, request[r].pupil, TutorLinks(r))
            /\ Become(r, [request[r] EXCEPT !.at = "payer", !.student = u, !.mail = PayerEmail(r)])
            /\ named' = named \cup Named(r, u)
       \/ Refused(request[r].pupil) /\ Finish(r) /\ UNCHANGED <<users, named>>
    /\ UNCHANGED <<plans, subs, suspect, admitted>>

-----------------------------------------------------------------------------
(***************************************************************************)
(* createSubscription, called above or by a client with any payer's email. *)
(***************************************************************************)
AskSubscription(r) ==
    /\ At(r, "idle")
    /\ \E o \in Orders :
         /\ o.student # None => users[o.student] # None
         /\ Become(r, [Idle EXCEPT !.at = "payer", !.mail = o.email, !.student = o.student,
                                   !.plan = o.plan])
    /\ UNCHANGED <<tables, named, suspect, admitted>>

Payers(mail) == {u \in Users : users[u] # None /\ users[u].email = mail /\ users[u].active}

\* validateUser, and studentId || payer.id.  A client names who has the email.
ValidateUser(r) ==
    /\ At(r, "payer")
    /\ \/ \E u \in Payers(request[r].mail) :
            LET student == Kept(request[r].student, u)
            IN /\ Become(r, [request[r] EXCEPT !.at = "plan", !.payer = u, !.student = student])
               /\ named' = IF request[r].enrols THEN named ELSE named \cup {<<u, student>>}
       \/ Payers(request[r].mail) = {} /\ Finish(r) /\ UNCHANGED named
    /\ UNCHANGED <<tables, suspect, admitted>>

FindPlan(r) ==
    /\ At(r, "plan")
    /\ IF plans[request[r].plan] THEN GoTo(r, "find") ELSE Finish(r)
    /\ UNCHANGED <<tables, named, suspect, admitted>>

Current(student, plan) ==
    {s \in Subscriptions :
        subs[s] # None /\ subs[s].open /\ subs[s].student = student /\ subs[s].plan = plan}

FindSubscription(r) ==
    LET current == Current(request[r].student, request[r].plan)
    IN /\ At(r, "find")
       /\ \E s \in IF current = {} THEN {None} ELSE current :
            Become(r, [request[r] EXCEPT !.at = "write", !.sub = s])
       /\ UNCHANGED <<tables, named, suspect, admitted>>

\* An enrolment is sure of its payer if its form names one, whose email stayed.
Certain(r) ==
    request[r].enrols =>
        /\ r \notin news
        /\ request[r].guardian # None => request[r].guardian.email # None

Recorded(r, s) == suspect' = IF Certain(r) THEN suspect \ {s} ELSE suspect \cup {s}

NewSubscription(r) ==
    [student |-> request[r].student, payer |-> request[r].payer, plan |-> request[r].plan,
     open |-> TRUE]

\* update({payerId}) of the one found, or create.  What follows is in Enrolling.
WriteSubscription(r) ==
    /\ At(r, "write")
    /\ \/ /\ request[r].sub # None
          /\ subs' = [subs EXCEPT ![request[r].sub].payer = request[r].payer]
          /\ Recorded(r, request[r].sub)
          /\ UNCHANGED admitted
       \/ /\ request[r].sub = None
          /\ \E s \in Subscriptions :
               /\ subs[s] = None
               /\ subs' = [subs EXCEPT ![s] = NewSubscription(r)]
               /\ Recorded(r, s)
               /\ admitted' = IF request[r].enrols THEN admitted \cup {s} ELSE admitted
    /\ Finish(r)
    /\ UNCHANGED <<users, plans, named>>

\* Closed by cancelSubscription and by the webhook, which also opens one that was
\* closed (Billing).
SwitchSubscription ==
    \E s \in Subscriptions :
        /\ subs[s] # None
        /\ subs' = [subs EXCEPT ![s].open = ~subs[s].open]
        /\ UNCHANGED <<users, plans, request, history>>

\* The process stops or a statement fails: what was written stays.
Abort(r) ==
    /\ ~At(r, "idle")
    /\ Finish(r)
    /\ UNCHANGED <<tables, named, suspect, admitted>>

Next ==
    \/ ChangeUser
    \/ RemoveUser
    \/ RemovePlan
    \/ SwitchSubscription
    \/ \E r \in Requests :
         \/ AskUser(r)
         \/ InsertUser(r)
         \/ AskEnrolment(r)
         \/ CheckTutor(r)
         \/ InsertTutor(r)
         \/ CheckStudent(r)
         \/ InsertStudent(r)
         \/ AskSubscription(r)
         \/ ValidateUser(r)
         \/ FindPlan(r)
         \/ FindSubscription(r)
         \/ WriteSubscription(r)
         \/ Abort(r)

Spec == Init /\ [][Next]_vars

-----------------------------------------------------------------------------
(***************************************************************************)
(* Properties                                                              *)
(***************************************************************************)
\* However requests interleave, hidden users and changes of email included, an
\* email and a rut belong to one user: the check of create is not enough for it,
\* since the hash lies between the check and the insert.
OneUserPerKey ==
    \A u, v \in Users :
        u # v /\ users[u] # None /\ users[v] # None =>
            users[u].email # users[v].email /\ users[u].rut # users[v].rut

\* Who pays for a student was named for it, by the form of an enrolment or by a
\* client, though an enrolment looks the payer up again by email at the end and
\* requests replace each other's payers; unless the email went to somebody else on
\* the way, or the form named nobody.
PayerWasNamed ==
    \A s \in Subscriptions \ suspect :
        subs[s] # None => <<subs[s].payer, subs[s].student>> \in named

\* "Tutor fields (required if not adult)": nobody pays for a student without having
\* been named for it.  They are not required, and an enrolment without the tutor's
\* email bills any user of the school.
NobodyElsePays ==
    \A s \in Subscriptions : subs[s] # None => <<subs[s].payer, subs[s].student>> \in named

\* A form that is submitted again, twice at a time, after a failure or for another
\* plan, never admits the student again.
AdmittedOnce ==
    \A s, t \in admitted : s # t => subs[s].student # subs[t].student
=============================================================================
