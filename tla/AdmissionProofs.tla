-------------------------- MODULE AdmissionProofs --------------------------
(***************************************************************************)
(* The properties of Admission for any number of users, plans,             *)
(* subscriptions and requests, and any forms, changes and orders.          *)
(***************************************************************************)
EXTENDS AdmissionInvariant, TLAPS

-----------------------------------------------------------------------------
(***************************************************************************)
(* Types                                                                   *)
(***************************************************************************)
LEMMA InitType == Init => TypeOK
BY DEF Init, TypeOK, RequestState, Waits, Idle

LEMMA NewUserType ==
    ASSUME NEW person \in Person, NEW tutors \in SUBSET Users
    PROVE  NewUser(person, tutors) \in UserRow
BY DEF NewUser, Person, UserRow

\* Inserting a row keeps the type of the table.
LEMMA InsertType ==
    ASSUME TypeOK, NEW u \in Users, NEW person \in Person, NEW tutors \in SUBSET Users,
           Insert(u, person, tutors)
    PROVE  users' \in [Users -> UserRow \cup {None}]
BY NewUserType DEF Insert, TypeOK

\* A request moves to a state of its type, and the rest of its type is kept.
LEMMA RequestType ==
    ASSUME TypeOK, NEW r \in Requests,
           \/ \E state \in RequestState : Become(r, state)
           \/ Finish(r)
    PROVE  request' \in [Requests -> RequestState] /\ news' \subseteq Requests
<1>1. Idle \in RequestState
    BY DEF Idle, RequestState, Waits
<1> QED
    BY <1>1 DEF TypeOK, Become, Finish

\* The moves of a request, and what they write down, keep its type.
LEMMA MoveType ==
    ASSUME NEW state \in RequestState, NEW place \in Waits
    PROVE  /\ [state EXCEPT !.at = place] \in RequestState
           /\ \A u \in Users, m \in Emails :
                [state EXCEPT !.at = place, !.tutor = u, !.mail = m] \in RequestState
           /\ \A u \in Users, m \in Emails :
                [state EXCEPT !.at = place, !.student = u, !.mail = m] \in RequestState
           /\ \A u, v \in Users :
                [state EXCEPT !.at = place, !.payer = u, !.student = v] \in RequestState
           /\ \A s \in Subscriptions \cup {None} :
                [state EXCEPT !.at = place, !.sub = s] \in RequestState
<1>1. [state EXCEPT !.at = place] \in RequestState
    BY DEF RequestState
<1>2. ASSUME NEW u \in Users, NEW m \in Emails
      PROVE  [state EXCEPT !.at = place, !.tutor = u, !.mail = m] \in RequestState
    BY DEF RequestState
<1>3. ASSUME NEW u \in Users, NEW m \in Emails
      PROVE  [state EXCEPT !.at = place, !.student = u, !.mail = m] \in RequestState
    BY DEF RequestState
<1>4. ASSUME NEW u \in Users, NEW v \in Users
      PROVE  [state EXCEPT !.at = place, !.payer = u, !.student = v] \in RequestState
    BY DEF RequestState
<1>5. ASSUME NEW s \in Subscriptions \cup {None}
      PROVE  [state EXCEPT !.at = place, !.sub = s] \in RequestState
    BY DEF RequestState
<1> QED
    BY <1>1, <1>2, <1>3, <1>4, <1>5

LEMMA TypeKept ==
    ASSUME TypeOK, InFlight, [Next]_vars
    PROVE  TypeOK'
<1> USE NoneAssumption
<1>1. CASE UNCHANGED vars
    BY <1>1 DEF TypeOK, vars
<1>2. CASE ChangeUser
    <2>1. PICK u \in Users, c \in Changes :
            /\ users[u] # None
            /\ users' = [users EXCEPT ![u].email = Kept(c.email, users[u].email),
                                      ![u].rut = Kept(c.rut, users[u].rut)]
            /\ news' \subseteq news \cup Requests
            /\ UNCHANGED <<plans, subs, request, named, suspect, admitted>>
        BY <1>2 DEF ChangeUser
    <2>2. c \in Change
        BY InputAssumption
    <2>3. users[u] \in UserRow
        BY <2>1 DEF TypeOK
    <2>4. Kept(c.email, users[u].email) \in Emails /\ Kept(c.rut, users[u].rut) \in Ruts
        BY <2>2, <2>3 DEF Kept, Change, UserRow
    <2>5. [users[u] EXCEPT !.email = Kept(c.email, users[u].email),
                           !.rut = Kept(c.rut, users[u].rut)] \in UserRow
        BY <2>3, <2>4 DEF UserRow
    <2>6. users' \in [Users -> UserRow \cup {None}]
        BY <2>1, <2>5 DEF TypeOK
    <2> QED
        BY <2>1, <2>6 DEF TypeOK
<1>3. CASE RemoveUser
    <2>1. PICK u \in Users :
            users[u] # None /\ users' = [users EXCEPT ![u].active = FALSE]
        BY <1>3 DEF RemoveUser
    <2>2. users[u] \in UserRow
        BY <2>1 DEF TypeOK
    <2>3. [users[u] EXCEPT !.active = FALSE] \in UserRow
        BY <2>2 DEF UserRow
    <2>4. users' \in [Users -> UserRow \cup {None}]
        BY <2>1, <2>3 DEF TypeOK
    <2> QED
        BY <1>3, <2>4 DEF RemoveUser, TypeOK, history
<1>4. CASE RemovePlan
    BY <1>4 DEF RemovePlan, TypeOK, history
<1>5. CASE SwitchSubscription
    <2>1. PICK s \in Subscriptions :
            subs[s] # None /\ subs' = [subs EXCEPT ![s].open = ~subs[s].open]
        BY <1>5 DEF SwitchSubscription
    <2>2. subs[s] \in SubscriptionRow
        BY <2>1 DEF TypeOK
    <2>3. [subs[s] EXCEPT !.open = ~subs[s].open] \in SubscriptionRow
        BY <2>2 DEF SubscriptionRow
    <2>4. subs' \in [Subscriptions -> SubscriptionRow \cup {None}]
        BY <2>1, <2>3 DEF TypeOK
    <2> QED
        BY <1>5, <2>4 DEF SwitchSubscription, TypeOK, history
<1>6. ASSUME NEW r \in Requests, AskUser(r)
      PROVE  TypeOK'
    <2>1. PICK a \in Arrivals :
            Become(r, [Idle EXCEPT !.at = "insertUser", !.pupil = a.person, !.tutors = a.tutors])
        BY <1>6 DEF AskUser
    <2>2. [Idle EXCEPT !.at = "insertUser", !.pupil = a.person, !.tutors = a.tutors] \in RequestState
        BY InputAssumption DEF Idle, RequestState, Waits, Arrival
    <2> QED
        BY <1>6, <2>1, <2>2, RequestType DEF AskUser, TypeOK, tables
<1>7. ASSUME NEW r \in Requests, InsertUser(r)
      PROVE  TypeOK'
    <2>1. request[r].pupil \in Person /\ request[r].tutors \in SUBSET Users
        BY <1>7 DEF InsertUser, At, InFlight, FormFacts, Late, TypeOK, RequestState
    <2>2. users' \in [Users -> UserRow \cup {None}]
        BY <1>7, <2>1, InsertType DEF InsertUser, TypeOK
    <2> QED
        BY <1>7, <2>2, RequestType DEF InsertUser, TypeOK
<1>8. ASSUME NEW r \in Requests, AskEnrolment(r)
      PROVE  TypeOK'
    <2> DEFINE begun(form) == [Idle EXCEPT !.enrols = TRUE, !.pupil = form.pupil,
                                           !.guardian = form.guardian, !.plan = form.plan]
    <2>1. PICK form \in Applications :
            \/ Become(r, [begun(form) EXCEPT !.at = "insertStudent"])
            \/ \E u \in Users :
                 /\ users[u] # None
                 /\ Become(r, [begun(form) EXCEPT !.at = "checkStudent", !.tutor = u,
                                                  !.mail = users[u].email])
            \/ Become(r, [begun(form) EXCEPT !.at = "checkTutor"])
        BY <1>8 DEF AskEnrolment, FoundBy
    <2>2. form \in Application
        BY InputAssumption
    <2>3. begun(form) \in RequestState
        BY <2>2 DEF Idle, RequestState, Waits, Application
    <2> HIDE DEF begun
    <2>5. \E state \in RequestState : Become(r, state)
        <3>1. {"insertStudent", "checkStudent", "checkTutor"} \subseteq Waits
            BY DEF Waits
        <3>2. CASE Become(r, [begun(form) EXCEPT !.at = "insertStudent"])
            BY <2>3, <3>1, <3>2, MoveType
        <3>3. CASE Become(r, [begun(form) EXCEPT !.at = "checkTutor"])
            BY <2>3, <3>1, <3>3, MoveType
        <3>4. ASSUME NEW u \in Users, users[u] # None,
                     Become(r, [begun(form) EXCEPT !.at = "checkStudent", !.tutor = u,
                                                   !.mail = users[u].email])
              PROVE  \E state \in RequestState : Become(r, state)
            <4>1. users[u].email \in Emails
                BY <3>4 DEF TypeOK, UserRow
            <4> QED
                BY <2>3, <3>1, <3>4, <4>1, MoveType
        <3> QED
            BY <2>1, <3>2, <3>3, <3>4
    <2> QED
        BY <1>8, <2>5, RequestType DEF AskEnrolment, TypeOK, tables
<1>9. ASSUME NEW r \in Requests, NEW place \in Waits, GoTo(r, place) \/ Finish(r),
             UNCHANGED <<tables, named, suspect, admitted>>
      PROVE  TypeOK'
    <2>1. [request[r] EXCEPT !.at = place] \in RequestState
        BY DEF TypeOK, RequestState
    <2>2. request' \in [Requests -> RequestState] /\ news' \subseteq Requests
        BY <1>9, <2>1, RequestType DEF GoTo
    <2> QED
        BY <1>9, <2>2 DEF TypeOK, tables
<1>10. ASSUME NEW r \in Requests, CheckTutor(r) \/ CheckStudent(r) \/ FindPlan(r) \/ Abort(r)
       PROVE  TypeOK'
    BY <1>9, <1>10 DEF CheckTutor, CheckStudent, FindPlan, Abort, Waits
<1>11. ASSUME NEW r \in Requests, InsertTutor(r)
       PROVE  TypeOK'
    <2>1. request[r].guardian \in Person
        BY <1>11 DEF InsertTutor, At, InFlight, FormFacts, Late, TypeOK, RequestState
    <2>2. users' \in [Users -> UserRow \cup {None}]
        <3>1. ASSUME NEW u \in Users, Insert(u, request[r].guardian, {})
              PROVE  users' \in [Users -> UserRow \cup {None}]
            BY <2>1, <3>1, InsertType
        <3> QED
            BY <1>11, <3>1 DEF InsertTutor, TypeOK
    <2>3. \A u \in Users :
            [request[r] EXCEPT !.at = "checkStudent", !.tutor = u, !.mail = request[r].guardian.email]
              \in RequestState
        BY <2>1, MoveType DEF TypeOK, Waits, Person
    <2>4. request' \in [Requests -> RequestState] /\ news' \subseteq Requests
        BY <1>11, <2>3, RequestType DEF InsertTutor
    <2> QED
        BY <1>11, <2>2, <2>4 DEF InsertTutor, TypeOK
<1>12. ASSUME NEW r \in Requests, InsertStudent(r)
       PROVE  TypeOK'
    <2>1. request[r].pupil \in Person /\ TutorLinks(r) \in SUBSET Users
        BY <1>12 DEF InsertStudent, At, InFlight, FormFacts, Late, TypeOK, RequestState, TutorLinks
    <2>2. users' \in [Users -> UserRow \cup {None}]
        BY <1>12, <2>1, InsertType DEF InsertStudent, TypeOK
    <2>3. PayerEmail(r) \in Emails
        BY <2>1 DEF PayerEmail, Person, InFlight, UserFacts, TypeOK, RequestState
    <2>4. \A u \in Users : [request[r] EXCEPT !.at = "payer", !.student = u, !.mail = PayerEmail(r)]
                             \in RequestState
        BY <2>3, MoveType DEF TypeOK, Waits
    <2>5. request' \in [Requests -> RequestState] /\ news' \subseteq Requests
        BY <1>12, <2>4, RequestType DEF InsertStudent
    <2>6. \A u \in Users : Named(r, u) \subseteq Users \X Users
        <3>1. request[r].guardian # None => request[r].tutor # None
            BY <1>12 DEF InsertStudent, At, InFlight, FormFacts
        <3>2. request[r].tutor \in Users \cup {None}
            BY DEF TypeOK, RequestState
        <3> QED
            BY <3>1, <3>2 DEF Named
    <2> QED
        BY <1>12, <2>2, <2>5, <2>6 DEF InsertStudent, TypeOK
<1>13. ASSUME NEW r \in Requests, AskSubscription(r)
       PROVE  TypeOK'
    <2>1. PICK o \in Orders :
            Become(r, [Idle EXCEPT !.at = "payer", !.mail = o.email, !.student = o.student,
                                   !.plan = o.plan])
        BY <1>13 DEF AskSubscription
    <2>2. [Idle EXCEPT !.at = "payer", !.mail = o.email, !.student = o.student, !.plan = o.plan]
            \in RequestState
        BY InputAssumption DEF Idle, RequestState, Waits, Order
    <2> QED
        BY <1>13, <2>1, <2>2, RequestType DEF AskSubscription, TypeOK, tables
<1>14. ASSUME NEW r \in Requests, ValidateUser(r)
       PROVE  TypeOK'
    <2>1. \A u \in Users : Kept(request[r].student, u) \in Users
        BY DEF Kept, TypeOK, RequestState
    <2>2. \A u, v \in Users : [request[r] EXCEPT !.at = "plan", !.payer = u, !.student = v] \in RequestState
        BY MoveType DEF TypeOK, Waits
    <2>3. request' \in [Requests -> RequestState] /\ news' \subseteq Requests
        BY <1>14, <2>1, <2>2, RequestType DEF ValidateUser, Payers
    <2>4. named' \subseteq Users \X Users
        <3>1. \A u \in Payers(request[r].mail) : <<u, Kept(request[r].student, u)>> \in Users \X Users
            BY <2>1 DEF Payers
        <3>2. \/ UNCHANGED named
              \/ \E u \in Payers(request[r].mail) :
                   named' = named \cup {<<u, Kept(request[r].student, u)>>}
            BY <1>14 DEF ValidateUser
        <3> QED
            BY <3>1, <3>2 DEF TypeOK
    <2> QED
        BY <1>14, <2>3, <2>4 DEF ValidateUser, TypeOK, tables
<1>15. ASSUME NEW r \in Requests, FindSubscription(r)
       PROVE  TypeOK'
    <2>1. \A s \in Subscriptions \cup {None} :
            [request[r] EXCEPT !.at = "write", !.sub = s] \in RequestState
        BY MoveType DEF TypeOK, Waits
    <2>2. \E s \in Subscriptions \cup {None} :
            Become(r, [request[r] EXCEPT !.at = "write", !.sub = s])
        BY <1>15 DEF FindSubscription, Current
    <2>3. request' \in [Requests -> RequestState] /\ news' \subseteq Requests
        BY <2>1, <2>2, RequestType
    <2> QED
        BY <1>15, <2>3 DEF FindSubscription, TypeOK, tables
<1>16. ASSUME NEW r \in Requests, WriteSubscription(r)
       PROVE  TypeOK'
    <2>1. /\ request[r].student \in Users /\ request[r].payer \in Users
          /\ request[r].plan \in Plans /\ request[r].sub \in Subscriptions \cup {None}
        BY <1>16 DEF WriteSubscription, At, InFlight, FormFacts, Late, TypeOK, RequestState
    <2>2. NewSubscription(r) \in SubscriptionRow
        BY <2>1 DEF NewSubscription, SubscriptionRow
    <2>3. request[r].sub # None => subs[request[r].sub] \in SubscriptionRow
        BY <1>16, <2>1 DEF WriteSubscription, InFlight, FoundFacts, TypeOK
    <2>4. subs' \in [Subscriptions -> SubscriptionRow \cup {None}]
        <3>1. CASE request[r].sub # None
            <4>1. [subs[request[r].sub] EXCEPT !.payer = request[r].payer] \in SubscriptionRow
                BY <2>1, <2>3, <3>1 DEF SubscriptionRow
            <4>2. subs' = [subs EXCEPT ![request[r].sub].payer = request[r].payer]
                BY <1>16, <3>1 DEF WriteSubscription
            <4> QED
                BY <2>1, <4>1, <4>2 DEF TypeOK
        <3>2. CASE request[r].sub = None
            BY <1>16, <2>2, <3>2 DEF WriteSubscription, TypeOK
        <3> QED
            BY <3>1, <3>2
    <2>5. suspect' \subseteq Subscriptions /\ admitted' \subseteq Subscriptions
        BY <1>16, <2>1 DEF WriteSubscription, Recorded, TypeOK
    <2>6. request' \in [Requests -> RequestState] /\ news' \subseteq Requests
        BY <1>16, RequestType DEF WriteSubscription
    <2> QED
        BY <1>16, <2>4, <2>5, <2>6 DEF WriteSubscription, TypeOK
<1> QED
    BY <1>1, <1>2, <1>3, <1>4, <1>5, <1>6, <1>7, <1>8, <1>10, <1>11, <1>12, <1>13, <1>14,
       <1>15, <1>16 DEF Next

-----------------------------------------------------------------------------
(***************************************************************************)
(* Keys                                                                    *)
(***************************************************************************)
\* A new row takes no email and no rut that is taken.
LEMMA InsertKeys ==
    ASSUME TypeOK, OneUserPerKey, NEW u \in Users, NEW person, NEW tutors, Insert(u, person, tutors)
    PROVE  OneUserPerKey'
<1>1. users' = [users EXCEPT ![u] = NewUser(person, tutors)] /\ Holders(person) = {}
    BY DEF Insert, Refused, Known
<1>2. ASSUME NEW v \in Users, NEW w \in Users, v # w, users'[v] # None, users'[w] # None
      PROVE  users'[v].email # users'[w].email /\ users'[v].rut # users'[w].rut
    <2>1. \A x \in Users \ {u} : users'[x] = users[x]
        BY <1>1 DEF TypeOK
    <2>2. users'[u].email = person.email /\ users'[u].rut = person.rut
        BY <1>1 DEF TypeOK, NewUser
    <2>3. \A x \in Users : users[x] # None => users[x].email # person.email /\ users[x].rut # person.rut
        BY <1>1 DEF Holders
    <2>4. CASE v # u /\ w # u
        BY <1>2, <2>1, <2>4 DEF OneUserPerKey
    <2>5. CASE v = u
        BY <1>2, <2>1, <2>2, <2>3, <2>5
    <2>6. CASE w = u
        BY <1>2, <2>1, <2>2, <2>3, <2>6
    <2> QED
        BY <2>4, <2>5, <2>6
<1> QED
    BY <1>2 DEF OneUserPerKey

LEMMA KeysKept ==
    ASSUME TypeOK, OneUserPerKey, [Next]_vars
    PROVE  OneUserPerKey'
<1>1. CASE UNCHANGED users
    BY <1>1 DEF OneUserPerKey
<1>2. CASE ChangeUser
    <2>1. PICK u \in Users, c \in Changes :
            /\ users[u] # None
            /\ Holders([email |-> Kept(c.email, users[u].email), rut |-> Kept(c.rut, users[u].rut)])
                 \subseteq {u}
            /\ users' = [users EXCEPT ![u].email = Kept(c.email, users[u].email),
                                      ![u].rut = Kept(c.rut, users[u].rut)]
        BY <1>2 DEF ChangeUser
    <2> DEFINE email == Kept(c.email, users[u].email)
               rut == Kept(c.rut, users[u].rut)
    <2>2. users[u] \in UserRow
        BY <2>1 DEF TypeOK
    <2>3. users'[u].email = email /\ users'[u].rut = rut
        BY <2>1, <2>2 DEF TypeOK, UserRow
    <2>4. \A x \in Users \ {u} : users'[x] = users[x]
        BY <2>1 DEF TypeOK
    <2>5. \A x \in Users \ {u} : users[x] # None => users[x].email # email /\ users[x].rut # rut
        BY <2>1 DEF Holders
    <2> HIDE DEF email, rut
    <2>6. ASSUME NEW v \in Users, NEW w \in Users, v # w, users'[v] # None, users'[w] # None
          PROVE  users'[v].email # users'[w].email /\ users'[v].rut # users'[w].rut
        <3>1. CASE v # u /\ w # u
            BY <2>4, <2>6, <3>1 DEF OneUserPerKey
        <3>2. CASE v = u
            BY <2>3, <2>4, <2>5, <2>6, <3>2
        <3>3. CASE w = u
            BY <2>3, <2>4, <2>5, <2>6, <3>3
        <3> QED
            BY <3>1, <3>2, <3>3
    <2> QED
        BY <2>6 DEF OneUserPerKey
<1>3. CASE RemoveUser
    <2>1. \A u \in Users : users'[u] # None => users[u] # None
        BY <1>3 DEF RemoveUser, TypeOK
    <2>2. \A u \in Users : users[u] # None => users'[u].email = users[u].email /\ users'[u].rut = users[u].rut
        BY <1>3 DEF RemoveUser, TypeOK, UserRow
    <2> QED
        BY <2>1, <2>2 DEF OneUserPerKey
<1>4. ASSUME NEW r \in Requests, InsertUser(r) \/ InsertTutor(r) \/ InsertStudent(r)
      PROVE  OneUserPerKey'
    <2>1. UNCHANGED users \/ \E u \in Users : \E person, tutors : Insert(u, person, tutors)
        BY <1>4 DEF InsertUser, InsertTutor, InsertStudent
    <2> QED
        BY <1>1, <2>1, InsertKeys
<1> QED
    BY <1>1, <1>2, <1>3, <1>4
    DEF Next, vars, tables, RemovePlan, SwitchSubscription, AskUser, AskEnrolment, CheckTutor,
        CheckStudent, AskSubscription, ValidateUser, FindPlan, FindSubscription, WriteSubscription, Abort

-----------------------------------------------------------------------------
(***************************************************************************)
(* What stays of the tables                                                *)
(***************************************************************************)
\* Users stay, with their tutors and their emails.
Gentle ==
    \A u \in Users : users[u] # None =>
        users'[u] # None /\ users'[u].tutors = users[u].tutors /\ users'[u].email = users[u].email

\* Subscriptions stay, with their students, and whoever was named stays named.
SubsStay ==
    /\ \A s \in Subscriptions : subs[s] # None =>
         subs'[s] # None /\ subs'[s].student = subs[s].student
    /\ named \subseteq named'

LEMMA InsertIsGentle ==
    ASSUME TypeOK, NEW u \in Users, NEW person, NEW tutors, Insert(u, person, tutors)
    PROVE  Gentle
BY DEF Insert, Gentle, TypeOK

LEMMA UnchangedStays ==
    /\ UNCHANGED users => Gentle
    /\ UNCHANGED <<subs, named>> => SubsStay
BY DEF Gentle, SubsStay

\* A request that does not move keeps its facts.
LEMMA FactsKept ==
    ASSUME TypeOK, Gentle, SubsStay, NEW q \in Requests,
           request'[q] = request[q], q \in news => q \in news',
           FormFacts(q), UserFacts(q), NamedFacts(q), FoundFacts(q)
    PROVE  FormFacts(q)' /\ UserFacts(q)' /\ NamedFacts(q)' /\ FoundFacts(q)'
<1>1. FormFacts(q)'
    BY DEF FormFacts, Enrolling
<1>2. UserFacts(q)'
    <2>1. request[q].tutor # None => request[q].tutor \in Users
        BY DEF TypeOK, RequestState
    <2>2. request[q].student # None => request[q].student \in Users
        BY DEF TypeOK, RequestState
    <2>3. Enrolling(q) => Responsible(q) \in Users /\ users[Responsible(q)] # None
        BY <2>1, <2>2 DEF Responsible, UserFacts, FormFacts
    <2>4. Enrolling(q)' = Enrolling(q) /\ Responsible(q)' = Responsible(q) /\ At(q, "payer")' = At(q, "payer")
        BY DEF Enrolling, Responsible, At
    <2> QED
        BY <2>1, <2>2, <2>3, <2>4 DEF UserFacts, FormFacts, Gentle
<1>3. NamedFacts(q)'
    <2>1. Enrolling(q)' = Enrolling(q) /\ Named(q, request[q].student)' = Named(q, request[q].student)
        BY DEF Enrolling, Named
    <2>2. Certain(q)' => Certain(q)
        BY DEF Certain
    <2> QED
        BY <2>1, <2>2 DEF NamedFacts, SubsStay
<1>4. FoundFacts(q)'
    BY DEF FoundFacts, SubsStay, At, TypeOK, RequestState
<1> QED
    BY <1>1, <1>2, <1>3, <1>4

\* A change of email is news to the requests that carry the user.
LEMMA ChangeFacts ==
    ASSUME TypeOK, TypeOK', ChangeUser, InFlight
    PROVE  InFlight'
<1>1. PICK u \in Users, c \in Changes :
        /\ users[u] # None
        /\ users' = [users EXCEPT ![u].email = Kept(c.email, users[u].email),
                                  ![u].rut = Kept(c.rut, users[u].rut)]
        /\ news' = IF Kept(c.email, users[u].email) = users[u].email THEN news
                   ELSE news \cup {r \in Requests : u \in {request[r].tutor, request[r].student}}
        /\ UNCHANGED <<plans, subs, request, named, suspect, admitted>>
    BY DEF ChangeUser
<1>2. users[u] \in UserRow
    BY <1>1 DEF TypeOK
<1>3. \A v \in Users \ {u} : users'[v] = users[v]
    BY <1>1 DEF TypeOK
<1>4. users'[u].email = Kept(c.email, users[u].email) /\ users'[u].tutors = users[u].tutors
    BY <1>1, <1>2 DEF TypeOK, UserRow
<1>5. \A v \in Users : users[v] # None => users'[v] # None /\ users'[v].tutors = users[v].tutors
    <2>1. c \in Change
        BY InputAssumption
    <2>2. Kept(c.email, users[u].email) \in Emails /\ Kept(c.rut, users[u].rut) \in Ruts
        BY <1>2, <2>1 DEF Kept, Change, UserRow
    <2>3. [users[u] EXCEPT !.email = Kept(c.email, users[u].email),
                           !.rut = Kept(c.rut, users[u].rut)] \in UserRow
        BY <1>2, <2>2 DEF UserRow
    <2>4. users'[u] \in UserRow
        BY <1>1, <2>3 DEF TypeOK
    <2>5. users'[u] # None
        BY <2>4, NoneAssumption
    <2> QED
        BY <1>3, <1>4, <2>5
<1>6. ASSUME NEW q \in Requests
      PROVE  FormFacts(q)' /\ UserFacts(q)' /\ NamedFacts(q)' /\ FoundFacts(q)'
    <2>1. FormFacts(q) /\ UserFacts(q) /\ NamedFacts(q) /\ FoundFacts(q)
        BY DEF InFlight
    <2>2. CASE Gentle
        BY <1>1, <2>1, <2>2, FactsKept, UnchangedStays
    <2>3. CASE ~Gentle
        <3>1. Kept(c.email, users[u].email) # users[u].email
            BY <1>3, <1>4, <1>5, <2>3 DEF Gentle
        <3>2. q \notin news' => request[q].tutor # u /\ request[q].student # u
            BY <1>1, <3>1
        <3>3. q \in news => q \in news'
            BY <1>1
        <3>4. request'[q] = request[q]
            BY <1>1
        <3>5. request[q].tutor # None => request[q].tutor \in Users
            BY DEF TypeOK, RequestState
        <3>6. request[q].student # None => request[q].student \in Users
            BY DEF TypeOK, RequestState
        <3>7. Enrolling(q)' = Enrolling(q) /\ Responsible(q)' = Responsible(q) /\ At(q, "payer")' = At(q, "payer")
            BY <3>4 DEF Enrolling, Responsible, At
        <3>8. Enrolling(q) => request[q].student \in Users
            BY <2>1, <3>6 DEF FormFacts
        <3>9. UserFacts(q)'
            <4>1. /\ request[q].tutor # None => users'[request[q].tutor] # None
                  /\ request[q].student # None => users'[request[q].student] # None
                BY <1>5, <2>1, <3>5, <3>6 DEF UserFacts
            <4>2. request[q].tutor # None /\ q \notin news' =>
                    users'[request[q].tutor].email = request[q].mail
                BY <1>3, <2>1, <3>2, <3>3, <3>5 DEF UserFacts
            <4>3. request[q].tutor # None => request[q].mail # None
                BY <2>1 DEF UserFacts
            <4>4. Enrolling(q) /\ q \notin news' => users'[Responsible(q)].email = request[q].mail
                BY <1>3, <2>1, <3>2, <3>3, <3>5, <3>8 DEF UserFacts, FormFacts, Responsible
            <4>5. Enrolling(q) /\ ~At(q, "payer") /\ q \notin news' => request[q].payer = Responsible(q)
                BY <2>1, <3>3 DEF UserFacts
            <4> QED
                BY <3>4, <3>7, <4>1, <4>2, <4>3, <4>4, <4>5 DEF UserFacts
        <3>10. FormFacts(q)' /\ FoundFacts(q)'
            BY <1>1, <2>1, <3>4 DEF FormFacts, FoundFacts, Enrolling, At
        <3>11. Certain(q)' => Certain(q)
            BY <3>3, <3>4 DEF Certain
        <3>12. NamedFacts(q)'
            BY <1>1, <2>1, <3>4, <3>7, <3>11 DEF NamedFacts, Named
        <3> QED
            BY <3>9, <3>10, <3>12
    <2> QED
        BY <2>2, <2>3
<1> QED
    BY <1>6 DEF InFlight

\* A step of request r: what is left to show is its own facts.
LEMMA OwnFacts ==
    ASSUME TypeOK, InFlight, Gentle, SubsStay, NEW r \in Requests,
           \A q \in Requests \ {r} : request'[q] = request[q] /\ (q \in news => q \in news'),
           FormFacts(r)' /\ UserFacts(r)' /\ NamedFacts(r)' /\ FoundFacts(r)'
    PROVE  InFlight'
<1>1. ASSUME NEW q \in Requests
      PROVE  FormFacts(q)' /\ UserFacts(q)' /\ NamedFacts(q)' /\ FoundFacts(q)'
    <2>1. CASE q = r
        BY <2>1
    <2>2. CASE q # r
        BY <2>2, FactsKept DEF InFlight
    <2> QED
        BY <2>1, <2>2
<1> QED
    BY <1>1 DEF InFlight

\* A request that ends has nothing left to know.
LEMMA FinishFacts ==
    ASSUME TypeOK, InFlight, Gentle, SubsStay, NEW r \in Requests, Finish(r)
    PROVE  InFlight'
<1>1. request'[r] = Idle
    BY DEF Finish, TypeOK
<1>2. FormFacts(r)' /\ UserFacts(r)' /\ NamedFacts(r)' /\ FoundFacts(r)'
    BY <1>1 DEF Idle, FormFacts, UserFacts, NamedFacts, FoundFacts, Enrolling, Late, At
<1>3. \A q \in Requests \ {r} : request'[q] = request[q] /\ (q \in news => q \in news')
    BY DEF Finish, TypeOK
<1> QED
    BY <1>2, <1>3, OwnFacts

\* A request that begins has the facts its first state shows.
LEMMA BecomeMoves ==
    ASSUME TypeOK, NEW r \in Requests, NEW state, Become(r, state)
    PROVE  /\ request'[r] = state
           /\ news' = news
           /\ \A q \in Requests \ {r} : request'[q] = request[q] /\ (q \in news => q \in news')
BY DEF Become, TypeOK

LEMMA NamedGrows ==
    ASSUME [Next]_vars
    PROVE  named \subseteq named'
<1>1. ASSUME NEW r \in Requests, InsertStudent(r) \/ ValidateUser(r)
      PROVE  named \subseteq named'
    BY <1>1 DEF InsertStudent, ValidateUser
<1>2. CASE UNCHANGED named
    BY <1>2
<1> QED
    BY <1>1, <1>2
    DEF Next, vars, history, ChangeUser, RemoveUser, RemovePlan, SwitchSubscription, AskUser,
        InsertUser, AskEnrolment, CheckTutor, InsertTutor, CheckStudent, AskSubscription,
        FindPlan, FindSubscription, WriteSubscription, Abort

\* Users keep their tutors in every step, and subscriptions their students.
LEMMA TablesStay ==
    ASSUME TypeOK, TypeOK', InFlight, [Next]_vars
    PROVE  /\ \A u \in Users : users[u] # None => users'[u] # None /\ users'[u].tutors = users[u].tutors
           /\ SubsStay
<1> USE NoneAssumption
<1>1. \A u \in Users : users[u] # None => users'[u] # None /\ users'[u].tutors = users[u].tutors
    <2>1. CASE UNCHANGED users
        BY <2>1
    <2>2. CASE ChangeUser
        <3>1. PICK u \in Users, c \in Changes :
                users[u] # None /\ users' = [users EXCEPT ![u].email = Kept(c.email, users[u].email),
                                                          ![u].rut = Kept(c.rut, users[u].rut)]
            BY <2>2 DEF ChangeUser
        <3>2. users[u] \in UserRow /\ c \in Change
            BY <3>1, InputAssumption DEF TypeOK
        <3>3. users'[u] = [users[u] EXCEPT !.email = Kept(c.email, users[u].email),
                                           !.rut = Kept(c.rut, users[u].rut)]
            BY <3>1 DEF TypeOK
        <3>4. Kept(c.email, users[u].email) \in Emails /\ Kept(c.rut, users[u].rut) \in Ruts
            BY <3>2 DEF Kept, Change, UserRow
        <3>5. users'[u] \in UserRow /\ users'[u].tutors = users[u].tutors
            BY <3>2, <3>3, <3>4 DEF UserRow
        <3> QED
            BY <3>1, <3>5 DEF TypeOK
    <2>3. CASE RemoveUser
        <3>1. PICK u \in Users : users[u] # None /\ users' = [users EXCEPT ![u].active = FALSE]
            BY <2>3 DEF RemoveUser
        <3>2. users[u] \in UserRow /\ users'[u] = [users[u] EXCEPT !.active = FALSE]
            BY <3>1 DEF TypeOK
        <3>3. users'[u] \in UserRow /\ users'[u].tutors = users[u].tutors
            BY <3>2 DEF UserRow
        <3> QED
            BY <3>1, <3>3 DEF TypeOK
    <2>4. ASSUME NEW r \in Requests, InsertUser(r) \/ InsertTutor(r) \/ InsertStudent(r)
          PROVE  \A u \in Users : users[u] # None => users'[u] # None /\ users'[u].tutors = users[u].tutors
        <3>1. UNCHANGED users \/ \E u \in Users : \E person, tutors : Insert(u, person, tutors)
            BY <2>4 DEF InsertUser, InsertTutor, InsertStudent
        <3> QED
            BY <2>1, <3>1, InsertIsGentle DEF Gentle
    <2> QED
        BY <2>1, <2>2, <2>3, <2>4
        DEF Next, vars, tables, RemovePlan, SwitchSubscription, AskUser, AskEnrolment, CheckTutor,
            CheckStudent, AskSubscription, ValidateUser, FindPlan, FindSubscription,
            WriteSubscription, Abort
<1>2. SubsStay
    <2> USE NamedGrows
    <2>1. CASE UNCHANGED subs
        BY <2>1 DEF SubsStay
    <2>2. CASE SwitchSubscription
        <3>1. PICK s \in Subscriptions : subs[s] # None /\ subs' = [subs EXCEPT ![s].open = ~subs[s].open]
            BY <2>2 DEF SwitchSubscription
        <3>2. subs[s] \in SubscriptionRow /\ subs'[s] = [subs[s] EXCEPT !.open = ~subs[s].open]
            BY <3>1 DEF TypeOK
        <3>3. subs'[s] \in SubscriptionRow /\ subs'[s].student = subs[s].student
            BY <3>2 DEF SubscriptionRow
        <3> QED
            BY <3>1, <3>3 DEF SubsStay, TypeOK
    <2>3. ASSUME NEW r \in Requests, WriteSubscription(r)
          PROVE  SubsStay
        <3>1. CASE request[r].sub # None
            <4> DEFINE s == request[r].sub
            <4>1. s \in Subscriptions /\ subs[s] \in SubscriptionRow /\ request[r].payer \in Users
                BY <2>3, <3>1 DEF WriteSubscription, InFlight, FoundFacts, FormFacts, At, TypeOK, RequestState
            <4>2. subs' = [subs EXCEPT ![s].payer = request[r].payer]
                BY <2>3, <3>1 DEF WriteSubscription
            <4>3. subs'[s] = [subs[s] EXCEPT !.payer = request[r].payer]
                BY <4>1, <4>2 DEF TypeOK
            <4>4. subs'[s] \in SubscriptionRow /\ subs'[s].student = subs[s].student
                BY <4>1, <4>3 DEF SubscriptionRow
            <4> QED
                BY <4>1, <4>2, <4>4 DEF SubsStay, TypeOK
        <3>2. CASE request[r].sub = None
            BY <2>3, <3>2 DEF WriteSubscription, SubsStay, TypeOK
        <3> QED
            BY <3>1, <3>2
    <2> QED
        BY <2>1, <2>2, <2>3
        DEF Next, vars, tables, ChangeUser, RemoveUser, RemovePlan, AskUser, InsertUser,
            AskEnrolment, CheckTutor, InsertTutor, CheckStudent, InsertStudent, AskSubscription,
            ValidateUser, FindPlan, FindSubscription, Abort
<1> QED
    BY <1>1, <1>2

LEMMA InFlightKept ==
    ASSUME TypeOK, TypeOK', OneUserPerKey, InFlight, [Next]_vars
    PROVE  InFlight'
<1> USE NoneAssumption
<1>1. CASE UNCHANGED vars
    <2>1. Gentle /\ SubsStay
        BY <1>1, UnchangedStays DEF vars
    <2> QED
        BY <1>1, <2>1, FactsKept DEF vars, InFlight
<1>2. CASE ChangeUser
    BY <1>2, ChangeFacts
<1>3. CASE RemoveUser
    <2>1. Gentle
        <3>1. PICK u \in Users : users[u] # None /\ users' = [users EXCEPT ![u].active = FALSE]
            BY <1>3 DEF RemoveUser
        <3>2. users[u] \in UserRow /\ users'[u] = [users[u] EXCEPT !.active = FALSE]
            BY <3>1 DEF TypeOK
        <3>3. users'[u] \in UserRow /\ users'[u].tutors = users[u].tutors /\ users'[u].email = users[u].email
            BY <3>2 DEF UserRow
        <3> QED
            BY <3>1, <3>3 DEF Gentle, TypeOK
    <2> QED
        BY <1>3, <2>1, UnchangedStays, FactsKept DEF RemoveUser, InFlight, history
<1>4. CASE RemovePlan
    BY <1>4, UnchangedStays, FactsKept DEF RemovePlan, InFlight, history
<1>5. CASE SwitchSubscription
    BY <1>5, TablesStay, UnchangedStays, FactsKept DEF SwitchSubscription, InFlight, history
<1>6. ASSUME NEW r \in Requests, Finish(r), UNCHANGED <<users, subs, named>>
      PROVE  InFlight'
    BY <1>6, UnchangedStays, FinishFacts
<1>7. ASSUME NEW r \in Requests, AskUser(r)
      PROVE  InFlight'
    <2>1. PICK a \in Arrivals :
            Become(r, [Idle EXCEPT !.at = "insertUser", !.pupil = a.person, !.tutors = a.tutors])
        BY <1>7 DEF AskUser
    <2>2. /\ request'[r] = [Idle EXCEPT !.at = "insertUser", !.pupil = a.person, !.tutors = a.tutors]
          /\ a.person # None
        <3>1. a.person \in Person /\ Person \subseteq Guardian
            BY InputAssumption DEF Arrival, Person, Guardian
        <3> QED
            BY <2>1, <3>1, BecomeMoves
    <2>3. FormFacts(r)' /\ UserFacts(r)' /\ NamedFacts(r)' /\ FoundFacts(r)'
        BY <2>2 DEF Idle, FormFacts, UserFacts, NamedFacts, FoundFacts, Enrolling, Late, At
    <2> QED
        BY <1>7, <2>1, <2>3, BecomeMoves, OwnFacts, UnchangedStays DEF AskUser, tables
<1>8. ASSUME NEW r \in Requests, InsertUser(r)
      PROVE  InFlight'
    <2>1. Gentle
        BY <1>8, InsertIsGentle, UnchangedStays DEF InsertUser
    <2> QED
        BY <1>8, <2>1, UnchangedStays, FinishFacts DEF InsertUser
<1>9. ASSUME NEW r \in Requests, AskEnrolment(r)
      PROVE  InFlight'
    <2> DEFINE begun(form) == [Idle EXCEPT !.enrols = TRUE, !.pupil = form.pupil,
                                           !.guardian = form.guardian, !.plan = form.plan]
    <2>1. PICK form \in Applications :
            \/ form.guardian = None /\ Become(r, [begun(form) EXCEPT !.at = "insertStudent"])
            \/ /\ form.guardian # None
               /\ \E u \in Users :
                    /\ users[u] # None
                    /\ Become(r, [begun(form) EXCEPT !.at = "checkStudent", !.tutor = u,
                                                     !.mail = users[u].email])
            \/ form.guardian # None /\ Become(r, [begun(form) EXCEPT !.at = "checkTutor"])
        BY <1>9 DEF AskEnrolment, FoundBy
    <2>2. form.pupil # None /\ form.plan # None
        <3>1. form.pupil \in Person /\ form.plan \in Plans /\ Person \subseteq Guardian
            BY InputAssumption DEF Application, Person, Guardian
        <3> QED
            BY <3>1
    <2>3. UNCHANGED users
        BY <1>9 DEF AskEnrolment, tables
    <2>4. FormFacts(r)' /\ UserFacts(r)' /\ NamedFacts(r)' /\ FoundFacts(r)' /\ \E state : Become(r, state)
        <3>1. CASE form.guardian = None /\ Become(r, [begun(form) EXCEPT !.at = "insertStudent"])
            <4>1. request'[r] = [begun(form) EXCEPT !.at = "insertStudent"]
                BY <3>1, BecomeMoves
            <4> QED
                BY <2>2, <3>1, <4>1 DEF Idle, FormFacts, UserFacts, NamedFacts, FoundFacts, Enrolling, Late, At
        <3>2. ASSUME form.guardian # None, NEW u \in Users, users[u] # None,
                     Become(r, [begun(form) EXCEPT !.at = "checkStudent", !.tutor = u,
                                                   !.mail = users[u].email])
              PROVE  FormFacts(r)' /\ UserFacts(r)' /\ NamedFacts(r)' /\ FoundFacts(r)' /\ \E state : Become(r, state)
            <4>1. request'[r] = [begun(form) EXCEPT !.at = "checkStudent", !.tutor = u,
                                                    !.mail = users[u].email]
                BY <3>2, BecomeMoves
            <4>2. users[u].email # None
                BY <3>2 DEF TypeOK, UserRow
            <4> QED
                BY <2>2, <2>3, <3>2, <4>1, <4>2 DEF Idle, FormFacts, UserFacts, NamedFacts, FoundFacts, Enrolling, Late, At
        <3>3. CASE form.guardian # None /\ Become(r, [begun(form) EXCEPT !.at = "checkTutor"])
            <4>1. request'[r] = [begun(form) EXCEPT !.at = "checkTutor"]
                BY <3>3, BecomeMoves
            <4> QED
                BY <2>2, <3>3, <4>1 DEF Idle, FormFacts, UserFacts, NamedFacts, FoundFacts, Enrolling, Late, At
        <3> QED
            BY <2>1, <3>1, <3>2, <3>3
    <2> QED
        BY <1>9, <2>4, BecomeMoves, OwnFacts, UnchangedStays DEF AskEnrolment, tables
<1>10. ASSUME NEW r \in Requests, NEW from, NEW to, At(r, from), GoTo(r, to), UNCHANGED <<users, subs, named>>,
              to = "insertTutor" => request[r].guardian \in Person,
              <<from, to>> \in {<<"checkTutor", "insertTutor">>, <<"checkStudent", "insertStudent">>,
                                <<"plan", "find">>}
       PROVE  InFlight'
    <2>1. request'[r] = [request[r] EXCEPT !.at = to] /\ news' = news
        BY <1>10, BecomeMoves DEF GoTo
    <2>2. request[r] \in RequestState
        BY DEF TypeOK
    <2>3. /\ request'[r].at = to
          /\ request'[r].enrols = request[r].enrols
          /\ request'[r].pupil = request[r].pupil /\ request'[r].guardian = request[r].guardian
          /\ request'[r].tutor = request[r].tutor /\ request'[r].student = request[r].student
          /\ request'[r].mail = request[r].mail /\ request'[r].plan = request[r].plan
          /\ request'[r].payer = request[r].payer /\ request'[r].sub = request[r].sub
        BY <2>1, <2>2 DEF RequestState
    <2>4. FormFacts(r) /\ UserFacts(r) /\ NamedFacts(r)
        BY DEF InFlight
    <2>5. FormFacts(r)' /\ UserFacts(r)' /\ NamedFacts(r)' /\ FoundFacts(r)'
        BY <1>10, <2>1, <2>3, <2>4
        DEF FormFacts, UserFacts, NamedFacts, FoundFacts, Enrolling, Responsible, Named, Certain, Late, At
    <2> QED
        BY <1>10, <2>5, BecomeMoves, OwnFacts, UnchangedStays DEF GoTo
<1>11. ASSUME NEW r \in Requests, CheckTutor(r) \/ CheckStudent(r) \/ FindPlan(r) \/ Abort(r)
       PROVE  InFlight'
    BY <1>6, <1>10, <1>11 DEF CheckTutor, CheckStudent, FindPlan, Abort, tables
<1>12. ASSUME NEW r \in Requests, InsertTutor(r)
       PROVE  InFlight'
    <2>1. CASE UNCHANGED users /\ Finish(r)
        BY <1>6, <1>12, <2>1 DEF InsertTutor
    <2>2. ASSUME NEW u \in Users, Insert(u, request[r].guardian, {}),
                 Become(r, [request[r] EXCEPT !.at = "checkStudent", !.tutor = u,
                                                  !.mail = request[r].guardian.email])
          PROVE  InFlight'
        <3>1. request'[r] = [request[r] EXCEPT !.at = "checkStudent", !.tutor = u,
                                              !.mail = request[r].guardian.email]
            BY <2>2, BecomeMoves
        <3>2. request[r] \in RequestState
            BY DEF TypeOK
        <3>3. /\ request'[r].at = "checkStudent" /\ request'[r].tutor = u
              /\ request'[r].mail = request[r].guardian.email
              /\ request'[r].pupil = request[r].pupil /\ request'[r].guardian = request[r].guardian
              /\ request'[r].student = request[r].student /\ request'[r].plan = request[r].plan
            BY <3>1, <3>2 DEF RequestState
        <3>4. At(r, "checkTutor") \/ At(r, "insertTutor")
            BY <1>12 DEF InsertTutor
        <3>5. /\ users'[u] # None /\ users'[u].email = request[r].guardian.email
              /\ request[r].guardian.email # None
            <4>1. users'[u] = NewUser(request[r].guardian, {})
                BY <2>2 DEF Insert, TypeOK
            <4>2. request[r].guardian \in Person
                BY <1>12, <3>2 DEF InsertTutor, InFlight, FormFacts, At, RequestState
            <4> QED
                BY <4>1, <4>2, NewUserType DEF NewUser, Person
        <3>6. FormFacts(r) /\ UserFacts(r)
            BY DEF InFlight
        <3>7. Gentle /\ SubsStay
            BY <1>12, <2>2, InsertIsGentle, UnchangedStays DEF InsertTutor
        <3>8. request[r].student # None => users'[request[r].student] # None
            BY <3>2, <3>6, <3>7 DEF UserFacts, Gentle, RequestState
        <3>9. FormFacts(r)' /\ UserFacts(r)' /\ NamedFacts(r)' /\ FoundFacts(r)'
            BY <3>3, <3>4, <3>5, <3>6, <3>8 DEF FormFacts, UserFacts, NamedFacts, FoundFacts, Enrolling, Late, At
        <3> QED
            BY <2>2, <3>7, <3>9, BecomeMoves, OwnFacts
    <2> QED
        BY <1>12, <2>1, <2>2 DEF InsertTutor
<1>13. ASSUME NEW r \in Requests, InsertStudent(r)
       PROVE  InFlight'
    <2>1. CASE UNCHANGED <<users, named>> /\ Finish(r)
        BY <1>6, <1>13, <2>1 DEF InsertStudent
    <2>2. ASSUME NEW u \in Users, Insert(u, request[r].pupil, TutorLinks(r)),
                 Become(r, [request[r] EXCEPT !.at = "payer", !.student = u, !.mail = PayerEmail(r)]),
                 named' = named \cup Named(r, u)
          PROVE  InFlight'
        <3>1. request'[r] = [request[r] EXCEPT !.at = "payer", !.student = u, !.mail = PayerEmail(r)]
              /\ news' = news
            BY <2>2, BecomeMoves
        <3>2. request[r] \in RequestState
            BY DEF TypeOK
        <3>3. /\ request'[r].at = "payer" /\ request'[r].student = u /\ request'[r].mail = PayerEmail(r)
              /\ request'[r].tutor = request[r].tutor /\ request'[r].guardian = request[r].guardian
              /\ request'[r].plan = request[r].plan /\ request'[r].enrols = request[r].enrols
            BY <3>1, <3>2 DEF RequestState
        <3>4. users'[u] # None /\ users'[u].email = request[r].pupil.email
            <4>1. users'[u] = NewUser(request[r].pupil, TutorLinks(r))
                BY <2>2 DEF Insert, TypeOK
            <4>2. request[r].pupil \in Person /\ TutorLinks(r) \in SUBSET Users
                BY <1>13, <3>2 DEF InsertStudent, InFlight, FormFacts, At, RequestState, TutorLinks, Late
            <4> QED
                BY <4>1, <4>2, NewUserType DEF NewUser
        <3>5. FormFacts(r) /\ UserFacts(r) /\ At(r, "insertStudent")
            BY <1>13 DEF InFlight, InsertStudent
        <3>6. Gentle /\ SubsStay
            BY <1>13, <2>2, InsertIsGentle DEF InsertStudent, SubsStay
        <3>7. request[r].tutor # None =>
                users'[request[r].tutor] # None /\ users'[request[r].tutor].email = users[request[r].tutor].email
            BY <3>2, <3>5, <3>6 DEF UserFacts, Gentle, RequestState
        <3>8. FormFacts(r)'
            BY <3>3, <3>5 DEF FormFacts, Enrolling, Late, At
        <3>9. FoundFacts(r)'
            BY <3>3 DEF FoundFacts, At
        <3>10. UserFacts(r)'
            BY <3>1, <3>3, <3>4, <3>5, <3>7
            DEF UserFacts, Enrolling, Responsible, TutorLinks, PayerEmail, At
        <3>11. NamedFacts(r)'
            BY <2>2, <3>3 DEF NamedFacts, Named
        <3> QED
            BY <2>2, <3>6, <3>8, <3>9, <3>10, <3>11, BecomeMoves, OwnFacts
    <2> QED
        BY <1>13, <2>1, <2>2 DEF InsertStudent
<1>14. ASSUME NEW r \in Requests, AskSubscription(r)
       PROVE  InFlight'
    <2>1. PICK o \in Orders :
            /\ o.student # None => users[o.student] # None
            /\ Become(r, [Idle EXCEPT !.at = "payer", !.mail = o.email, !.student = o.student,
                                      !.plan = o.plan])
        BY <1>14 DEF AskSubscription
    <2>2. request'[r] = [Idle EXCEPT !.at = "payer", !.mail = o.email, !.student = o.student,
                                     !.plan = o.plan]
        BY <2>1, BecomeMoves
    <2>3. o.plan # None /\ UNCHANGED users
        BY <1>14, InputAssumption DEF AskSubscription, Order, tables
    <2>4. FormFacts(r)' /\ UserFacts(r)' /\ NamedFacts(r)' /\ FoundFacts(r)'
        BY <2>1, <2>2, <2>3 DEF Idle, FormFacts, UserFacts, NamedFacts, FoundFacts, Enrolling, Late, At
    <2> QED
        BY <1>14, <2>1, <2>4, BecomeMoves, OwnFacts, UnchangedStays DEF AskSubscription, tables
<1>15. ASSUME NEW r \in Requests, ValidateUser(r)
       PROVE  InFlight'
    <2>1. CASE Finish(r) /\ UNCHANGED named
        BY <1>6, <1>15, <2>1 DEF ValidateUser, tables
    <2>2. ASSUME NEW u \in Payers(request[r].mail),
                 Become(r, [request[r] EXCEPT !.at = "plan", !.payer = u, !.student = Kept(request[r].student, u)]),
                 named' = IF request[r].enrols THEN named
                          ELSE named \cup {<<u, Kept(request[r].student, u)>>}
          PROVE  InFlight'
        <3>1. request'[r] = [request[r] EXCEPT !.at = "plan", !.payer = u, !.student = Kept(request[r].student, u)]
              /\ news' = news
            BY <2>2, BecomeMoves
        <3>2. request[r] \in RequestState
            BY DEF TypeOK
        <3>3. /\ request'[r].at = "plan" /\ request'[r].payer = u
              /\ request'[r].student = Kept(request[r].student, u)
              /\ request'[r].enrols = request[r].enrols
              /\ request'[r].tutor = request[r].tutor /\ request'[r].guardian = request[r].guardian
              /\ request'[r].mail = request[r].mail /\ request'[r].plan = request[r].plan
            BY <3>1, <3>2 DEF RequestState
        <3>4. u \in Users /\ users[u] # None /\ users[u].email = request[r].mail
            BY <2>2 DEF Payers
        <3>5. FormFacts(r) /\ UserFacts(r) /\ NamedFacts(r) /\ At(r, "payer") /\ UNCHANGED <<users, subs>>
            BY <1>15 DEF InFlight, ValidateUser, tables
        <3>6. Enrolling(r)' = Enrolling(r) /\ (Enrolling(r) => request[r].student # None)
            BY <3>3, <3>5 DEF Enrolling, Late, At, FormFacts
        <3>7. request[r].student # None => Kept(request[r].student, u) = request[r].student
            BY DEF Kept
        <3>8. Enrolling(r) => Responsible(r)' = Responsible(r) /\ Responsible(r) \in Users
                              /\ users[Responsible(r)] # None
            BY <3>2, <3>3, <3>5, <3>6, <3>7 DEF Responsible, UserFacts, RequestState
        <3>9. Enrolling(r) /\ r \notin news => u = Responsible(r)
            BY <3>4, <3>5, <3>8 DEF UserFacts, OneUserPerKey
        <3>10. Kept(request[r].student, u) # None /\ users[Kept(request[r].student, u)] # None
            BY <3>4, <3>5 DEF Kept, UserFacts
        <3>11. FormFacts(r)'
            BY <3>3, <3>4, <3>5, <3>6, <3>10 DEF FormFacts, Late, At
        <3>12. UserFacts(r)'
            BY <3>1, <3>3, <3>5, <3>6, <3>7, <3>8, <3>9, <3>10 DEF UserFacts
        <3>14. SubsStay
            BY <2>2, <3>5 DEF SubsStay
        <3>15. NamedFacts(r)'
            <4>1. CASE ~request[r].enrols
                BY <2>2, <3>3, <4>1 DEF NamedFacts, Enrolling
            <4>2. CASE request[r].enrols
                <5>1. Enrolling(r) /\ UNCHANGED named
                    BY <2>2, <3>5, <4>2 DEF Enrolling, Late, At
                <5>2. Named(r, request[r].student) \subseteq named
                    BY <3>5, <5>1 DEF NamedFacts
                <5>3. /\ Named(r, request[r].student)' = Named(r, request[r].student)
                      /\ request'[r].student = request[r].student
                    BY <3>3, <3>6, <3>7, <5>1 DEF Named
                <5>4. Certain(r)' => <<Responsible(r), request[r].student>> \in Named(r, request[r].student)
                    BY <3>1, <3>3, <3>5, <4>2, <5>1 DEF Certain, Responsible, Named, FormFacts, Enrolling
                <5>5. Certain(r)' => u = Responsible(r)
                    BY <3>1, <3>3, <3>9, <4>2, <5>1 DEF Certain
                <5> QED
                    BY <3>3, <5>1, <5>2, <5>3, <5>4, <5>5 DEF NamedFacts
            <4> QED
                BY <4>1, <4>2
        <3>13. FoundFacts(r)'
            BY <3>3 DEF FoundFacts, At
        <3> QED
            BY <2>2, <3>5, <3>11, <3>12, <3>13, <3>14, <3>15, BecomeMoves, OwnFacts, UnchangedStays
    <2> QED
        BY <1>15, <2>1, <2>2 DEF ValidateUser
<1>16. ASSUME NEW r \in Requests, FindSubscription(r)
       PROVE  InFlight'
    <2>1. PICK s \in Subscriptions \cup {None} :
            /\ s # None => subs[s] # None /\ subs[s].student = request[r].student
            /\ Become(r, [request[r] EXCEPT !.at = "write", !.sub = s])
        BY <1>16 DEF FindSubscription, Current
    <2>2. request'[r] = [request[r] EXCEPT !.at = "write", !.sub = s] /\ news' = news
        BY <2>1, BecomeMoves
    <2>3. request[r] \in RequestState
        BY DEF TypeOK
    <2>4. /\ request'[r].at = "write" /\ request'[r].sub = s
          /\ request'[r].enrols = request[r].enrols
          /\ request'[r].tutor = request[r].tutor /\ request'[r].guardian = request[r].guardian
          /\ request'[r].student = request[r].student /\ request'[r].payer = request[r].payer
          /\ request'[r].mail = request[r].mail /\ request'[r].plan = request[r].plan
        BY <2>2, <2>3 DEF RequestState
    <2>5. FormFacts(r) /\ UserFacts(r) /\ NamedFacts(r) /\ At(r, "find") /\ UNCHANGED <<users, subs, named>>
        BY <1>16 DEF InFlight, FindSubscription, tables
    <2>6. FormFacts(r)' /\ UserFacts(r)' /\ NamedFacts(r)' /\ FoundFacts(r)'
        BY <2>1, <2>2, <2>4, <2>5 DEF FormFacts, UserFacts, NamedFacts, FoundFacts, Enrolling, Responsible, Named, Certain, Late, At
    <2> QED
        BY <2>1, <2>5, <2>6, BecomeMoves, OwnFacts, UnchangedStays
<1>17. ASSUME NEW r \in Requests, WriteSubscription(r)
       PROVE  InFlight'
    BY <1>17, TablesStay, UnchangedStays, FinishFacts DEF WriteSubscription
<1> QED
    BY <1>1, <1>2, <1>3, <1>4, <1>5, <1>7, <1>8, <1>9, <1>11, <1>12, <1>13, <1>14, <1>15,
       <1>16, <1>17 DEF Next

-----------------------------------------------------------------------------
(***************************************************************************)
(* Payers and newcomers                                                    *)
(***************************************************************************)
LEMMA PayerKept ==
    ASSUME TypeOK, InFlight, PayerWasNamed, [Next]_vars
    PROVE  PayerWasNamed'
<1> USE NamedGrows
<1>1. CASE UNCHANGED <<subs, suspect>>
    BY <1>1 DEF PayerWasNamed
<1>2. CASE SwitchSubscription
    <2>1. PICK e \in Subscriptions : subs[e] # None /\ subs' = [subs EXCEPT ![e].open = ~subs[e].open]
        BY <1>2 DEF SwitchSubscription
    <2>2. subs[e] \in SubscriptionRow /\ subs'[e] = [subs[e] EXCEPT !.open = ~subs[e].open]
        BY <2>1 DEF TypeOK
    <2>3. \A s \in Subscriptions : subs'[s] # None =>
            subs[s] # None /\ subs'[s].payer = subs[s].payer /\ subs'[s].student = subs[s].student
        BY <2>1, <2>2 DEF TypeOK, SubscriptionRow
    <2> QED
        BY <1>2, <2>3 DEF SwitchSubscription, history, PayerWasNamed
<1>3. ASSUME NEW r \in Requests, WriteSubscription(r)
      PROVE  PayerWasNamed'
    <2> SUFFICES ASSUME NEW s \in Subscriptions, s \notin suspect', subs'[s] # None
                 PROVE  <<subs'[s].payer, subs'[s].student>> \in named
        BY <1>3 DEF PayerWasNamed
    <2>1. PICK w \in Subscriptions :
            /\ subs'[w].student = request[r].student /\ subs'[w].payer = request[r].payer
            /\ \A x \in Subscriptions \ {w} : subs'[x] = subs[x]
            /\ Recorded(r, w)
        <3>1. CASE request[r].sub # None
            <4> DEFINE w == request[r].sub
            <4>1. w \in Subscriptions /\ subs[w] \in SubscriptionRow /\ subs[w].student = request[r].student
                BY <1>3, <3>1 DEF WriteSubscription, InFlight, FoundFacts, At, TypeOK, RequestState
            <4>2. subs' = [subs EXCEPT ![w].payer = request[r].payer] /\ Recorded(r, w)
                BY <1>3, <3>1 DEF WriteSubscription
            <4>3. subs'[w] = [subs[w] EXCEPT !.payer = request[r].payer]
                BY <4>1, <4>2 DEF TypeOK
            <4>4. subs'[w].payer = request[r].payer /\ subs'[w].student = request[r].student
                BY <4>1, <4>3 DEF SubscriptionRow
            <4>5. \A x \in Subscriptions \ {w} : subs'[x] = subs[x]
                BY <4>2 DEF TypeOK
            <4> QED
                BY <4>1, <4>2, <4>4, <4>5
        <3>2. CASE request[r].sub = None
            <4>1. PICK w \in Subscriptions :
                    subs' = [subs EXCEPT ![w] = NewSubscription(r)] /\ Recorded(r, w)
                BY <1>3, <3>2 DEF WriteSubscription
            <4> QED
                BY <4>1 DEF NewSubscription, TypeOK
        <3> QED
            BY <3>1, <3>2
    <2>2. CASE s # w
        BY <2>1, <2>2 DEF Recorded, PayerWasNamed
    <2>3. CASE s = w
        <3>1. Certain(r)
            BY <2>1, <2>3 DEF Recorded
        <3>2. <<request[r].payer, request[r].student>> \in named
            BY <1>3, <3>1 DEF WriteSubscription, At, InFlight, NamedFacts
        <3> QED
            BY <2>1, <2>3, <3>2
    <2> QED
        BY <2>2, <2>3
<1> QED
    BY <1>1, <1>2, <1>3
    DEF Next, vars, tables, history, ChangeUser, RemoveUser, RemovePlan, AskUser, InsertUser,
        AskEnrolment, CheckTutor, InsertTutor, CheckStudent, InsertStudent, AskSubscription,
        ValidateUser, FindPlan, FindSubscription, Abort

\* No step but the insertion of the student makes a request one that enrols it.
LEMMA EnrollingKept ==
    ASSUME TypeOK, InFlight, [Next]_vars, \A r \in Requests : ~InsertStudent(r)
    PROVE  \A q \in Requests : Enrolling(q)' =>
                Enrolling(q) /\ request'[q].student = request[q].student
<1> DEFINE Same(q) == Enrolling(q)' => Enrolling(q) /\ request'[q].student = request[q].student
<1>1. ASSUME NEW q \in Requests, request'[q] = request[q]
      PROVE  Same(q)
    BY <1>1 DEF Enrolling
<1>2. ASSUME NEW q \in Requests, ~(request'[q].enrols /\ request'[q].at \in Late)
      PROVE  Same(q)
    BY <1>2 DEF Enrolling
<1>3. ASSUME NEW r \in Requests, NEW state, Become(r, state), ~(state.enrols /\ state.at \in Late)
      PROVE  \A q \in Requests : Same(q)
    BY <1>1, <1>2, <1>3, BecomeMoves
<1>4. ASSUME NEW r \in Requests, Finish(r)
      PROVE  \A q \in Requests : Same(q)
    <2>1. request'[r] = Idle /\ \A q \in Requests \ {r} : request'[q] = request[q]
        BY <1>4 DEF Finish, TypeOK
    <2> QED
        BY <1>1, <1>2, <2>1 DEF Idle
<1>5. ASSUME NEW r \in Requests, NEW state, Become(r, state), At(r, "payer") \/ At(r, "plan") \/ At(r, "find"),
             state.enrols = request[r].enrols, Enrolling(r) => state.student = request[r].student
      PROVE  \A q \in Requests : Same(q)
    BY <1>1, <1>5, BecomeMoves DEF Enrolling, Late, At
<1>6. CASE UNCHANGED request
    BY <1>1, <1>6
<1>7. ASSUME NEW r \in Requests, AskUser(r)
      PROVE  \A q \in Requests : Same(q)
    <2>1. PICK a \in Arrivals :
            Become(r, [Idle EXCEPT !.at = "insertUser", !.pupil = a.person, !.tutors = a.tutors])
        BY <1>7 DEF AskUser
    <2>2. [Idle EXCEPT !.at = "insertUser", !.pupil = a.person, !.tutors = a.tutors].enrols = FALSE
        BY DEF Idle
    <2> QED
        BY <1>3, <2>1, <2>2
<1>8. ASSUME NEW r \in Requests, AskEnrolment(r)
      PROVE  \A q \in Requests : Same(q)
    <2> DEFINE begun(form) == [Idle EXCEPT !.enrols = TRUE, !.pupil = form.pupil,
                                           !.guardian = form.guardian, !.plan = form.plan]
    <2>1. PICK form \in Applications :
            \/ Become(r, [begun(form) EXCEPT !.at = "insertStudent"])
            \/ \E u \in Users :
                 Become(r, [begun(form) EXCEPT !.at = "checkStudent", !.tutor = u,
                                               !.mail = users[u].email])
            \/ Become(r, [begun(form) EXCEPT !.at = "checkTutor"])
        BY <1>8 DEF AskEnrolment, FoundBy
    <2>2. /\ [begun(form) EXCEPT !.at = "insertStudent"].at = "insertStudent"
          /\ [begun(form) EXCEPT !.at = "checkTutor"].at = "checkTutor"
          /\ \A u \in Users : [begun(form) EXCEPT !.at = "checkStudent", !.tutor = u,
                                                   !.mail = users[u].email].at = "checkStudent"
        BY DEF Idle
    <2> HIDE DEF begun
    <2>3. {"insertStudent", "checkTutor", "checkStudent"} \cap Late = {}
        BY DEF Late
    <2> QED
        BY <1>3, <2>1, <2>2, <2>3
<1>9. ASSUME NEW r \in Requests, AskSubscription(r)
      PROVE  \A q \in Requests : Same(q)
    <2>1. PICK o \in Orders :
            Become(r, [Idle EXCEPT !.at = "payer", !.mail = o.email, !.student = o.student,
                                   !.plan = o.plan])
        BY <1>9 DEF AskSubscription
    <2>2. [Idle EXCEPT !.at = "payer", !.mail = o.email, !.student = o.student, !.plan = o.plan].enrols = FALSE
        BY DEF Idle
    <2> QED
        BY <1>3, <2>1, <2>2
<1>10. ASSUME NEW r \in Requests, CheckTutor(r) \/ CheckStudent(r)
       PROVE  \A q \in Requests : Same(q)
    <2>1. \A place : [request[r] EXCEPT !.at = place].at = place
        BY DEF TypeOK, RequestState
    <2>2. "insertTutor" \notin Late /\ "insertStudent" \notin Late
        BY DEF Late
    <2> QED
        BY <1>3, <1>4, <1>10, <2>1, <2>2 DEF CheckTutor, CheckStudent, GoTo
<1>11. ASSUME NEW r \in Requests, InsertTutor(r)
       PROVE  \A q \in Requests : Same(q)
    <2>1. \A u \in Users : [request[r] EXCEPT !.at = "checkStudent", !.tutor = u,
                                              !.mail = request[r].guardian.email].at = "checkStudent"
        BY DEF TypeOK, RequestState
    <2>2. "checkStudent" \notin Late
        BY DEF Late
    <2> QED
        BY <1>3, <1>4, <1>11, <2>1, <2>2 DEF InsertTutor
<1>12. ASSUME NEW r \in Requests, ValidateUser(r)
       PROVE  \A q \in Requests : Same(q)
    <2>1. Enrolling(r) => request[r].student # None
        BY DEF InFlight, FormFacts
    <2>2. ASSUME NEW u \in Users
          PROVE  LET state == [request[r] EXCEPT !.at = "plan", !.payer = u,
                                                 !.student = Kept(request[r].student, u)]
                 IN state.enrols = request[r].enrols /\ (Enrolling(r) => state.student = request[r].student)
        BY <2>1 DEF TypeOK, RequestState, Kept
    <2> QED
        BY <1>4, <1>5, <1>12, <2>2 DEF ValidateUser, Payers
<1>13. ASSUME NEW r \in Requests, FindPlan(r)
       PROVE  \A q \in Requests : Same(q)
    <2>1. LET state == [request[r] EXCEPT !.at = "find"]
          IN state.enrols = request[r].enrols /\ state.student = request[r].student
        BY DEF TypeOK, RequestState
    <2> QED
        BY <1>4, <1>5, <1>13, <2>1 DEF FindPlan, GoTo
<1>14. ASSUME NEW r \in Requests, FindSubscription(r)
       PROVE  \A q \in Requests : Same(q)
    <2>1. PICK s \in Subscriptions \cup {None} : Become(r, [request[r] EXCEPT !.at = "write", !.sub = s])
        BY <1>14 DEF FindSubscription, Current
    <2>2. LET state == [request[r] EXCEPT !.at = "write", !.sub = s]
          IN state.enrols = request[r].enrols /\ state.student = request[r].student
        BY DEF TypeOK, RequestState
    <2> QED
        BY <1>5, <1>14, <2>1, <2>2 DEF FindSubscription
<1> QED
    BY <1>4, <1>6, <1>7, <1>8, <1>9, <1>10, <1>11, <1>12, <1>13, <1>14
    DEF Next, vars, ChangeUser, RemoveUser, RemovePlan, SwitchSubscription, InsertUser,
        WriteSubscription, Abort

LEMMA NewcomersKept ==
    ASSUME TypeOK, TypeOK', InFlight, InFlight', Newcomers, AdmittedOnce, [Next]_vars
    PROVE  Newcomers' /\ AdmittedOnce'
<1> USE NoneAssumption
<1>1. \A s \in Subscriptions : subs[s] # None =>
        subs'[s] # None /\ subs'[s].student = subs[s].student
    BY TablesStay DEF SubsStay
<1>2. \A u \in Users : users[u] # None => users'[u] # None
    BY TablesStay
<1>3. ASSUME UNCHANGED admitted, \A s \in Subscriptions : subs'[s] # None => subs[s] # None
      PROVE  /\ \A s \in Subscriptions : subs'[s] # None => users'[subs'[s].student] # None
             /\ \A s \in admitted' : subs'[s] # None
             /\ AdmittedOnce'
    <2>1. \A s \in Subscriptions : subs[s] # None => subs[s].student \in Users
        BY DEF TypeOK, SubscriptionRow
    <2>2. \A s \in Subscriptions : subs'[s] # None => users'[subs'[s].student] # None
        BY <1>1, <1>2, <1>3, <2>1 DEF Newcomers
    <2>3. admitted \subseteq Subscriptions
        BY DEF TypeOK
    <2> QED
        BY <1>1, <1>3, <2>2, <2>3 DEF Newcomers, AdmittedOnce
<1>4. ASSUME NEW r \in Requests, InsertStudent(r)
      PROVE  Newcomers' /\ AdmittedOnce'
    <2>1. UNCHANGED <<subs, admitted>>
        BY <1>4 DEF InsertStudent
    <2>2. \A q \in Requests \ {r} : request'[q] = request[q]
        BY <1>4 DEF InsertStudent, Become, Finish, TypeOK
    <2>3. Enrolling(r)' => request'[r].student \in Users /\ users[request'[r].student] = None
        <3>1. CASE Finish(r)
            BY <3>1 DEF Finish, TypeOK, Idle, Enrolling
        <3>2. ASSUME NEW u \in Users, users[u] = None,
                     Become(r, [request[r] EXCEPT !.at = "payer", !.student = u, !.mail = PayerEmail(r)])
              PROVE  request'[r].student = u
            BY <3>2 DEF Become, TypeOK, RequestState
        <3> QED
            BY <1>4, <3>1, <3>2 DEF InsertStudent, Insert
    <2>4. \A q \in Requests : Enrolling(q) => request[q].student \in Users /\ users[request[q].student] # None
        BY DEF InFlight, FormFacts, UserFacts, TypeOK, RequestState
    <2>5. \A s \in admitted : subs[s].student \in Users /\ users[subs[s].student] # None
        BY DEF Newcomers, TypeOK, SubscriptionRow
    <2>6. \A q \in Requests \ {r} : Enrolling(q)' => Enrolling(q)
        BY <2>2 DEF Enrolling
    <2>7. ASSUME NEW q \in Requests, Enrolling(q)'
          PROVE  /\ \A s \in admitted : subs[s].student # request'[q].student
                 /\ \A p \in Requests \ {q} : Enrolling(p)' => request'[p].student # request'[q].student
        <3>1. CASE q = r
            BY <2>2, <2>3, <2>4, <2>5, <2>6, <2>7, <3>1
        <3>2. CASE q # r
            <4>1. Enrolling(q) /\ request'[q] = request[q]
                BY <2>2, <2>6, <2>7, <3>2
            <4>2. \A s \in admitted : subs[s].student # request'[q].student
                BY <4>1 DEF Newcomers
            <4>3. \A p \in Requests \ {q, r} : Enrolling(p)' => request'[p].student # request'[q].student
                BY <2>2, <2>6, <4>1 DEF Newcomers
            <4>4. Enrolling(r)' => request'[r].student # request'[q].student
                BY <2>3, <2>4, <4>1
            <4> QED
                BY <4>2, <4>3, <4>4
        <3> QED
            BY <3>1, <3>2
    <2> QED
        BY <1>3, <2>1, <2>7 DEF Newcomers
<1>5. ASSUME NEW r \in Requests, WriteSubscription(r)
      PROVE  Newcomers' /\ AdmittedOnce'
    <2>1. UNCHANGED users /\ ~Enrolling(r)' /\ \A q \in Requests \ {r} : request'[q] = request[q]
        BY <1>5 DEF WriteSubscription, Finish, TypeOK, Enrolling, Idle
    <2>2. \A q \in Requests : Enrolling(q)' => q # r /\ Enrolling(q) /\ request'[q].student = request[q].student
        BY <2>1 DEF Enrolling
    <2>3. CASE request[r].sub # None
        <3>1. UNCHANGED admitted
            BY <1>5, <2>3 DEF WriteSubscription
        <3>2. \A s \in Subscriptions : subs'[s] # None => subs[s] # None
            BY <1>5, <2>3 DEF WriteSubscription, InFlight, FoundFacts, TypeOK
        <3>3. \A s \in admitted : s \in Subscriptions /\ subs[s] # None /\ subs'[s].student = subs[s].student
            BY <1>1 DEF Newcomers, TypeOK
        <3> QED
            BY <1>3, <2>2, <3>1, <3>2, <3>3 DEF Newcomers
    <2>4. CASE request[r].sub = None
        <3>1. PICK w \in Subscriptions :
                /\ subs[w] = None
                /\ subs' = [subs EXCEPT ![w] = NewSubscription(r)]
                /\ admitted' = IF request[r].enrols THEN admitted \cup {w} ELSE admitted
            BY <1>5, <2>4 DEF WriteSubscription
        <3>2. subs'[w].student = request[r].student /\ \A s \in Subscriptions \ {w} : subs'[s] = subs[s]
            BY <3>1 DEF NewSubscription, TypeOK
        <3>3. request[r].student \in Users /\ users[request[r].student] # None
            BY <1>5 DEF WriteSubscription, At, InFlight, FormFacts, UserFacts, TypeOK, RequestState
        <3>4. NewSubscription(r) \in SubscriptionRow
            BY <1>5, <3>3 DEF WriteSubscription, At, InFlight, FormFacts, TypeOK, RequestState,
                              NewSubscription, SubscriptionRow, Late
        <3>5. subs'[w] # None
            BY <3>1, <3>4 DEF TypeOK
        <3>6. request[r].enrols => Enrolling(r)
            BY <1>5 DEF WriteSubscription, Enrolling, Late, At
        <3>7. w \notin admitted /\ admitted \subseteq Subscriptions
            BY <3>1 DEF Newcomers, TypeOK
        <3>8. \A s \in Subscriptions : subs'[s] # None => users'[subs'[s].student] # None
            BY <2>1, <3>2, <3>3 DEF Newcomers
        <3>9. \A s \in admitted' : subs'[s] # None
            BY <3>1, <3>2, <3>5, <3>7 DEF Newcomers
        <3>10. ASSUME NEW q \in Requests, Enrolling(q)'
               PROVE  /\ \A s \in admitted' : subs'[s].student # request'[q].student
                      /\ \A p \in Requests \ {q} : Enrolling(p)' => request'[p].student # request'[q].student
            BY <2>2, <3>1, <3>2, <3>6, <3>7, <3>10 DEF Newcomers
        <3>11. AdmittedOnce'
            BY <3>1, <3>2, <3>6, <3>7 DEF Newcomers, AdmittedOnce
        <3> QED
            BY <3>8, <3>9, <3>10, <3>11 DEF Newcomers
    <2> QED
        BY <2>3, <2>4
<1>6. CASE (\A r \in Requests : ~InsertStudent(r)) /\ (\A r \in Requests : ~WriteSubscription(r))
    <2>1. \A q \in Requests : Enrolling(q)' => Enrolling(q) /\ request'[q].student = request[q].student
        BY <1>6, EnrollingKept
    <2>2. UNCHANGED admitted
        BY <1>6 DEF Next, vars, history, ChangeUser, RemoveUser, RemovePlan, SwitchSubscription, AskUser,
            InsertUser, AskEnrolment, CheckTutor, InsertTutor, CheckStudent, AskSubscription,
            ValidateUser, FindPlan, FindSubscription, Abort
    <2>3. UNCHANGED subs \/ SwitchSubscription
        BY <1>6 DEF Next, vars, tables, ChangeUser, RemoveUser, RemovePlan, AskUser,
            InsertUser, AskEnrolment, CheckTutor, InsertTutor, CheckStudent, AskSubscription,
            ValidateUser, FindPlan, FindSubscription, Abort
    <2>4. \A s \in Subscriptions : subs'[s] # None => subs[s] # None
        BY <2>3 DEF SwitchSubscription, TypeOK
    <2>5. \A s \in admitted : s \in Subscriptions /\ subs'[s].student = subs[s].student
        BY <1>1 DEF Newcomers, TypeOK
    <2> QED
        BY <1>3, <2>1, <2>2, <2>4, <2>5 DEF Newcomers
<1> QED
    BY <1>4, <1>5, <1>6

-----------------------------------------------------------------------------
(***************************************************************************)
(* The theorems                                                            *)
(***************************************************************************)
LEMMA InitIInv == Init => IInv
<1> SUFFICES ASSUME Init
             PROVE  IInv
    OBVIOUS
<1>1. InFlight
    BY DEF Init, InFlight, FormFacts, UserFacts, NamedFacts, FoundFacts, Enrolling, Late, At, Idle
<1>2. Newcomers /\ AdmittedOnce
    BY DEF Init, Newcomers, AdmittedOnce, Enrolling, Idle
<1>3. OneUserPerKey /\ PayerWasNamed
    BY DEF Init, OneUserPerKey, PayerWasNamed
<1> QED
    BY <1>1, <1>2, <1>3, InitType DEF IInv

\* IInv is inductive: what enrolments in flight know of the users they found or
\* created survives every step of every other request.
THEOREM AdmissionInvariance == Spec => []IInv
<1>1. IInv /\ [Next]_vars => IInv'
    <2> SUFFICES ASSUME IInv, [Next]_vars
                 PROVE  IInv'
        OBVIOUS
    <2>1. TypeOK' /\ OneUserPerKey'
        BY TypeKept, KeysKept DEF IInv
    <2>2. InFlight'
        BY <2>1, InFlightKept DEF IInv
    <2>3. PayerWasNamed' /\ Newcomers' /\ AdmittedOnce'
        BY <2>1, <2>2, PayerKept, NewcomersKept DEF IInv
    <2> QED
        BY <2>1, <2>2, <2>3 DEF IInv
<1> QED
    BY <1>1, InitIInv, PTL DEF Spec

\* The tables and what requests carry have the types of the schema.
THEOREM AdmissionTypeCorrect == Spec => []TypeOK
<1>1. IInv => TypeOK
    BY DEF IInv
<1> QED
    BY <1>1, AdmissionInvariance, PTL

\* Two users never share an email or a rut, however creations and changes race.
THEOREM UsersAreUnique == Spec => []OneUserPerKey
<1>1. IInv => OneUserPerKey
    BY DEF IInv
<1> QED
    BY <1>1, AdmissionInvariance, PTL

\* Who pays for a student was named for it, unless an email changed hands meanwhile
\* or the form of the enrolment named nobody.
THEOREM PayersWereNamed == Spec => []PayerWasNamed
<1>1. IInv => PayerWasNamed
    BY DEF IInv
<1> QED
    BY <1>1, AdmissionInvariance, PTL

\* Nobody is admitted twice, whatever is submitted again.
THEOREM StudentsAreAdmittedOnce == Spec => []AdmittedOnce
<1>1. IInv => AdmittedOnce
    BY DEF IInv
<1> QED
    BY <1>1, AdmissionInvariance, PTL
=============================================================================
