------------------------- MODULE AdmissionInvariant -------------------------
(***************************************************************************)
(* The inductive invariant behind the properties of Admission: what a      *)
(* request still knows of the users it has found or created.               *)
(***************************************************************************)
EXTENDS Admission

\* The awaits of createSubscription.
Late == {"payer", "plan", "find", "write"}

\* An enrolment that has created its student.
Enrolling(r) == request[r].enrols /\ request[r].at \in Late

Responsible(r) == IF request[r].tutor = None THEN request[r].student ELSE request[r].tutor

\* What is set by the time a request stands at an await.
FormFacts(r) ==
    /\ request[r].at \notin {"idle"} \cup Late => request[r].pupil # None
    /\ request[r].at \in {"checkTutor", "insertTutor"} =>
         request[r].guardian # None /\ request[r].tutor = None
    /\ request[r].at = "insertTutor" => request[r].guardian \in Person
    /\ request[r].at \notin {"idle", "insertUser"} => request[r].plan # None
    /\ request[r].at \in {"plan", "find", "write"} =>
         request[r].student # None /\ request[r].payer # None
    /\ Enrolling(r) => request[r].student # None
    /\ request[r].guardian = None => request[r].tutor = None
    /\ request[r].at \in {"checkStudent", "insertStudent"} \cup Late /\ request[r].guardian # None =>
         request[r].tutor # None

\* The users a request carries exist.  Until one of them gets a new email, the
\* email at which it looks for the payer is that of the person responsible.
UserFacts(r) ==
    /\ request[r].tutor # None => users[request[r].tutor] # None
    /\ request[r].student # None => users[request[r].student] # None
    /\ request[r].tutor # None /\ r \notin news =>
         users[request[r].tutor].email = request[r].mail
    /\ request[r].tutor # None => request[r].mail # None
    /\ Enrolling(r) /\ r \notin news => users[Responsible(r)].email = request[r].mail
    /\ Enrolling(r) /\ ~At(r, "payer") /\ r \notin news => request[r].payer = Responsible(r)

\* Whom the form names is in the history, and so is whom a client has named.
NamedFacts(r) ==
    /\ Enrolling(r) => Named(r, request[r].student) \subseteq named
    /\ request[r].at \in {"plan", "find", "write"} /\ Certain(r) =>
         <<request[r].payer, request[r].student>> \in named

\* The subscription a request has found is one of its student.
FoundFacts(r) ==
    At(r, "write") /\ request[r].sub # None =>
        subs[request[r].sub] # None /\ subs[request[r].sub].student = request[r].student

InFlight == \A r \in Requests : FormFacts(r) /\ UserFacts(r) /\ NamedFacts(r) /\ FoundFacts(r)

\* The student an enrolment has created is new: no other has it.
Newcomers ==
    /\ \A s \in Subscriptions : subs[s] # None => users[subs[s].student] # None
    /\ \A s \in admitted : subs[s] # None
    /\ \A r \in Requests : Enrolling(r) =>
         /\ \A s \in admitted : subs[s].student # request[r].student
         /\ \A q \in Requests \ {r} : Enrolling(q) => request[q].student # request[r].student

IInv ==
    /\ TypeOK
    /\ OneUserPerKey
    /\ InFlight
    /\ PayerWasNamed
    /\ Newcomers
    /\ AdmittedOnce
=============================================================================
