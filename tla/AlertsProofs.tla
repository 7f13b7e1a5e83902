---------------------------- MODULE AlertsProofs ----------------------------
(***************************************************************************)
(* The properties of Alerts for any payments, administrators, deadlines and*)
(* finite number of runs at a time.                                        *)
(***************************************************************************)
EXTENDS AlertsInvariant, FiniteSetTheorems, TLAPS

-----------------------------------------------------------------------------
(***************************************************************************)
(* Runs                                                                    *)
(***************************************************************************)
\* The fields of a run that depend on where it stands.
Shape(s) == /\ s.pay # None <=> s.at \in {"tell", "mark"}
            /\ s.toTell # {} <=> s.at = "tell"

JobStep(j) ==
    \/ StartUpcoming(j)
    \/ SendPreDue(j)
    \/ StartOverdue(j)
    \/ TakeOverdue(j)
    \/ SendMora(j)
    \/ Mark(j)
    \/ EndJob(j)
    \/ Abort(j)

LEMMA Countable ==
    ASSUME NEW S \in SUBSET Jobs
    PROVE  IsFiniteSet(S) /\ Cardinality(S) \in Nat
BY SetsAssumption, FS_Subset, FS_CardinalityType

LEMMA IdleIsSound ==
    ASSUME TypeOK
    PROVE  Idle \in JobState /\ Shape(Idle) /\ JobFacts(Idle)
BY SetsAssumption, TimeAssumption DEF Idle, JobState, Shape, JobFacts, TypeOK

\* A run goes from one sound state to another.
LEMMA JobMoves ==
    ASSUME TypeOK, JobsAreSound, NEW j \in Jobs, JobStep(j)
    PROVE  \E q \in JobState : Become(j, q) /\ Shape(q) /\ JobFacts(q)
<1> USE TimeAssumption, SetsAssumption
<1> DEFINE s == job[j]
<1>0. s \in JobState /\ Shape(s) /\ JobFacts(s) /\ now \in Int
    BY DEF TypeOK, JobsAreSound, Shape
<1>1. CASE StartUpcoming(j)
    <2> DEFINE q == [Idle EXCEPT !.at = "upcoming", !.kind = "upcoming", !.queue = Upcoming,
                                 !.owed = Upcoming, !.since = now]
    <2>1. Upcoming \subseteq Payments
        BY DEF Upcoming
    <2>2. Idle \in JobState
        BY IdleIsSound
    <2>3. q \in JobState
        BY <1>0, <2>1, <2>2 DEF JobState
    <2>a. q.at = "upcoming" /\ q.kind = "upcoming" /\ q.queue = Upcoming /\ q.since = now
        BY <2>2 DEF JobState
    <2>b. q.pay = None /\ q.toTell = {}
        BY DEF Idle
    <2> HIDE DEF q
    <2>4. Shape(q)
        BY <2>a, <2>b DEF Shape
    <2>5. JobFacts(q)
        BY <1>0, <2>1, <2>a, <2>b DEF JobFacts
    <2> USE DEF q
    <2> QED
        BY <1>1, <2>3, <2>4, <2>5 DEF StartUpcoming
<1>2. CASE SendPreDue(j)
    <2>1. PICK p \in s.queue : Become(j, [s EXCEPT !.at = "mark", !.pay = p, !.queue = @ \ {p}])
        BY <1>2 DEF SendPreDue
    <2> DEFINE q == [s EXCEPT !.at = "mark", !.pay = p, !.queue = @ \ {p}]
    <2>2. p \in Payments /\ s.at = "upcoming"
        BY <1>0, <1>2 DEF JobState, SendPreDue
    <2>3. q \in JobState /\ Shape(q) /\ JobFacts(q)
        BY <1>0, <2>2 DEF JobState, Shape, JobFacts
    <2> QED
        BY <2>1, <2>3
<1>3. CASE StartOverdue(j)
    <2> DEFINE q == [Idle EXCEPT !.at = "overdue", !.kind = "overdue", !.queue = Overdue,
                                 !.owed = Owed, !.since = now]
    <2>1. Overdue \subseteq Payments /\ Owed \subseteq Payments
        BY DEF Overdue, Owed
    <2>2. Idle \in JobState
        BY IdleIsSound
    <2>3. q \in JobState
        BY <1>0, <2>1, <2>2 DEF JobState
    <2>a. q.at = "overdue" /\ q.kind = "overdue" /\ q.queue = Overdue /\ q.since = now
        BY <2>2 DEF JobState
    <2>b. q.pay = None /\ q.toTell = {}
        BY DEF Idle
    <2> HIDE DEF q
    <2>4. Shape(q)
        BY <2>a, <2>b DEF Shape
    <2>5. JobFacts(q)
        BY <1>0, <2>1, <2>a, <2>b DEF JobFacts
    <2> USE DEF q
    <2> QED
        BY <1>3, <2>3, <2>4, <2>5 DEF StartOverdue
<1>4. CASE TakeOverdue(j)
    <2>1. PICK p \in s.queue :
             Become(j, [s EXCEPT !.at = IF Admins = {} THEN "mark" ELSE "tell",
                                 !.pay = p, !.queue = @ \ {p}, !.toTell = Admins])
        BY <1>4 DEF TakeOverdue
    <2> DEFINE q == [s EXCEPT !.at = IF Admins = {} THEN "mark" ELSE "tell",
                              !.pay = p, !.queue = @ \ {p}, !.toTell = Admins]
    <2>2. p \in Payments /\ s.at = "overdue"
        BY <1>0, <1>4 DEF JobState, TakeOverdue
    <2>3. q \in JobState /\ Shape(q) /\ JobFacts(q)
        BY <1>0, <2>2 DEF JobState, Shape, JobFacts
    <2> QED
        BY <2>1, <2>3
<1>5. CASE SendMora(j)
    <2>1. PICK admin \in s.toTell :
             Become(j, [s EXCEPT !.at = IF s.toTell = {admin} THEN "mark" ELSE "tell",
                                 !.toTell = @ \ {admin}])
        BY <1>5 DEF SendMora
    <2> DEFINE q == [s EXCEPT !.at = IF s.toTell = {admin} THEN "mark" ELSE "tell",
                              !.toTell = @ \ {admin}]
    <2>2. s.at = "tell"
        BY <1>5 DEF SendMora
    <2>3. q \in JobState /\ Shape(q) /\ JobFacts(q)
        BY <1>0, <2>1, <2>2 DEF JobState, Shape, JobFacts
    <2> QED
        BY <2>1, <2>3
<1>6. CASE Mark(j)
    <2> DEFINE q == [s EXCEPT !.at = s.kind, !.pay = None]
    <2>1. s.at = "mark"
        BY <1>6 DEF Mark
    <2>2. q \in JobState /\ Shape(q) /\ JobFacts(q)
        BY <1>0, <2>1 DEF JobState, Shape, JobFacts
    <2> QED
        BY <1>6, <2>2 DEF Mark
<1>7. CASE EndJob(j) \/ Abort(j)
    BY <1>7, IdleIsSound DEF EndJob, Abort
<1> QED
    BY <1>1, <1>2, <1>3, <1>4, <1>5, <1>6, <1>7 DEF JobStep

\* A check of overdue payments takes the next payment in hand.
LEMMA TakeEffect ==
    ASSUME TypeOK, JobsAreSound, NEW j \in Jobs, TakeOverdue(j)
    PROVE  \E p \in job[j].queue :
              /\ job'[j].kind = "overdue" /\ job'[j].owed = job[j].owed
              /\ job'[j].since = job[j].since
              /\ job'[j].pay = p /\ job'[j].queue = job[j].queue \ {p}
<1> DEFINE s == job[j]
<1>1. s \in JobState /\ s.kind = "overdue"
    BY DEF TypeOK, JobsAreSound, JobFacts, TakeOverdue
<1>2. PICK p \in s.queue :
         Become(j, [s EXCEPT !.at = IF Admins = {} THEN "mark" ELSE "tell",
                             !.pay = p, !.queue = @ \ {p}, !.toTell = Admins])
    BY DEF TakeOverdue
<1> DEFINE q == [s EXCEPT !.at = IF Admins = {} THEN "mark" ELSE "tell",
                          !.pay = p, !.queue = @ \ {p}, !.toTell = Admins]
<1>3. job'[j] = q
    BY <1>2 DEF Become, TypeOK
<1> HIDE DEF s
<1>4. q.kind = s.kind /\ q.owed = s.owed /\ q.since = s.since /\ q.pay = p /\ q.queue = s.queue \ {p}
    BY <1>1 DEF JobState
<1> HIDE DEF q
<1> QED
    BY <1>1, <1>3, <1>4 DEF s

\* It tells one administrator after another about it, and only then marks it.
LEMMA TellEffect ==
    ASSUME TypeOK, JobsAreSound, NEW j \in Jobs, SendMora(j)
    PROVE  /\ job'[j].kind = "overdue" /\ job'[j].owed = job[j].owed
           /\ job'[j].since = job[j].since
           /\ job'[j].pay = job[j].pay /\ job'[j].queue = job[j].queue
<1> DEFINE s == job[j]
<1>1. s \in JobState /\ s.kind = "overdue"
    BY DEF TypeOK, JobsAreSound, JobFacts, SendMora
<1>2. PICK admin \in s.toTell :
         Become(j, [s EXCEPT !.at = IF s.toTell = {admin} THEN "mark" ELSE "tell",
                             !.toTell = @ \ {admin}])
    BY DEF SendMora
<1> DEFINE q == [s EXCEPT !.at = IF s.toTell = {admin} THEN "mark" ELSE "tell",
                          !.toTell = @ \ {admin}]
<1>3. job'[j] = q
    BY <1>2 DEF Become, TypeOK
<1> HIDE DEF s
<1>4. q.kind = s.kind /\ q.owed = s.owed /\ q.since = s.since /\ q.pay = s.pay /\ q.queue = s.queue
    BY <1>1 DEF JobState
<1> HIDE DEF q
<1> QED
    BY <1>1, <1>3, <1>4 DEF s

\* A check of upcoming payments sends its mail for the next payment and has it in hand.
LEMMA SendEffect ==
    ASSUME TypeOK, JobsAreSound, NEW j \in Jobs, SendPreDue(j)
    PROVE  \E p \in job[j].queue :
              /\ job'[j].kind = job[j].kind /\ job'[j].owed = job[j].owed
              /\ job'[j].since = job[j].since
              /\ job'[j].pay = p /\ job'[j].queue = job[j].queue \ {p}
<1> DEFINE s == job[j]
<1>1. s \in JobState
    BY DEF TypeOK
<1>2. PICK p \in s.queue : Become(j, [s EXCEPT !.at = "mark", !.pay = p, !.queue = @ \ {p}])
    BY DEF SendPreDue
<1> DEFINE q == [s EXCEPT !.at = "mark", !.pay = p, !.queue = @ \ {p}]
<1>3. job'[j] = q
    BY <1>2 DEF Become, TypeOK
<1> HIDE DEF s
<1>4. q.kind = s.kind /\ q.owed = s.owed /\ q.since = s.since /\ q.pay = p /\ q.queue = s.queue \ {p}
    BY <1>1 DEF JobState
<1> HIDE DEF q
<1> QED
    BY <1>3, <1>4 DEF s

LEMMA MarkEffect ==
    ASSUME TypeOK, JobsAreSound, NEW j \in Jobs, Mark(j)
    PROVE  /\ job'[j].kind = job[j].kind /\ job'[j].owed = job[j].owed
           /\ job'[j].since = job[j].since /\ job'[j].queue = job[j].queue
<1> DEFINE s == job[j]
<1> DEFINE q == [s EXCEPT !.at = s.kind, !.pay = None]
<1>1. s \in JobState
    BY DEF TypeOK
<1>2. job'[j] = q
    BY DEF Mark, Become, TypeOK
<1> HIDE DEF s
<1>3. q.kind = s.kind /\ q.owed = s.owed /\ q.since = s.since /\ q.queue = s.queue
    BY <1>1 DEF JobState
<1> HIDE DEF q
<1> QED
    BY <1>2, <1>3 DEF s

\* What happens outside leaves the runs alone; the clock only goes on.
LEMMA SoundKept ==
    ASSUME TypeOK, JobsAreSound, [Next]_vars
    PROVE  JobsAreSound'
<1>1. ASSUME NEW j \in Jobs, JobStep(j)
      PROVE  JobsAreSound'
    <2>1. PICK q \in JobState : Become(j, q) /\ JobFacts(q)
        BY <1>1, JobMoves
    <2>2. now' = now
        BY <1>1 DEF JobStep, StartUpcoming, SendPreDue, StartOverdue, TakeOverdue, SendMora, Mark,
                    EndJob, Abort
    <2> QED
        BY <2>1, <2>2 DEF Become, JobsAreSound, JobFacts, TypeOK
<1>2. ASSUME UNCHANGED job, now' = now \/ now' = now + 1
      PROVE  JobsAreSound'
    <2> SUFFICES ASSUME NEW j \in Jobs PROVE JobFacts(job[j])'
        BY DEF JobsAreSound
    <2>1. JobFacts(job[j]) /\ job[j].since \in Int /\ now \in Int
        BY DEF JobsAreSound, TypeOK, JobState
    <2>2. job[j].since <= now'
        BY <1>2, <2>1 DEF JobFacts
    <2> QED
        BY <1>2, <2>1, <2>2 DEF JobFacts
<1> QED
    BY <1>1, <1>2 DEF Next, JobStep, Settle, Tick, vars

-----------------------------------------------------------------------------
(***************************************************************************)
(* Types                                                                   *)
(***************************************************************************)
LEMMA InitType == Init => TypeOK
<1> SUFFICES ASSUME Init PROVE TypeOK
    OBVIOUS
<1> USE TimeAssumption, SetsAssumption
<1>1. pays \in [Payments -> PaymentRow]
    <2>1. [due : Dues, status : {"PENDING"}, lastAlert : {None}] \subseteq PaymentRow
        BY DEF PaymentRow
    <2> QED
        BY <2>1 DEF Init
<1>2. now \in 0 .. MaxTime /\ preDue \in [Payments -> Nat] /\ lost \in [Payments -> 0 .. MaxLost]
    BY DEF Init
<1>3. Idle \in JobState /\ Shape(Idle)
    BY DEF Idle, JobState, Shape
<1> QED
    BY <1>1, <1>2, <1>3 DEF TypeOK, Init, Shape

LEMMA TypeKept ==
    ASSUME TypeOK, JobsAreSound, [Next]_vars
    PROVE  TypeOK'
<1> USE TimeAssumption, SetsAssumption
<1>1. ASSUME NEW j \in Jobs, JobStep(j)
      PROVE  TypeOK'
    <2>1. PICK q \in JobState : Become(j, q) /\ Shape(q)
        BY <1>1, JobMoves
    <2>2. /\ job' \in [Jobs -> JobState]
          /\ \A k \in Jobs : /\ job'[k].pay # None <=> job'[k].at \in {"tell", "mark"}
                             /\ job'[k].toTell # {} <=> job'[k].at = "tell"
        BY <2>1 DEF Become, Shape, TypeOK
    <2>3. now' = now
        BY <1>1 DEF JobStep, StartUpcoming, SendPreDue, StartOverdue, TakeOverdue, SendMora, Mark,
                    EndJob, Abort
    <2>4. pays' \in [Payments -> PaymentRow]
        <3>1. CASE Mark(j)
            <4>1. job[j].pay \in Payments /\ now \in Int
                BY <3>1 DEF Mark, TypeOK, JobState
            <4>2. [pays[job[j].pay] EXCEPT !.lastAlert = now] \in PaymentRow
                BY <4>1 DEF TypeOK, PaymentRow
            <4> QED
                BY <3>1, <4>1, <4>2 DEF Mark, TypeOK
        <3>2. CASE UNCHANGED pays
            BY <3>2 DEF TypeOK
        <3> QED
            BY <1>1, <3>1, <3>2 DEF JobStep, StartUpcoming, SendPreDue, StartOverdue, TakeOverdue,
                                    SendMora, EndJob, Abort
    <2>5. preDue' \in [Payments -> Nat]
        <3>1. CASE SendPreDue(j)
            <4>1. PICK p \in job[j].queue : preDue' = [preDue EXCEPT ![p] = @ + 1]
                BY <3>1 DEF SendPreDue
            <4>2. p \in Payments
                BY DEF TypeOK, JobState
            <4> QED
                BY <4>1, <4>2 DEF TypeOK
        <3>2. CASE UNCHANGED preDue
            BY <3>2 DEF TypeOK
        <3> QED
            BY <1>1, <3>1, <3>2 DEF JobStep, StartUpcoming, Mark, StartOverdue, TakeOverdue,
                                    SendMora, EndJob, Abort
    <2>6. lost' \in [Payments -> 0 .. MaxLost]
        <3>1. CASE Abort(j)
            <4>1. CASE job[j].at = "mark" /\ job[j].kind = "upcoming"
                <5>1. job[j].pay \in Payments
                    BY <4>1 DEF TypeOK, JobState
                <5>2. /\ lost[job[j].pay] \in 0 .. MaxLost
                      /\ lost[job[j].pay] < MaxLost
                      /\ lost' = [lost EXCEPT ![job[j].pay] = @ + 1]
                    BY <3>1, <4>1, <5>1 DEF Abort, TypeOK
                <5>3. lost[job[j].pay] + 1 \in 0 .. MaxLost
                    BY <5>2
                <5> QED
                    BY <5>1, <5>2, <5>3 DEF TypeOK
            <4>2. CASE ~(job[j].at = "mark" /\ job[j].kind = "upcoming")
                BY <3>1, <4>2 DEF Abort, TypeOK
            <4> QED
                BY <4>1, <4>2
        <3>2. CASE UNCHANGED lost
            BY <3>2 DEF TypeOK
        <3> QED
            BY <1>1, <3>1, <3>2 DEF JobStep, StartUpcoming, SendPreDue, Mark, StartOverdue,
                                    TakeOverdue, SendMora, EndJob
    <2>7. peak' \in Nat
        <3>1. Cardinality(Reminding) \in Nat
            BY Countable DEF Reminding
        <3>2. peak \in Nat
            BY DEF TypeOK
        <3>3. CASE StartUpcoming(j)
            BY <3>1, <3>2, <3>3 DEF StartUpcoming
        <3>4. CASE UNCHANGED peak
            BY <3>2, <3>4
        <3> QED
            BY <1>1, <3>3, <3>4 DEF JobStep, SendPreDue, Mark, StartOverdue, TakeOverdue, SendMora,
                                    EndJob, Abort
    <2> QED
        BY <2>2, <2>3, <2>4, <2>5, <2>6, <2>7 DEF TypeOK
<1>2. ASSUME NEW p \in Payments, Settle(p)
      PROVE  TypeOK'
    <2>1. PICK status \in {"PENDING", "settled"} : pays' = [pays EXCEPT ![p].status = status]
        BY <1>2 DEF Settle
    <2>2. [pays[p] EXCEPT !.status = status] \in PaymentRow
        BY DEF TypeOK, PaymentRow
    <2>3. pays' \in [Payments -> PaymentRow]
        BY <2>1, <2>2 DEF TypeOK
    <2> QED
        BY <1>2, <2>3 DEF Settle, TypeOK
<1>3. CASE Tick
    BY <1>3 DEF Tick, TypeOK
<1>4. CASE UNCHANGED vars
    BY <1>4 DEF vars, TypeOK
<1> QED
    BY <1>1, <1>2, <1>3, <1>4 DEF Next, JobStep

-----------------------------------------------------------------------------
(***************************************************************************)
(* Reminders                                                               *)
(***************************************************************************)
\* A run that still holds p has not got p in its hand: the two sets of runs
\* share the checks of upcoming payments that are under way.
LEMMA Slots ==
    ASSUME TypeOK, JobsAreSound, NEW p \in Payments
    PROVE  /\ IsFiniteSet(Holding(p)) /\ IsFiniteSet(Marking(p))
           /\ Cardinality(Holding(p)) \in Nat /\ Cardinality(Marking(p)) \in Nat
           /\ Cardinality(Reminding) \in Nat
           /\ Cardinality(Holding(p)) + Cardinality(Marking(p)) <= Cardinality(Reminding)
<1> DEFINE H == Holding(p)
<1> DEFINE M == Marking(p)
<1> DEFINE R == Reminding
<1>1. H \cup M \subseteq R /\ R \subseteq Jobs
    BY DEF Holding, Marking, Reminding
<1>2. H \cap M = {}
    BY DEF Holding, Marking, JobsAreSound, JobFacts
<1> HIDE DEF H, M, R
<1>3. /\ IsFiniteSet(H) /\ Cardinality(H) \in Nat
      /\ IsFiniteSet(M) /\ Cardinality(M) \in Nat
      /\ IsFiniteSet(R) /\ Cardinality(R) \in Nat
    BY <1>1, Countable
<1>4. Cardinality(H \cup M) <= Cardinality(R)
    BY <1>1, <1>3, FS_Subset
<1>5. Cardinality(H \cup M) = Cardinality(H) + Cardinality(M) - Cardinality(H \cap M)
    BY <1>3, FS_Union
<1>6. Cardinality(H \cap M) = 0
    BY <1>2, FS_EmptySet
<1> QED
    BY <1>3, <1>4, <1>5, <1>6 DEF H, M, R

\* Only a new check of upcoming payments adds to those under way, and the peak
\* rises with it.
LEMMA PeakKept ==
    ASSUME TypeOK, JobsAreSound, PeakIsHighest, [Next]_vars
    PROVE  PeakIsHighest' /\ peak <= peak'
<1>1. /\ IsFiniteSet(Reminding) /\ Cardinality(Reminding) \in Nat
      /\ peak \in Nat /\ Cardinality(Reminding) <= peak
    BY Countable DEF Reminding, TypeOK, PeakIsHighest
<1>2. ASSUME NEW j \in Jobs, StartUpcoming(j)
      PROVE  PeakIsHighest' /\ peak <= peak'
    <2>1. Reminding' = Reminding \cup {j}
        BY <1>2 DEF Reminding, StartUpcoming, Become, TypeOK, Idle
    <2>2. Cardinality(Reminding \cup {j}) \in {Cardinality(Reminding), Cardinality(Reminding) + 1}
        BY <1>1, FS_AddElement
    <2>3. peak' = IF Cardinality(Reminding) < peak THEN peak ELSE Cardinality(Reminding) + 1
        BY <1>2 DEF StartUpcoming
    <2> QED
        BY <1>1, <2>1, <2>2, <2>3 DEF PeakIsHighest
<1>3. ASSUME Reminding' \subseteq Reminding, peak' = peak
      PROVE  PeakIsHighest' /\ peak <= peak'
    <2>1. Cardinality(Reminding') <= Cardinality(Reminding) /\ Cardinality(Reminding') \in Nat
        BY <1>1, <1>3, FS_Subset, FS_CardinalityType
    <2> QED
        BY <1>1, <1>3, <2>1 DEF PeakIsHighest
<1>4. ASSUME NEW j \in Jobs, JobStep(j), ~StartUpcoming(j)
      PROVE  Reminding' \subseteq Reminding /\ peak' = peak
    <2>1. peak' = peak /\ \A k \in Jobs \ {j} : job'[k] = job[k]
        BY <1>4 DEF JobStep, SendPreDue, StartOverdue, TakeOverdue, SendMora, Mark, EndJob, Abort,
                    Become, TypeOK
    <2>2. job'[j].kind = "upcoming" => job[j].kind = "upcoming"
        <3>1. CASE SendPreDue(j)
            BY <3>1 DEF SendPreDue, JobsAreSound, JobFacts
        <3>2. CASE StartOverdue(j)
            BY <3>2 DEF StartOverdue, Become, TypeOK, Idle
        <3>3. CASE TakeOverdue(j)
            BY <3>3, TakeEffect
        <3>4. CASE SendMora(j)
            BY <3>4, TellEffect
        <3>5. CASE Mark(j)
            BY <3>5, MarkEffect
        <3>6. CASE EndJob(j) \/ Abort(j)
            BY <3>6, KindsAssumption DEF EndJob, Abort, Become, TypeOK, Idle
        <3> QED
            BY <1>4, <3>1, <3>2, <3>3, <3>4, <3>5, <3>6 DEF JobStep
    <2> QED
        BY <2>1, <2>2 DEF Reminding
<1>5. ASSUME (\E p \in Payments : Settle(p)) \/ Tick \/ UNCHANGED vars
      PROVE  Reminding' = Reminding /\ peak' = peak
    BY <1>5 DEF Settle, Tick, vars, Reminding
<1> QED
    BY <1>2, <1>3, <1>4, <1>5 DEF Next, JobStep

\* A run that leaves p where it was in it, and all histories of p, keeps the count.
LEMMA SameCount ==
    ASSUME NEW p \in Payments, NEW bound \in Nat, Counted(p, bound),
           pays'[p].lastAlert = pays[p].lastAlert,
           preDue'[p] = preDue[p], lost'[p] = lost[p],
           Holding(p)' = Holding(p), Marking(p)' = Marking(p)
    PROVE  Counted(p, bound)'
BY DEF Counted

LEMMA ReminderCounted ==
    ASSUME TypeOK, JobsAreSound, NEW p \in Payments, NEW bound \in Nat, Counted(p, bound), NEW j \in Jobs, SendPreDue(j)
    PROVE  Counted(p, bound)'
<1> USE SetsAssumption
<1>1. PICK p0 \in job[j].queue :
         /\ Become(j, [job[j] EXCEPT !.at = "mark", !.pay = p0, !.queue = @ \ {p0}])
         /\ preDue' = [preDue EXCEPT ![p0] = @ + 1]
    BY DEF SendPreDue
<1>2. /\ job[j].at = "upcoming" /\ job[j].kind = "upcoming" /\ job[j] \in JobState
      /\ UNCHANGED <<pays, lost>> /\ p0 \in Payments
    BY DEF SendPreDue, JobsAreSound, JobFacts, TypeOK, JobState
<1>3. /\ \A k \in Jobs \ {j} : job'[k] = job[k]
      /\ job'[j].at = "mark" /\ job'[j].kind = "upcoming" /\ job'[j].pay = p0
      /\ job'[j].queue = job[j].queue \ {p0}
    BY <1>1, <1>2 DEF Become, TypeOK, JobState
<1>4. CASE p0 # p
    <2>1. Holding(p)' = Holding(p)
        BY <1>2, <1>3, <1>4 DEF Holding
    <2>2. Marking(p)' = Marking(p)
        BY <1>2, <1>3, <1>4 DEF Marking
    <2>3. preDue'[p] = preDue[p]
        BY <1>1, <1>4 DEF TypeOK
    <2> QED
        BY <1>2, <2>1, <2>2, <2>3, SameCount
<1>5. CASE p0 = p
    <2>1. j \in Holding(p) /\ Holding(p)' = Holding(p) \ {j}
        BY <1>1, <1>2, <1>3, <1>5 DEF Holding
    <2>2. j \notin Marking(p) /\ Marking(p)' = Marking(p) \cup {j}
        BY <1>2, <1>3, <1>5 DEF Marking
    <2>3. /\ Cardinality(Holding(p)') = Cardinality(Holding(p)) - 1
          /\ Cardinality(Marking(p)') = Cardinality(Marking(p)) + 1
        BY <2>1, <2>2, Slots, FS_RemoveElement, FS_AddElement
    <2>4. preDue'[p] = preDue[p] + 1 /\ preDue[p] \in Nat /\ lost[p] \in Nat
        BY <1>1, <1>5 DEF TypeOK
    <2> QED
        BY <1>2, <2>3, <2>4, Slots DEF Counted
<1> QED
    BY <1>4, <1>5

\* The first mark of p: what was sent is at most the runs that were marking it,
\* and they leave as many slots less to those that still hold it.
LEMMA MarkCounted ==
    ASSUME TypeOK, JobsAreSound, NEW p \in Payments, NEW bound \in Nat, Counted(p, bound), NEW j \in Jobs, Mark(j),
           Cardinality(Holding(p)) + Cardinality(Marking(p)) <= bound
    PROVE  Counted(p, bound)'
<1> USE SetsAssumption
<1>1. /\ job[j].at = "mark" /\ job[j] \in JobState /\ UNCHANGED <<preDue, lost>>
      /\ pays' = [pays EXCEPT ![job[j].pay].lastAlert = now]
      /\ Become(j, [job[j] EXCEPT !.at = job[j].kind, !.pay = None])
    BY DEF Mark, TypeOK
<1>2. job[j].pay \in Payments /\ job[j].kind \in {"upcoming", "overdue"} /\ now \in Int
    BY <1>1 DEF TypeOK, JobState, JobsAreSound, JobFacts
<1>3. /\ \A k \in Jobs \ {j} : job'[k] = job[k]
      /\ job'[j].at # "mark" /\ job'[j].kind = job[j].kind
      /\ job'[j].queue = job[j].queue
    BY <1>1, <1>2 DEF Become, TypeOK, JobState
<1>4. Holding(p)' = Holding(p)
    BY <1>3 DEF Holding
<1>5. CASE job[j].pay # p
    <2>1. Marking(p)' = Marking(p)
        BY <1>3, <1>5 DEF Marking
    <2>2. pays'[p] = pays[p]
        BY <1>1, <1>5 DEF TypeOK
    <2> QED
        BY <1>1, <1>4, <2>1, <2>2, SameCount
<1>6. CASE job[j].pay = p
    <2>1. pays'[p].lastAlert = now
        BY <1>1, <1>6 DEF TypeOK, PaymentRow
    <2>2. now # None
        BY <1>2
    <2>3. preDue[p] \in Nat /\ lost[p] \in Nat
        BY DEF TypeOK
    <2> QED
        BY <1>1, <1>4, <2>1, <2>2, <2>3, Slots DEF Counted
<1> QED
    BY <1>5, <1>6

LEMMA AbortCounted ==
    ASSUME TypeOK, JobsAreSound, NEW p \in Payments, NEW bound \in Nat, Counted(p, bound), NEW j \in Jobs, Abort(j)
    PROVE  Counted(p, bound)'
<1>1. /\ UNCHANGED <<pays, preDue>>
      /\ \A k \in Jobs \ {j} : job'[k] = job[k]
      /\ job'[j].at = "idle" /\ job'[j].queue = {}
    BY DEF Abort, Become, TypeOK, Idle
<1>2. preDue[p] \in Nat /\ lost[p] \in Nat
    BY DEF TypeOK
<1>3. CASE j \in Marking(p)
    <2>1. Marking(p)' = Marking(p) \ {j}
        BY <1>1 DEF Marking
    <2>2. j \notin Holding(p) /\ Holding(p)' = Holding(p)
        BY <1>1, <1>3 DEF Holding, Marking, JobsAreSound, JobFacts
    <2>3. Cardinality(Marking(p)') = Cardinality(Marking(p)) - 1
        BY <1>3, <2>1, Slots, FS_RemoveElement
    <2>4. lost'[p] = lost[p] + 1
        BY <1>3 DEF Abort, Marking, TypeOK
    <2> QED
        BY <1>1, <1>2, <2>2, <2>3, <2>4, Slots DEF Counted
<1>4. CASE j \notin Marking(p)
    <2>1. Marking(p)' = Marking(p)
        BY <1>1, <1>4 DEF Marking
    <2>2. Holding(p)' = Holding(p) \ {j}
        BY <1>1 DEF Holding
    <2>3. Cardinality(Holding(p)') <= Cardinality(Holding(p)) /\ Cardinality(Holding(p)') \in Nat
        <3>1. IsFiniteSet(Holding(p)) /\ Holding(p)' \subseteq Holding(p)
            BY <2>2, Slots
        <3> QED
            BY <3>1, FS_Subset, FS_CardinalityType
    <2>4. lost'[p] = lost[p]
        BY <1>4 DEF Abort, Marking, TypeOK
    <2> QED
        BY <1>1, <1>2, <2>1, <2>3, <2>4, Slots DEF Counted
<1> QED
    BY <1>3, <1>4

\* The rest neither sends, nor marks, nor gives up p; a new run takes p only
\* when it is not marked.
LEMMA QuietCounted ==
    ASSUME TypeOK, JobsAreSound, NEW p \in Payments, NEW bound \in Nat, Counted(p, bound), NEW j \in Jobs,
           StartUpcoming(j) \/ StartOverdue(j) \/ TakeOverdue(j) \/ SendMora(j) \/ EndJob(j)
    PROVE  Counted(p, bound)'
<1> USE SetsAssumption
<1>1. UNCHANGED <<pays, preDue, lost>>
    BY DEF StartUpcoming, StartOverdue, TakeOverdue, SendMora, EndJob
<1>2. PICK q \in JobState : Become(j, q) /\ JobFacts(q)
    BY JobMoves DEF JobStep
<1>3. (\A k \in Jobs \ {j} : job'[k] = job[k]) /\ job'[j] = q
    BY <1>2 DEF Become, TypeOK
<1>4. job[j] \in JobState /\ JobFacts(job[j])
    BY DEF TypeOK, JobsAreSound
<1>5. ~(job[j].kind = "upcoming" /\ job[j].at = "mark")
    BY DEF StartUpcoming, StartOverdue, TakeOverdue, SendMora, EndJob, Done
<1>6. ~(q.kind = "upcoming" /\ q.at = "mark")
    <2>1. CASE StartUpcoming(j)
        BY <1>3, <2>1 DEF StartUpcoming, Become, TypeOK, Idle
    <2>2. CASE StartOverdue(j)
        BY <1>3, <2>2 DEF StartOverdue, Become, TypeOK, Idle
    <2>3. CASE TakeOverdue(j)
        BY <1>3, <2>3, TakeEffect
    <2>4. CASE SendMora(j)
        BY <1>3, <2>4, TellEffect
    <2>5. CASE EndJob(j)
        BY <1>3, <2>5 DEF EndJob, Become, TypeOK, Idle
    <2> QED
        BY <2>1, <2>2, <2>3, <2>4, <2>5
<1>7. Marking(p)' = Marking(p)
    BY <1>3, <1>5, <1>6 DEF Marking
<1>8. ~(job[j].kind = "upcoming" /\ p \in job[j].queue)
    BY <1>4 DEF JobFacts, StartUpcoming, StartOverdue, TakeOverdue, SendMora, EndJob, Done
<1>9. CASE q.kind = "upcoming" /\ p \in q.queue
    <2>1. StartUpcoming(j)
        <3>1. ~StartOverdue(j)
            BY <1>3, <1>9 DEF StartOverdue, Become, TypeOK, Idle
        <3>2. ~TakeOverdue(j)
            BY <1>3, <1>9, TakeEffect
        <3>3. ~SendMora(j)
            BY <1>3, <1>9, TellEffect
        <3>4. ~EndJob(j)
            BY <1>3, <1>9 DEF EndJob, Become, TypeOK, Idle
        <3> QED
            BY <3>1, <3>2, <3>3, <3>4
    <2>2. q.queue = Upcoming
        BY <1>3, <2>1 DEF StartUpcoming, Become, TypeOK, Idle
    <2>3. pays[p].lastAlert = None
        BY <1>9, <2>2 DEF Upcoming
    <2> QED
        BY <1>1, <1>7, <2>3 DEF Counted
<1>10. CASE ~(q.kind = "upcoming" /\ p \in q.queue)
    <2>1. Holding(p)' = Holding(p)
        BY <1>3, <1>8, <1>10 DEF Holding
    <2> QED
        BY <1>1, <1>7, <2>1, SameCount
<1> QED
    BY <1>9, <1>10

LEMMA CountKept ==
    ASSUME TypeOK, JobsAreSound, NEW bound \in Nat, CountedWithin(bound), [Next]_vars,
           \A p \in Payments : Cardinality(Holding(p)) + Cardinality(Marking(p)) <= bound
    PROVE  CountedWithin(bound)'
<1> SUFFICES ASSUME NEW p \in Payments PROVE Counted(p, bound)'
    BY DEF CountedWithin
<1>1. Counted(p, bound)
    BY DEF CountedWithin
<1>2. ASSUME NEW j \in Jobs, JobStep(j)
      PROVE  Counted(p, bound)'
    BY <1>1, <1>2, ReminderCounted, MarkCounted, AbortCounted, QuietCounted DEF JobStep
<1>3. ASSUME NEW p0 \in Payments, Settle(p0)
      PROVE  Counted(p, bound)'
    <2>1. pays'[p].lastAlert = pays[p].lastAlert /\ UNCHANGED <<job, preDue, lost>>
        BY <1>3 DEF Settle, TypeOK, PaymentRow
    <2> QED
        BY <1>1, <2>1 DEF Counted, Holding, Marking
<1>4. CASE Tick \/ UNCHANGED vars
    BY <1>1, <1>4 DEF Tick, vars, Counted, Holding, Marking
<1> QED
    BY <1>2, <1>3, <1>4 DEF Next, JobStep

-----------------------------------------------------------------------------
(***************************************************************************)
(* Overdue payments                                                        *)
(***************************************************************************)
\* A payment is alerted anew, never less.
LEMMA AlertsStay ==
    ASSUME TypeOK, [Next]_vars, NEW p \in Payments,
           NEW s \in JobState, s.since <= now, AlertedFor(s, p)
    PROVE  AlertedFor(s, p)'
<1> USE TimeAssumption, SetsAssumption
<1>1. CASE pays'[p].lastAlert = pays[p].lastAlert
    BY <1>1 DEF AlertedFor, Grace
<1>2. ASSUME NEW j \in Jobs, Mark(j), pays'[p].lastAlert # pays[p].lastAlert
      PROVE  AlertedFor(s, p)'
    <2>1. pays'[p].lastAlert = now
        BY <1>2 DEF Mark, TypeOK, PaymentRow
    <2>2. now \in Int /\ s.since \in Int /\ s.since <= now
        BY DEF TypeOK, JobState
    <2> QED
        BY <2>1, <2>2 DEF AlertedFor, Grace
<1>3. ASSUME NEW j \in Jobs, JobStep(j), ~Mark(j)
      PROVE  pays'[p].lastAlert = pays[p].lastAlert
    BY <1>3 DEF JobStep, StartUpcoming, SendPreDue, StartOverdue, TakeOverdue, SendMora, EndJob, Abort
<1>4. ASSUME NEW p0 \in Payments, Settle(p0)
      PROVE  pays'[p].lastAlert = pays[p].lastAlert
    BY <1>4 DEF Settle, TypeOK, PaymentRow
<1>5. Tick \/ UNCHANGED vars => pays' = pays
    BY DEF Tick, vars
<1> QED
    BY <1>1, <1>2, <1>3, <1>4, <1>5 DEF Next, JobStep

\* Among the steps of a run, one that keeps what it found keeps each payment
\* of it in the queue or in hand, or marks it.
LEMMA RunDropsNobody ==
    ASSUME TypeOK, JobsAreSound, NobodyDropped, [Next]_vars,
           NEW j \in Jobs, JobStep(j), NEW p \in job'[j].owed
    PROVE  p \in job'[j].queue \/ job'[j].pay = p \/ AlertedFor(job[j], p)'
<1> USE TimeAssumption, SetsAssumption
<1>0. PICK s \in JobState : s = job[j]
    BY DEF TypeOK
<1>1. JobFacts(s) /\ now \in Int /\ s.since \in Int
    BY <1>0 DEF TypeOK, JobsAreSound, JobState
<1>2. CASE EndJob(j) \/ Abort(j)
    <2>1. job'[j].owed = {}
        BY <1>2 DEF EndJob, Abort, Become, TypeOK, Idle
    <2> QED
        BY <2>1
<1>3. CASE StartUpcoming(j)
    BY <1>3 DEF StartUpcoming, Become, TypeOK, Idle
<1>4. CASE StartOverdue(j)
    <2>1. /\ job'[j].queue = Overdue /\ job'[j].owed = Owed /\ job'[j].since = now
          /\ job'[j].kind = "overdue" /\ pays' = pays
        BY <1>4 DEF StartOverdue, Become, TypeOK, Idle
    <2>2. CASE p \in Overdue
        BY <2>1, <2>2
    <2>3. CASE p \notin Overdue
        <3>1. p \in Owed /\ p \in Payments
            BY <2>1 DEF Owed
        <3>2. pays[p].lastAlert # None /\ ~(pays[p].lastAlert < now - 2 * Day)
            BY <2>3, <3>1 DEF Overdue
        <3>3. pays[p].lastAlert \in Int
            BY <3>1, <3>2 DEF TypeOK, PaymentRow
        <3> QED
            BY <1>1, <2>1, <3>2, <3>3 DEF AlertedFor, Grace
    <2> QED
        BY <2>2, <2>3
<1>5. CASE SendPreDue(j) \/ TakeOverdue(j) \/ SendMora(j) \/ Mark(j)
    <2>1. job'[j].kind = s.kind /\ job'[j].owed = s.owed /\ job'[j].since = s.since
        <3>1. CASE TakeOverdue(j)
            BY <1>0, <1>1, <3>1, TakeEffect DEF TakeOverdue, JobFacts
        <3>2. CASE SendMora(j)
            BY <1>0, <1>1, <3>2, TellEffect DEF SendMora, JobFacts
        <3>3. CASE Mark(j)
            BY <1>0, <3>3, MarkEffect
        <3>4. CASE SendPreDue(j)
            BY <1>0, <3>4, SendEffect
        <3> QED
            BY <1>5, <3>1, <3>2, <3>3, <3>4
    <2>2. p \in Payments /\ p # None
        BY <2>1 DEF JobState
    <2>3. p \in s.queue \/ s.pay = p \/ AlertedFor(s, p)
        BY <1>0, <2>1 DEF NobodyDropped
    <2>4. CASE AlertedFor(s, p)
        <3>1. AlertedFor(s, p)'
            BY <1>1, <2>2, <2>4, AlertsStay DEF JobFacts
        <3> QED
            BY <2>1, <3>1 DEF AlertedFor, Grace
    <2>5. CASE (SendPreDue(j) \/ TakeOverdue(j)) /\ ~AlertedFor(s, p)
        <3>1. s.pay = None
            BY <1>0, <2>5 DEF SendPreDue, TakeOverdue, TypeOK
        <3>2. PICK p0 \in s.queue : job'[j].pay = p0 /\ job'[j].queue = s.queue \ {p0}
            BY <1>0, <2>5, SendEffect, TakeEffect
        <3> QED
            BY <2>2, <2>3, <2>5, <3>1, <3>2
    <2>6. CASE SendMora(j) /\ ~AlertedFor(s, p)
        <3>1. job'[j].pay = s.pay /\ job'[j].queue = s.queue
            BY <1>0, <2>6, TellEffect
        <3> QED
            BY <2>3, <2>6, <3>1
    <2>7. CASE Mark(j) /\ ~AlertedFor(s, p)
        <3>1. job'[j].queue = s.queue
            BY <1>0, <2>7, MarkEffect
        <3>2. CASE s.pay = p
            <4>1. pays'[p].lastAlert = now
                BY <1>0, <2>2, <2>7, <3>2 DEF Mark, TypeOK, PaymentRow
            <4>2. s.since <= now /\ now # None
                BY <1>1 DEF JobFacts
            <4> QED
                BY <1>1, <2>1, <4>1, <4>2 DEF AlertedFor, Grace
        <3> QED
            BY <2>3, <2>7, <3>1, <3>2
    <2> QED
        BY <1>5, <2>4, <2>5, <2>6, <2>7
<1> QED
    BY <1>2, <1>3, <1>4, <1>5 DEF JobStep

LEMMA DropKept ==
    ASSUME TypeOK, JobsAreSound, NobodyDropped, [Next]_vars
    PROVE  NobodyDropped'
<1> SUFFICES ASSUME NEW k \in Jobs, NEW p \in job'[k].owed
             PROVE  p \in job'[k].queue \/ job'[k].pay = p \/ AlertedFor(job[k], p)'
    BY DEF NobodyDropped
<1>1. CASE job'[k] = job[k]
    <2>1. PICK s \in JobState : s = job[k]
        BY DEF TypeOK
    <2>2. p \in Payments /\ s.since <= now
        BY <1>1, <2>1 DEF JobState, JobsAreSound, JobFacts
    <2>3. p \in s.queue \/ s.pay = p \/ AlertedFor(s, p)
        BY <1>1, <2>1 DEF NobodyDropped
    <2>4. AlertedFor(s, p) => AlertedFor(s, p)'
        BY <2>2, AlertsStay
    <2> QED
        BY <1>1, <2>1, <2>3, <2>4 DEF AlertedFor, Grace
<1>2. ASSUME NEW j \in Jobs, JobStep(j), j # k
      PROVE  job'[k] = job[k]
    BY <1>2 DEF JobStep, StartUpcoming, SendPreDue, StartOverdue, TakeOverdue, SendMora, Mark,
                EndJob, Abort, Become, TypeOK
<1>3. CASE JobStep(k)
    BY <1>3, RunDropsNobody
<1>4. (\E p0 \in Payments : Settle(p0)) \/ Tick \/ UNCHANGED vars => job'[k] = job[k]
    BY DEF Settle, Tick, vars
<1> QED
    BY <1>1, <1>2, <1>3, <1>4 DEF Next, JobStep

-----------------------------------------------------------------------------
(***************************************************************************)
(* Theorems                                                                *)
(***************************************************************************)
LEMMA InitInvariant == Init => IInv
<1> SUFFICES ASSUME Init PROVE IInv
    OBVIOUS
<1>1. TypeOK
    BY InitType
<1>2. JobsAreSound
    BY <1>1, IdleIsSound DEF Init, JobsAreSound
<1>3. RemindersCounted
    <2> SUFFICES ASSUME NEW p \in Payments PROVE Counted(p, peak)
        BY DEF RemindersCounted, CountedWithin
    <2>1. pays[p].lastAlert = None /\ preDue[p] = 0 /\ lost[p] = 0
        BY DEF Init
    <2> QED
        BY <1>1, <1>2, <2>1, Slots DEF Counted
<1>4. NobodyDropped
    BY DEF Init, Idle, NobodyDropped
<1>5. PeakIsHighest
    <2>1. Reminding = {}
        BY KindsAssumption DEF Init, Idle, Reminding
    <2> QED
        BY <2>1, FS_EmptySet DEF Init, PeakIsHighest
<1> QED
    BY <1>1, <1>2, <1>3, <1>4, <1>5 DEF IInv

LEMMA StepInvariant == IInv /\ [Next]_vars => IInv'
<1> SUFFICES ASSUME IInv, [Next]_vars PROVE IInv'
    OBVIOUS
<1>1. PICK bound \in Nat : bound = peak
    BY DEF IInv, TypeOK
<1>2. \A p \in Payments : Cardinality(Holding(p)) + Cardinality(Marking(p)) <= bound
    <2> SUFFICES ASSUME NEW p \in Payments
                 PROVE  Cardinality(Holding(p)) + Cardinality(Marking(p)) <= bound
        OBVIOUS
    <2> QED
        BY <1>1, Slots DEF IInv, PeakIsHighest
<1>3. CountedWithin(bound)'
    BY <1>1, <1>2, CountKept DEF IInv, RemindersCounted
<1>4. TypeOK' /\ PeakIsHighest' /\ bound <= peak'
    BY <1>1, TypeKept, PeakKept DEF IInv
<1>5. RemindersCounted'
    <2> SUFFICES ASSUME NEW p \in Payments PROVE Counted(p, peak)'
        BY DEF RemindersCounted, CountedWithin
    <2>1. Cardinality(Holding(p)') \in Nat
        BY Countable DEF Holding
    <2>2. preDue'[p] \in Nat /\ lost'[p] \in Nat /\ peak' \in Nat
        BY <1>4 DEF TypeOK
    <2> QED
        BY <1>3, <1>4, <2>1, <2>2 DEF CountedWithin, Counted
<1> QED
    BY <1>4, <1>5, SoundKept, DropKept DEF IInv

\* The invariant holds of any number of runs of the two checks side by side,
\* of settlements and of aborted runs (TasksService).
THEOREM AlertsInvariance == Spec => []IInv
BY InitInvariant, StepInvariant, PTL DEF Spec

\* Rows, runs and counts keep their types, and a run has a payment in hand
\* exactly while it tells or marks (checkUpcomingPayments, checkOverduePayments).
THEOREM AlertsTypeCorrect == Spec => []TypeOK
<1>1. IInv => TypeOK
    BY DEF IInv
<1> QED
    BY <1>1, AlertsInvariance, PTL

\* A payment is reminded of before it is due at most once for each of the checks
\* that have overlapped, and once more for each that stopped before marking it.
THEOREM RemindersAreBounded == Spec => []RemindersBounded
<1>1. ASSUME IInv
      PROVE  RemindersBounded
    <2> SUFFICES ASSUME NEW p \in Payments
                 PROVE  preDue[p] <= peak + lost[p]
        BY DEF RemindersBounded
    <2>1. Counted(p, peak) /\ preDue[p] \in Nat /\ lost[p] \in Nat /\ peak \in Nat
        BY <1>1 DEF IInv, RemindersCounted, CountedWithin, TypeOK
    <2>2. Cardinality(Reminding) <= peak
        BY <1>1 DEF IInv, PeakIsHighest
    <2> QED
        BY <1>1, <2>1, <2>2, Slots DEF Counted, IInv
<1> QED
    BY <1>1, AlertsInvariance, PTL

\* A check that comes to its end has alerted each payment it found, or found it
\* alerted shortly before (checkUpcomingPayments, checkOverduePayments).
THEOREM NobodyIsLeftOut == Spec => NoneLeftOut
<1>1. ASSUME IInv, [Next]_vars
      PROVE  [\A j \in Jobs : Done(j) /\ job'[j].at = "idle" =>
                 \A p \in job[j].owed :
                     /\ pays[p].lastAlert # None
                     /\ pays[p].lastAlert >= job[j].since - Grace(job[j])]_vars
    <2> SUFFICES ASSUME NEW j \in Jobs, Done(j), NEW p \in job[j].owed
                 PROVE  AlertedFor(job[j], p)
        BY DEF AlertedFor
    <2>1. p \in Payments /\ p # None
        BY <1>1, SetsAssumption DEF IInv, TypeOK, JobState
    <2>2. job[j].queue = {} /\ job[j].pay = None
        BY <1>1 DEF IInv, TypeOK, Done
    <2> QED
        BY <1>1, <2>1, <2>2 DEF IInv, NobodyDropped
<1> QED
    BY <1>1, AlertsInvariance, PTL DEF Spec, NoneLeftOut
=============================================================================
