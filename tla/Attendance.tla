---------------------------- MODULE Attendance ----------------------------
(***************************************************************************)
(* submitAttendance of src/src/attendance/attendance.service.ts, beside    *)
(* the catalogue whose lessons it is about.  Its two inserts are one       *)
(* transaction: what they write is kept in task[r] until the commit, and   *)
(* is gone if it does not come.  AttendanceController passes a coach that  *)
(* is always missing (req.user.id, which the JWT strategy does not set);   *)
(* other callers of the service (test/test-classes-attendance.ts) pass     *)
(* one.                                                                    *)
(***************************************************************************)
EXTENDS Catalogue, Naturals

VARIABLES
    sessions,   \* AttendanceSession: lesson, coach; history: the sheet submitted
    records     \* AttendanceRecord

vars == <<schools, sports, offers, facilities, lessons, seed, task, sessions, records>>

\* A sheet is a list: an entry per line, with a student and a status.  The client
\* may name a student twice, with another status or the same.
Entry == [line : Nat, student : Students, status : {"PRESENT", "ABSENT"}]
ASSUME SheetsAssumption == Sheets \subseteq SUBSET Entry

Init ==
    /\ CatalogueInit
    /\ sessions = [x \in Sessions |-> None]
    /\ records = {}

attendance == <<sessions, records>>

\* lesson.findFirst: a hidden lesson is found too.
AskSheet(r) ==
    /\ At(r, "idle")
    /\ \E l \in Lessons, coach \in Coaches \cup {None}, sheet \in Sheets :
         /\ lessons[l] # None
         /\ Become(r, [Idle EXCEPT !.at = "session", !.lesson = l, !.sheet = [by |-> coach, entries |-> sheet]])
    /\ UNCHANGED <<catalogue, attendance>>

\* Mutant of CoachGiven: the column may be null.
CoachOrNull(coach) == TRUE

\* coachId is required.
CoachGiven(coach) == coach # None

Fresh(x) == sessions[x] = None /\ \A r \in Requests : task[r].session # x

Stored(r) == [lesson |-> task[r].lesson, coach |-> task[r].sheet.by, entries |-> task[r].sheet.entries]

\* Mutant of OpenSession: not in the transaction.
OpenOutside(r) ==
    /\ At(r, "session")
    /\ CoachGiven(task[r].sheet.by)
    /\ \E x \in Sessions :
         /\ Fresh(x)
         /\ sessions' = [sessions EXCEPT ![x] = Stored(r)]
         /\ Become(r, [task[r] EXCEPT !.at = "records", !.session = x])
    /\ UNCHANGED <<catalogue, records>>

\* tx.attendanceSession.create
OpenSession(r) ==
    /\ At(r, "session")
    /\ CoachGiven(task[r].sheet.by)
    /\ \E x \in Sessions :
         /\ Fresh(x)
         /\ Become(r, [task[r] EXCEPT !.at = "records", !.session = x])
    /\ UNCHANGED <<catalogue, attendance>>

\* @@unique([sessionId, studentId])
OnePerStudent(entries) == \A e, g \in entries : e.student = g.student => e = g

\* tx.attendanceRecord.createMany: all of them or an error.
InsertRecords(r) ==
    /\ At(r, "records")
    /\ OnePerStudent(task[r].sheet.entries)
    /\ Become(r, [task[r] EXCEPT !.at = "commit"])
    /\ UNCHANGED <<catalogue, attendance>>

Records(x, entries) ==
    {[session |-> x, student |-> e.student, status |-> e.status] : e \in entries}

Commit(r) ==
    LET x == task[r].session
    IN /\ At(r, "commit")
       /\ sessions' = [sessions EXCEPT ![x] = Stored(r)]
       /\ records' = records \cup Records(x, task[r].sheet.entries)
       /\ Become(r, Idle)
       /\ UNCHANGED catalogue

AttendanceStep(r) == AskSheet(r) \/ OpenSession(r) \/ InsertRecords(r) \/ Commit(r)

\* A request ends at an await: an error, or the process stops.  An open
\* transaction is rolled back.
Abort(r) ==
    /\ ~At(r, "idle")
    /\ Become(r, Idle)
    /\ UNCHANGED <<catalogue, attendance>>

Next ==
    \/ \E r \in Requests : CatalogueStep(r) /\ UNCHANGED attendance
    \/ (OneStatement \/ SeedStep) /\ UNCHANGED attendance
    \/ \E r \in Requests : AttendanceStep(r) \/ Abort(r)

Spec == Init /\ [][Next]_vars

-----------------------------------------------------------------------------
SchoolRow == [slug : Slugs, active : BOOLEAN]
OfferRow == [school : Schools, sport : Sports, fields : Fields \cup {None}, active : BOOLEAN]
LessonRow == [facility : Facilities, active : BOOLEAN]
Submission == [by : Coaches \cup {None}, entries : Sheets]
SessionRow == [lesson : Lessons, coach : Coaches, entries : Sheets]
Task == [at : {"idle", "school", "lesson", "session", "records", "commit"},
         slug : Slugs \cup {None}, lesson : Lessons \cup {None},
         facility : Facilities \cup {None},
         sheet : Submission \cup {None}, session : Sessions \cup {None}]

\* null is none of the values, and the seed is about a slug and a sport.
ASSUME CoursesAssumption ==
    /\ SeedSlug \in Slugs
    /\ SeedSport \in Sports
    /\ None \notin Schools \cup Slugs \cup Fields \cup Facilities \cup Lessons \cup Coaches \cup Sessions
    /\ None \notin SchoolRow
    /\ None \notin OfferRow
    /\ None \notin LessonRow
    /\ None \notin Submission
    /\ None \notin SessionRow
    /\ None \notin {"open", "deleted"}

TypeOK ==
    /\ schools \in [Schools -> SchoolRow \cup {None}]
    /\ sports \in [Sports -> Fields \cup {None}]
    /\ offers \in [Offers -> OfferRow \cup {None}]
    /\ facilities \in [Facilities -> {None, "open", "deleted"}]
    /\ lessons \in [Lessons -> LessonRow \cup {None}]
    /\ seed \in [at : {"rest", "sport", "offer"}, school : Schools \cup {None}]
    /\ task \in [Requests -> Task]
    /\ sessions \in [Sessions -> SessionRow \cup {None}]
    /\ records \subseteq [session : Sessions, student : Students, status : {"PRESENT", "ABSENT"}]

\* A slug leads to one school, hidden or not, whoever else was creating or
\* renaming one, or running the seed, after the lookup.
OneSchoolPerSlug ==
    \A s, t \in Schools :
        schools[s] # None /\ schools[t] # None /\ schools[s].slug = schools[t].slug => s = t

\* "Upsert to handle if it was previously deactivated": a school has one
\* association with a sport, shown or hidden, wherever its own requests and the
\* statements of the seed fall; and what it asks of its members in a sport it
\* shows is never missing, though the seed may stop between sport and school.
OneFormPerSport ==
    /\ \A o, q \in Offers :
         offers[o] # None /\ offers[q] # None
         /\ offers[o].school = offers[q].school /\ offers[o].sport = offers[q].sport => o = q
    /\ \A s \in Schools : \A form \in EffectiveSchema(s) : form.fields # None

\* A lesson, hidden or not, is given at a facility that exists, though one may be
\* deleted between the check of the timetable and the insert: a hidden lesson
\* can be shown again.
LessonsHaveAPlace == \A l \in Lessons : lessons[l] # None => facilities[lessons[l].facility] = "open"

RecordsOf(x) == {rec \in records : rec.session = x}

\* "asegurar que todos los registros se guarden o ninguno": a session that is
\* stored has the records that were submitted with it, one per student; and no
\* record is left without its session.
SheetsAreWhole ==
    /\ \A x \in Sessions : sessions[x] # None =>
         /\ RecordsOf(x) = Records(x, sessions[x].entries)
         /\ \A a, b \in RecordsOf(x) : a.student = b.student => a = b
    /\ \A rec \in records : sessions[rec.session] # None
=============================================================================
