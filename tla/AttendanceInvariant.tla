------------------------ MODULE AttendanceInvariant ------------------------
(***************************************************************************)
(* The inductive invariant behind the properties of Attendance: what a     *)
(* request or the seed may rely on at its next await.                      *)
(***************************************************************************)
EXTENDS Attendance

TaskFacts(q) ==
    /\ q.at = "school" => q.slug # None
    /\ q.at = "lesson" => q.facility # None /\ (q.lesson # None => lessons[q.lesson] # None)
    /\ q.at \in {"session", "records", "commit"} => q.lesson # None /\ q.sheet # None
    /\ q.at \in {"records", "commit"} =>
         q.session # None /\ sessions[q.session] = None /\ q.sheet.by # None
    /\ q.at = "commit" => OnePerStudent(q.sheet.entries)

TasksAreSound == \A r \in Requests : TaskFacts(task[r])

\* Open transactions hold different sessions.
OwnSession ==
    \A r, q \in Requests :
        r # q /\ task[r].session # None => task[r].session # task[q].session

SeedHoldsASchool == seed.at # "rest" => seed.school # None

\* A sport is associated once it exists, and exists with its fields.
SportsAreThere ==
    /\ \A o \in Offers : offers[o] # None => sports[offers[o].sport] # None
    /\ seed.at = "offer" => sports[SeedSport] # None

IInv ==
    /\ TypeOK
    /\ TasksAreSound
    /\ OwnSession
    /\ SeedHoldsASchool
    /\ SportsAreThere
    /\ OneSchoolPerSlug
    /\ OneFormPerSport
    /\ LessonsHaveAPlace
    /\ SheetsAreWhole
=============================================================================
