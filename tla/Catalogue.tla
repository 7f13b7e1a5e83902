----------------------------- MODULE Catalogue -----------------------------
(***************************************************************************)
(* What schools offer: src/src/schools, src/src/sports, src/src/facilities,*)
(* the places where lessons refer to them, and the script prisma/seed.ts,  *)
(* which may be run again at any time and may stop half way.  A statement  *)
(* is one action; what a request carries over an await is in task[r].      *)
(* Names, logos, contact data, and the sport and the hours of a lesson are *)
(* left out.                                                               *)
(***************************************************************************)
EXTENDS FiniteSets

CONSTANTS
    Schools, Sports, Offers, Facilities, Lessons,  \* ids of rows
    Slugs, Fields,
    SeedSlug, SeedSport,          \* what prisma/seed.ts upserts
    Coaches, Students, Sessions,  \* for Attendance
    Sheets,                       \* the bodies of submitted attendance
    Requests,
    None

VARIABLES
    schools,     \* School: slug, active
    sports,      \* Sport: defaultFields
    offers,      \* SchoolSport: school, sport, customFields, active
    facilities,  \* Facility: None, "open", and "deleted" once its id is spent
    lessons,     \* Lesson: facility, active
    seed,        \* prisma/seed.ts: where it stands, and the school it holds
    task         \* the requests in flight

Rest == [at |-> "rest", school |-> None]

Idle == [at |-> "idle", slug |-> None, lesson |-> None, facility |-> None,
         sheet |-> None, session |-> None]

CatalogueInit ==
    /\ schools = [s \in Schools |-> None]
    /\ sports = [p \in Sports |-> None]
    /\ offers = [o \in Offers |-> None]
    /\ facilities = [f \in Facilities |-> None]
    /\ lessons = [l \in Lessons |-> None]
    /\ seed = Rest
    /\ task = [r \in Requests |-> Idle]

sporting == <<sports, offers, seed>>
placing == <<facilities, lessons>>
catalogue == <<schools, sporting, placing>>

At(r, place) == task[r].at = place
Become(r, q) == task' = [task EXCEPT ![r] = q]

(***************************************************************************)
(* Schools                                                                 *)
(***************************************************************************)
HasSlug(s, slug) == schools[s] # None /\ schools[s].slug = slug

\* Mutant of SlugTaken: a hidden school gives its slug up.
SlugTakenByActive(s, slug) == \E t \in Schools \ {s} : HasSlug(t, slug) /\ schools[t].active

\* CREATE UNIQUE INDEX "School_slug_key"
SlugTaken(s, slug) == \E t \in Schools \ {s} : HasSlug(t, slug)

\* school.findUnique({slug})
AskSchool(r) ==
    /\ At(r, "idle")
    /\ \E slug \in Slugs :
         /\ \A s \in Schools : ~HasSlug(s, slug)
         /\ Become(r, [Idle EXCEPT !.at = "school", !.slug = slug])
    /\ UNCHANGED catalogue

\* school.create: the lookup may be out of date, the key is not.
InsertSchool(r) ==
    /\ At(r, "school")
    /\ \E s \in Schools :
         /\ schools[s] = None
         /\ ~SlugTaken(s, task[r].slug)
         /\ schools' = [schools EXCEPT ![s] = [slug |-> task[r].slug, active |-> TRUE]]
    /\ Become(r, Idle)
    /\ UNCHANGED <<sporting, placing>>

UpdateSchool ==
    /\ \E s \in Schools, slug \in Slugs :
         /\ schools[s] # None
         /\ ~SlugTaken(s, slug)
         /\ schools' = [schools EXCEPT ![s].slug = slug]
    /\ UNCHANGED <<sporting, placing, task>>

\* remove: a school is hidden, and keeps everything it has.
RemoveSchool ==
    /\ \E s \in Schools :
         /\ schools[s] # None
         /\ schools' = [schools EXCEPT ![s].active = FALSE]
    /\ UNCHANGED <<sporting, placing, task>>

(***************************************************************************)
(* Sports                                                                  *)
(***************************************************************************)
\* Mutant of OfferOf: a sport that was taken off is not found.
OfferShown(s, p) ==
    {o \in Offers : offers[o] # None /\ offers[o].school = s /\ offers[o].sport = p /\ offers[o].active}

\* @@unique([schoolId, sportId])
OfferOf(s, p) == {o \in Offers : offers[o] # None /\ offers[o].school = s /\ offers[o].sport = p}

NewOffer(s, p, fields) == [school |-> s, sport |-> p, fields |-> fields, active |-> TRUE]

Create(s, p, fields) ==
    \E o \in Offers :
        /\ offers[o] = None
        /\ offers' = [offers EXCEPT ![o] = NewOffer(s, p, fields)]

\* schoolSport.upsert on the key (schoolId, sportId): one statement.
AssociateSport ==
    /\ \E s \in Schools, p \in Sports :
         /\ schools[s] # None
         /\ sports[p] # None
         /\ \/ \E o \in OfferOf(s, p) : offers' = [offers EXCEPT ![o].active = TRUE]
            \/ /\ OfferOf(s, p) = {}
               /\ Create(s, p, None)
    /\ UNCHANGED <<schools, sports, seed, placing, task>>

DissociateSport ==
    /\ \E o \in Offers :
         /\ offers[o] # None
         /\ offers' = [offers EXCEPT ![o].active = FALSE]
    /\ UNCHANGED <<schools, sports, seed, placing, task>>

Configure(o, fields) ==
    /\ offers[o] # None
    /\ offers' = [offers EXCEPT ![o].fields = fields]

UpdateCustomSchema ==
    /\ \E o \in Offers, fields \in Fields : Configure(o, fields)
    /\ UNCHANGED <<schools, sports, seed, placing, task>>

\* The fields getEffectiveSchema reports of a row.
EffectiveFields(o) == IF offers[o].fields # None THEN offers[o].fields ELSE sports[offers[o].sport]

\* getEffectiveSchema
EffectiveSchema(s) ==
    {[offer |-> o, fields |-> EffectiveFields(o)] :
        o \in {o \in Offers : offers[o] # None /\ offers[o].school = s /\ offers[o].active}}

(***************************************************************************)
(* prisma/seed.ts.  Its upsert of the superadmin is a row of User, which   *)
(* nothing here reads.  The fields it writes change from one release of    *)
(* the script to the next.                                                 *)
(***************************************************************************)
\* school.upsert({slug}), with nothing to update.
SeedTheSchool ==
    /\ seed.at = "rest"
    /\ \E s \in Schools :
         /\ \/ HasSlug(s, SeedSlug) /\ UNCHANGED schools
            \/ /\ \A t \in Schools : ~HasSlug(t, SeedSlug)
               /\ schools[s] = None
               /\ schools' = [schools EXCEPT ![s] = [slug |-> SeedSlug, active |-> TRUE]]
         /\ seed' = [at |-> "sport", school |-> s]
    /\ UNCHANGED <<sports, offers, placing, task>>

\* "No tocamos los campos globales si ya existen"
Seeded(row, fields) == IF row = None THEN fields ELSE row

SeedTheSport ==
    /\ seed.at = "sport"
    /\ \E fields \in Fields :
         sports' = [sports EXCEPT ![SeedSport] = Seeded(@, fields)]
    /\ seed' = [seed EXCEPT !.at = "offer"]
    /\ UNCHANGED <<schools, offers, placing, task>>

\* schoolSport.upsert: the fields of the school are written either way, over
\* what it has set itself.
SeedTheOffer ==
    /\ seed.at = "offer"
    /\ \E fields \in Fields :
         \/ \E o \in OfferOf(seed.school, SeedSport) : Configure(o, fields)
         \/ /\ OfferOf(seed.school, SeedSport) = {}
            /\ Create(seed.school, SeedSport, fields)
    /\ seed' = Rest
    /\ UNCHANGED <<schools, sports, placing, task>>

SeedStops ==
    /\ seed # Rest
    /\ seed' = Rest
    /\ UNCHANGED <<schools, sports, offers, placing, task>>

SeedStep == SeedTheSchool \/ SeedTheSport \/ SeedTheOffer \/ SeedStops

(***************************************************************************)
(* Facilities, and the lessons that are given there.  A request places a   *)
(* lesson some awaits after its facility was chosen (LessonsService looks  *)
(* at the timetable first); the foreign keys decide.                       *)
(***************************************************************************)
AddFacility ==
    /\ \E f \in Facilities :
         /\ facilities[f] = None
         /\ facilities' = [facilities EXCEPT ![f] = "open"]
    /\ UNCHANGED <<schools, sporting, lessons, task>>

\* Mutant of InUse: a hidden lesson needs no facility.
InUseByActive(f) == \E l \in Lessons : lessons[l] # None /\ lessons[l].facility = f /\ lessons[l].active

\* "Lesson_facilityId_fkey" ... ON DELETE RESTRICT
InUse(f) == \E l \in Lessons : lessons[l] # None /\ lessons[l].facility = f

RemoveFacility ==
    /\ \E f \in Facilities :
         /\ facilities[f] = "open"
         /\ ~InUse(f)
         /\ facilities' = [facilities EXCEPT ![f] = "deleted"]
    /\ UNCHANGED <<schools, sporting, lessons, task>>

\* create (no lesson yet) and update: the lookups before the last await.
AskLesson(r) ==
    /\ At(r, "idle")
    /\ \E l \in Lessons \cup {None}, f \in Facilities :
         /\ l # None => lessons[l] # None
         /\ facilities[f] # None
         /\ Become(r, [Idle EXCEPT !.at = "lesson", !.lesson = l, !.facility = f])
    /\ UNCHANGED catalogue

\* lesson.create
CreateLesson(r) ==
    /\ At(r, "lesson")
    /\ task[r].lesson = None
    /\ facilities[task[r].facility] = "open"
    /\ \E l \in Lessons :
         /\ lessons[l] = None
         /\ lessons' = [lessons EXCEPT ![l] = [facility |-> task[r].facility, active |-> TRUE]]
    /\ Become(r, Idle)
    /\ UNCHANGED <<schools, sporting, facilities>>

\* lesson.update
MoveLesson(r) ==
    /\ At(r, "lesson")
    /\ task[r].lesson # None
    /\ facilities[task[r].facility] = "open"
    /\ lessons' = [lessons EXCEPT ![task[r].lesson].facility = task[r].facility]
    /\ Become(r, Idle)
    /\ UNCHANGED <<schools, sporting, facilities>>

\* remove, or update of active alone.
ShowLesson ==
    /\ \E l \in Lessons, active \in BOOLEAN :
         /\ lessons[l] # None
         /\ lessons' = [lessons EXCEPT ![l].active = active]
    /\ UNCHANGED <<schools, sporting, facilities, task>>

CatalogueStep(r) ==
    AskSchool(r) \/ InsertSchool(r) \/ AskLesson(r) \/ CreateLesson(r) \/ MoveLesson(r)

OneStatement ==
    \/ UpdateSchool \/ RemoveSchool
    \/ AssociateSport \/ DissociateSport \/ UpdateCustomSchema
    \/ AddFacility \/ RemoveFacility \/ ShowLesson
=============================================================================
