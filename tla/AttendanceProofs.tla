-------------------------- MODULE AttendanceProofs --------------------------
(***************************************************************************)
(* The properties of Attendance for any number of schools, sports, lessons,*)
(* sheets and requests, wherever requests and the seed stop.               *)
(***************************************************************************)
EXTENDS AttendanceInvariant, TLAPS

-----------------------------------------------------------------------------
(***************************************************************************)
(* Types                                                                   *)
(***************************************************************************)
LEMMA InitType == Init => TypeOK
BY CoursesAssumption DEF Init, CatalogueInit, TypeOK, Task, Idle, Rest

\* What a request becomes has its type, if it is a request.
LEMMA BecomeType ==
    ASSUME TypeOK, NEW r \in Requests, NEW q \in Task, Become(r, q)
    PROVE  task' \in [Requests -> Task]
BY DEF TypeOK, Become

LEMMA IdleType == Idle \in Task
BY DEF Idle, Task

LEMMA TypeKept ==
    ASSUME TypeOK, TasksAreSound, SeedHoldsASchool, [Next]_vars
    PROVE  TypeOK'
<1> USE CoursesAssumption
<1>1. ASSUME NEW r \in Requests, AskSchool(r), UNCHANGED attendance
      PROVE  TypeOK'
    BY <1>1, IdleType, BecomeType DEF TypeOK, AskSchool, attendance, catalogue, sporting, placing, At, Task, Idle
<1>2. ASSUME NEW r \in Requests, InsertSchool(r), UNCHANGED attendance
      PROVE  TypeOK'
    BY <1>2, IdleType, BecomeType DEF TypeOK, InsertSchool, attendance, catalogue, sporting, placing, At, SchoolRow, TasksAreSound, TaskFacts, Task
<1>3. ASSUME NEW r \in Requests, AskLesson(r), UNCHANGED attendance
      PROVE  TypeOK'
    BY <1>3, IdleType, BecomeType DEF TypeOK, AskLesson, attendance, catalogue, sporting, placing, At, Task, Idle
<1>4. ASSUME NEW r \in Requests, CreateLesson(r), UNCHANGED attendance
      PROVE  TypeOK'
    BY <1>4, IdleType, BecomeType DEF TypeOK, CreateLesson, attendance, catalogue, sporting, placing, At, LessonRow, TasksAreSound, TaskFacts, Task
<1>5. ASSUME NEW r \in Requests, MoveLesson(r), UNCHANGED attendance
      PROVE  TypeOK'
    BY <1>5, IdleType, BecomeType DEF TypeOK, MoveLesson, attendance, catalogue, sporting, placing, At, LessonRow, TasksAreSound, TaskFacts, Task
<1>6. CASE UpdateSchool /\ UNCHANGED attendance
    BY <1>6 DEF TypeOK, UpdateSchool, attendance, catalogue, sporting, placing, SchoolRow
<1>7. CASE RemoveSchool /\ UNCHANGED attendance
    <2>1. PICK s \in Schools : schools[s] # None /\ schools' = [schools EXCEPT ![s].active = FALSE]
        BY <1>7 DEF RemoveSchool
    <2>2. [schools[s] EXCEPT !.active = FALSE] \in SchoolRow
        BY <2>1 DEF TypeOK, SchoolRow
    <2>3. schools' \in [Schools -> SchoolRow \cup {None}]
        BY <2>1, <2>2 DEF TypeOK
    <2> QED
        BY <1>7, <2>3 DEF TypeOK, RemoveSchool, attendance, sporting, placing
<1>8. CASE AssociateSport /\ UNCHANGED attendance
    <2>1. offers' \in [Offers -> OfferRow \cup {None}]
        <3>1. PICK s \in Schools, p \in Sports :
                 \/ \E o \in OfferOf(s, p) : offers' = [offers EXCEPT ![o].active = TRUE]
                 \/ Create(s, p, None)
            BY <1>8 DEF AssociateSport
        <3>2. CASE Create(s, p, None)
            BY <3>2 DEF TypeOK, Create, NewOffer, OfferRow
        <3>3. ASSUME NEW o \in OfferOf(s, p), offers' = [offers EXCEPT ![o].active = TRUE]
              PROVE  offers' \in [Offers -> OfferRow \cup {None}]
            <4>1. o \in Offers /\ offers[o] \in OfferRow
                BY DEF OfferOf, TypeOK
            <4>2. [offers[o] EXCEPT !.active = TRUE] \in OfferRow
                BY <4>1 DEF OfferRow
            <4> QED
                BY <3>3, <4>1, <4>2 DEF TypeOK
        <3> QED
            BY <3>1, <3>2, <3>3
    <2> QED
        BY <1>8, <2>1 DEF TypeOK, AssociateSport, attendance, placing
<1>9. CASE DissociateSport /\ UNCHANGED attendance
    <2>1. PICK o \in Offers : offers[o] # None /\ offers' = [offers EXCEPT ![o].active = FALSE]
        BY <1>9 DEF DissociateSport
    <2>2. [offers[o] EXCEPT !.active = FALSE] \in OfferRow
        BY <2>1 DEF TypeOK, OfferRow
    <2>3. offers' \in [Offers -> OfferRow \cup {None}]
        BY <2>1, <2>2 DEF TypeOK
    <2> QED
        BY <1>9, <2>3 DEF TypeOK, DissociateSport, attendance, placing
<1>10. CASE UpdateCustomSchema /\ UNCHANGED attendance
    BY <1>10 DEF TypeOK, UpdateCustomSchema, attendance, catalogue, sporting, placing, OfferRow, Configure, Create, NewOffer, OfferOf
<1>11. CASE AddFacility /\ UNCHANGED attendance
    BY <1>11 DEF TypeOK, AddFacility, attendance, catalogue, sporting, placing
<1>12. CASE RemoveFacility /\ UNCHANGED attendance
    BY <1>12 DEF TypeOK, RemoveFacility, attendance, catalogue, sporting, placing
<1>13. CASE ShowLesson /\ UNCHANGED attendance
    BY <1>13 DEF TypeOK, ShowLesson, attendance, catalogue, sporting, placing, LessonRow
<1>14. CASE SeedTheSchool /\ UNCHANGED attendance
    <2>1. PICK s \in Schools :
             /\ \/ UNCHANGED schools
                \/ schools' = [schools EXCEPT ![s] = [slug |-> SeedSlug, active |-> TRUE]]
             /\ seed' = [at |-> "sport", school |-> s]
        BY <1>14 DEF SeedTheSchool
    <2>2. schools' \in [Schools -> SchoolRow \cup {None}]
        <3>1. [slug |-> SeedSlug, active |-> TRUE] \in SchoolRow
            BY DEF SchoolRow
        <3> QED
            BY <2>1, <3>1 DEF TypeOK
    <2> QED
        BY <1>14, <2>1, <2>2 DEF TypeOK, SeedTheSchool, attendance, placing
<1>15. CASE SeedTheSport /\ UNCHANGED attendance
    BY <1>15 DEF TypeOK, SeedTheSport, attendance, catalogue, sporting, placing, Seeded, Rest, SeedHoldsASchool
<1>16. CASE SeedTheOffer /\ UNCHANGED attendance
    <2>1. seed.school \in Schools
        BY <1>16 DEF TypeOK, SeedTheOffer, SeedHoldsASchool
    <2>2. offers' \in [Offers -> OfferRow \cup {None}]
        <3>1. PICK fields \in Fields :
                 \/ \E o \in OfferOf(seed.school, SeedSport) : Configure(o, fields)
                 \/ Create(seed.school, SeedSport, fields)
            BY <1>16 DEF SeedTheOffer
        <3>2. CASE Create(seed.school, SeedSport, fields)
            BY <2>1, <3>2 DEF TypeOK, Create, NewOffer, OfferRow
        <3>3. ASSUME NEW o \in OfferOf(seed.school, SeedSport), Configure(o, fields)
              PROVE  offers' \in [Offers -> OfferRow \cup {None}]
            <4>1. o \in Offers /\ offers[o] \in OfferRow
                BY DEF OfferOf, TypeOK
            <4>2. [offers[o] EXCEPT !.fields = fields] \in OfferRow
                BY <4>1 DEF OfferRow
            <4> QED
                BY <3>3, <4>1, <4>2 DEF TypeOK, Configure
        <3> QED
            BY <3>1, <3>2, <3>3
    <2> QED
        BY <1>16, <2>2 DEF TypeOK, SeedTheOffer, Rest, attendance, placing
<1>17. CASE SeedStops /\ UNCHANGED attendance
    BY <1>17 DEF TypeOK, SeedStops, attendance, catalogue, sporting, placing, Rest, SeedHoldsASchool
<1>18. ASSUME NEW r \in Requests, AskSheet(r)
      PROVE  TypeOK'
    BY <1>18, IdleType, BecomeType DEF TypeOK, AskSheet, attendance, catalogue, sporting, placing, At, Task, Idle, Submission
<1>19. ASSUME NEW r \in Requests, OpenSession(r)
      PROVE  TypeOK'
    BY <1>19, IdleType, BecomeType DEF TypeOK, OpenSession, attendance, catalogue, sporting, placing, At, Task, Idle, Submission
<1>20. ASSUME NEW r \in Requests, InsertRecords(r)
      PROVE  TypeOK'
    BY <1>20, IdleType, BecomeType DEF TypeOK, InsertRecords, attendance, catalogue, sporting, placing, At, Task, Idle
<1>21. ASSUME NEW r \in Requests, Commit(r)
      PROVE  TypeOK'
    <2>1. /\ task[r].lesson \in Lessons /\ task[r].session \in Sessions
          /\ task[r].sheet.by \in Coaches /\ task[r].sheet.entries \in Sheets
        BY <1>21 DEF Commit, At, TypeOK, Task, Submission, TasksAreSound, TaskFacts
    <2>2. sessions' \in [Sessions -> SessionRow \cup {None}]
        BY <1>21, <2>1 DEF Commit, Stored, TypeOK, SessionRow
    <2>3. records' \subseteq [session : Sessions, student : Students, status : {"PRESENT", "ABSENT"}]
        BY <1>21, <2>1, SheetsAssumption DEF Commit, Records, TypeOK, Entry
    <2>4. task' \in [Requests -> Task]
        BY <1>21, IdleType, BecomeType DEF Commit
    <2> QED
        BY <1>21, <2>2, <2>3, <2>4 DEF TypeOK, Commit, catalogue, sporting, placing
<1>22. ASSUME NEW r \in Requests, Abort(r)
      PROVE  TypeOK'
    BY <1>22, IdleType, BecomeType DEF TypeOK, Abort, attendance, catalogue, sporting, placing, At
<1>23. CASE UNCHANGED vars
    BY <1>23 DEF TypeOK, vars
<1> QED
    BY <1>1, <1>2, <1>3, <1>4, <1>5, <1>6, <1>7, <1>8, <1>9, <1>10, <1>11, <1>12, <1>13, <1>14, <1>15, <1>16, <1>17, <1>18, <1>19, <1>20, <1>21, <1>22, <1>23
       DEF Next, CatalogueStep, OneStatement, SeedStep, AttendanceStep

-----------------------------------------------------------------------------
(***************************************************************************)
(* Schools                                                                 *)
(***************************************************************************)
\* The slug of a school that is written is nobody else's; the others keep theirs.
SchoolsMove ==
    \/ UNCHANGED schools
    \/ \E s \in Schools, row \in SchoolRow :
         /\ ~SlugTaken(s, row.slug)
         /\ schools' = [schools EXCEPT ![s] = row]

LEMMA SchoolsOnlyMove ==
    ASSUME TypeOK, TasksAreSound, OneSchoolPerSlug, [Next]_vars
    PROVE  SchoolsMove
<1> USE CoursesAssumption
<1>1. ASSUME NEW r \in Requests, InsertSchool(r)
      PROVE  SchoolsMove
    <2>1. task[r].slug \in Slugs
        BY <1>1 DEF InsertSchool, At, TypeOK, Task, TasksAreSound, TaskFacts
    <2>2. [slug |-> task[r].slug, active |-> TRUE] \in SchoolRow
        BY <2>1 DEF SchoolRow
    <2> QED
        BY <1>1, <2>2 DEF InsertSchool, SchoolsMove
<1>2. CASE UpdateSchool
    <2>1. PICK s \in Schools, slug \in Slugs :
             schools[s] # None /\ ~SlugTaken(s, slug) /\ schools' = [schools EXCEPT ![s].slug = slug]
        BY <1>2 DEF UpdateSchool
    <2>2. /\ [schools[s] EXCEPT !.slug = slug] \in SchoolRow
          /\ [schools[s] EXCEPT !.slug = slug].slug = slug
        BY <2>1 DEF TypeOK, SchoolRow
    <2> QED
        BY <2>1, <2>2 DEF SchoolsMove
<1>3. CASE RemoveSchool
    <2>1. PICK s \in Schools : schools[s] # None /\ schools' = [schools EXCEPT ![s].active = FALSE]
        BY <1>3 DEF RemoveSchool
    <2>2. /\ [schools[s] EXCEPT !.active = FALSE] \in SchoolRow
          /\ [schools[s] EXCEPT !.active = FALSE].slug = schools[s].slug
        BY <2>1 DEF TypeOK, SchoolRow
    <2>3. ~SlugTaken(s, schools[s].slug)
        BY <2>1 DEF OneSchoolPerSlug, SlugTaken, HasSlug
    <2> QED
        BY <2>1, <2>2, <2>3 DEF SchoolsMove
<1>4. CASE SeedTheSchool
    <2>1. PICK s \in Schools :
             \/ UNCHANGED schools
             \/ /\ \A t \in Schools : ~HasSlug(t, SeedSlug)
                /\ schools' = [schools EXCEPT ![s] = [slug |-> SeedSlug, active |-> TRUE]]
        BY <1>4 DEF SeedTheSchool
    <2>2. [slug |-> SeedSlug, active |-> TRUE] \in SchoolRow
        BY DEF SchoolRow
    <2> QED
        BY <2>1, <2>2 DEF SchoolsMove, SlugTaken
<1>5. CASE UNCHANGED schools
    BY <1>5 DEF SchoolsMove
<1> QED
    BY <1>1, <1>2, <1>3, <1>4, <1>5
       DEF Next, CatalogueStep, OneStatement, SeedStep, AttendanceStep, vars, catalogue,
           AskSchool, AskLesson, CreateLesson, MoveLesson,
           AssociateSport, DissociateSport, UpdateCustomSchema, AddFacility, RemoveFacility,
           ShowLesson, SeedTheSport, SeedTheOffer, SeedStops,
           AskSheet, OpenSession, InsertRecords, Commit, Abort

LEMMA SlugsKept ==
    ASSUME TypeOK, OneSchoolPerSlug, SchoolsMove
    PROVE  OneSchoolPerSlug'
<1>1. CASE UNCHANGED schools
    BY <1>1 DEF OneSchoolPerSlug
<1>2. ASSUME NEW s \in Schools, NEW row \in SchoolRow,
             ~SlugTaken(s, row.slug), schools' = [schools EXCEPT ![s] = row]
      PROVE  OneSchoolPerSlug'
    BY <1>2 DEF OneSchoolPerSlug, SlugTaken, HasSlug, TypeOK
<1> QED
    BY <1>1, <1>2 DEF SchoolsMove

-----------------------------------------------------------------------------
(***************************************************************************)
(* Sports                                                                  *)
(***************************************************************************)
LEMMA SeedKept ==
    ASSUME TypeOK, SeedHoldsASchool, [Next]_vars
    PROVE  SeedHoldsASchool'
<1>1. CASE SeedTheSchool
    BY <1>1, CoursesAssumption DEF SeedTheSchool, SeedHoldsASchool
<1>2. CASE SeedTheSport
    BY <1>2 DEF SeedTheSport, SeedHoldsASchool, TypeOK
<1>3. CASE seed' = Rest
    BY <1>3 DEF Rest, SeedHoldsASchool
<1>4. CASE UNCHANGED seed
    BY <1>4 DEF SeedHoldsASchool
<1> QED
    BY <1>1, <1>2, <1>3, <1>4
       DEF Next, CatalogueStep, OneStatement, SeedStep, AttendanceStep, vars, catalogue, sporting,
           AskSchool, InsertSchool, AskLesson, CreateLesson, MoveLesson, UpdateSchool, RemoveSchool,
           AssociateSport, DissociateSport, UpdateCustomSchema, AddFacility, RemoveFacility,
           ShowLesson, SeedTheOffer, SeedStops,
           AskSheet, OpenSession, InsertRecords, Commit, Abort

\* Rows keep the sport they are about, new ones are about a sport that exists,
\* and no school gets a second row for a sport.
OffersMove ==
    /\ \A o \in Offers : offers[o] # None =>
         offers'[o] # None /\ offers'[o].school = offers[o].school /\ offers'[o].sport = offers[o].sport
    /\ \A o, q \in Offers : offers[o] = None /\ offers'[o] # None =>
         /\ sports[offers'[o].sport] # None
         /\ q # o /\ offers'[q] # None =>
              offers[q] # None /\ (offers'[q].school # offers'[o].school \/ offers'[q].sport # offers'[o].sport)

LEMMA CreateMoves ==
    ASSUME TypeOK, NEW s \in Schools, NEW p \in Sports, NEW fields \in Fields \cup {None},
           sports[p] # None, OfferOf(s, p) = {}, Create(s, p, fields)
    PROVE  OffersMove
<1>1. PICK o \in Offers : offers[o] = None /\ offers' = [offers EXCEPT ![o] = NewOffer(s, p, fields)]
    BY DEF Create
<1>2. NewOffer(s, p, fields) \in OfferRow /\ NewOffer(s, p, fields) # None
    <2>1. NewOffer(s, p, fields) \in OfferRow
        BY DEF NewOffer, OfferRow
    <2> QED
        BY <2>1, CoursesAssumption
<1>3. /\ offers'[o].school = s /\ offers'[o].sport = p /\ offers'[o] # None
      /\ \A q \in Offers : q # o => offers'[q] = offers[q]
    BY <1>1, <1>2 DEF TypeOK, NewOffer
<1>4. \A q \in Offers : offers[q] # None => offers[q].school # s \/ offers[q].sport # p
    BY DEF OfferOf
<1> QED
    BY <1>1, <1>3, <1>4 DEF OffersMove

\* A row is shown, hidden or given fields: its school and its sport stay.
LEMMA RowMoves ==
    ASSUME TypeOK, NEW o \in Offers, offers[o] # None, NEW row \in OfferRow,
           row.school = offers[o].school, row.sport = offers[o].sport,
           offers' = [offers EXCEPT ![o] = row]
    PROVE  OffersMove
<1>1. /\ offers'[o] = row /\ row # None
      /\ \A q \in Offers : q # o => offers'[q] = offers[q]
    BY CoursesAssumption DEF TypeOK
<1> QED
    BY <1>1 DEF OffersMove

LEMMA ShownMoves ==
    ASSUME TypeOK, NEW o \in Offers, offers[o] # None, NEW active \in BOOLEAN,
           offers' = [offers EXCEPT ![o].active = active]
    PROVE  OffersMove
<1>1. offers[o] \in OfferRow
    BY DEF TypeOK
<1> DEFINE row == [offers[o] EXCEPT !.active = active]
<1>2. row \in OfferRow /\ row.school = offers[o].school /\ row.sport = offers[o].sport
    BY <1>1 DEF OfferRow
<1> QED
    BY <1>2, RowMoves

LEMMA ConfigureMoves ==
    ASSUME TypeOK, NEW o \in Offers, NEW fields \in Fields, Configure(o, fields)
    PROVE  OffersMove
<1>1. offers[o] \in OfferRow /\ offers[o] # None
    BY DEF TypeOK, Configure
<1> DEFINE row == [offers[o] EXCEPT !.fields = fields]
<1>2. row \in OfferRow /\ row.school = offers[o].school /\ row.sport = offers[o].sport
    BY <1>1 DEF OfferRow
<1> QED
    BY <1>1, <1>2, RowMoves DEF Configure

LEMMA OffersOnlyMove ==
    ASSUME TypeOK, SportsAreThere, SeedHoldsASchool, [Next]_vars
    PROVE  OffersMove
<1> USE CoursesAssumption
<1>1. CASE AssociateSport
    <2>1. PICK s \in Schools, p \in Sports :
             /\ sports[p] # None
             /\ \/ \E o \in OfferOf(s, p) : offers' = [offers EXCEPT ![o].active = TRUE]
                \/ OfferOf(s, p) = {} /\ Create(s, p, None)
        BY <1>1 DEF AssociateSport
    <2> QED
        BY <2>1, CreateMoves, ShownMoves DEF OfferOf
<1>2. CASE DissociateSport
    BY <1>2, ShownMoves DEF DissociateSport
<1>3. CASE UpdateCustomSchema
    BY <1>3, ConfigureMoves DEF UpdateCustomSchema
<1>4. CASE SeedTheOffer
    <2>1. seed.school \in Schools /\ sports[SeedSport] # None
        BY <1>4 DEF SeedTheOffer, SeedHoldsASchool, SportsAreThere, TypeOK
    <2> QED
        BY <1>4, <2>1, ConfigureMoves, CreateMoves DEF SeedTheOffer, OfferOf
<1>5. CASE UNCHANGED offers
    BY <1>5 DEF OffersMove
<1> QED
    BY <1>1, <1>2, <1>3, <1>4, <1>5
       DEF Next, CatalogueStep, OneStatement, SeedStep, AttendanceStep, vars, catalogue, sporting,
           AskSchool, InsertSchool, AskLesson, CreateLesson, MoveLesson, UpdateSchool, RemoveSchool,
           AddFacility, RemoveFacility, ShowLesson, SeedTheSchool, SeedTheSport, SeedStops,
           AskSheet, OpenSession, InsertRecords, Commit, Abort

\* A sport that exists keeps existing; the one of the seed does once it is written.
SportsStay ==
    /\ \A p \in Sports : sports[p] # None => sports'[p] # None
    /\ seed'.at = "offer" => sports'[SeedSport] # None

LEMMA SportsOnlyStay ==
    ASSUME TypeOK, SportsAreThere, [Next]_vars
    PROVE  SportsStay
<1> USE CoursesAssumption
<1>1. CASE SeedTheSport
    BY <1>1 DEF SeedTheSport, Seeded, SportsStay, TypeOK
<1>2. ASSUME UNCHANGED sports, seed'.at = "offer" => seed.at = "offer"
      PROVE  SportsStay
    BY <1>2 DEF SportsStay, SportsAreThere
<1>3. CASE SeedTheSchool \/ SeedTheOffer \/ SeedStops
    BY <1>2, <1>3 DEF SeedTheSchool, SeedTheOffer, SeedStops, Rest
<1>4. CASE UNCHANGED <<sports, seed>>
    BY <1>2, <1>4
<1> QED
    BY <1>1, <1>3, <1>4
       DEF Next, CatalogueStep, OneStatement, SeedStep, AttendanceStep, vars, catalogue, sporting,
           AskSchool, InsertSchool, AskLesson, CreateLesson, MoveLesson, UpdateSchool, RemoveSchool,
           AssociateSport, DissociateSport, UpdateCustomSchema, AddFacility, RemoveFacility,
           ShowLesson, AskSheet, OpenSession, InsertRecords, Commit, Abort

\* A form that is shown has the fields of the school or of a sport that exists.
LEMMA FormsHaveFields ==
    SportsAreThere => \A s \in Schools : \A form \in EffectiveSchema(s) : form.fields # None
BY DEF EffectiveSchema, EffectiveFields, SportsAreThere

LEMMA FormsKept ==
    ASSUME TypeOK, TypeOK', SportsAreThere, SeedHoldsASchool, OneFormPerSport, [Next]_vars
    PROVE  SportsAreThere' /\ OneFormPerSport'
<1>1. OffersMove /\ SportsStay
    BY OffersOnlyMove, SportsOnlyStay
<1>2. SportsAreThere'
    <2>1. ASSUME NEW o \in Offers, offers'[o] # None
          PROVE  sports'[offers'[o].sport] # None
        <3>1. offers'[o].sport \in Sports
            BY <2>1 DEF TypeOK, OfferRow
        <3>2. sports[offers'[o].sport] # None
            BY <1>1, <2>1 DEF OffersMove, SportsAreThere
        <3> QED
            BY <1>1, <3>1, <3>2 DEF SportsStay
    <2> QED
        BY <1>1, <2>1 DEF SportsAreThere, SportsStay
<1>3. ASSUME NEW o \in Offers, NEW q \in Offers, offers'[o] # None, offers'[q] # None,
             offers'[o].school = offers'[q].school, offers'[o].sport = offers'[q].sport
      PROVE  o = q
    BY <1>1, <1>3 DEF OffersMove, OneFormPerSport
<1>4. (\A s \in Schools : \A form \in EffectiveSchema(s) : form.fields # None)'
    BY <1>2, FormsHaveFields, PTL
<1> QED
    BY <1>2, <1>3, <1>4 DEF OneFormPerSport

-----------------------------------------------------------------------------
(***************************************************************************)
(* Lessons                                                                 *)
(***************************************************************************)
LEMMA PlacesKept ==
    ASSUME TypeOK, TasksAreSound, LessonsHaveAPlace, [Next]_vars
    PROVE  LessonsHaveAPlace'
<1> USE CoursesAssumption
<1>1. ASSUME NEW r \in Requests, CreateLesson(r)
      PROVE  LessonsHaveAPlace'
    BY <1>1 DEF CreateLesson, LessonsHaveAPlace, TypeOK
<1>2. ASSUME NEW r \in Requests, MoveLesson(r)
      PROVE  LessonsHaveAPlace'
    <2>1. /\ task[r].lesson \in Lessons
          /\ lessons[task[r].lesson] \in LessonRow
        BY <1>2 DEF MoveLesson, At, TypeOK, Task, TasksAreSound, TaskFacts
    <2> QED
        BY <1>2, <2>1 DEF MoveLesson, LessonsHaveAPlace, TypeOK, LessonRow
<1>3. CASE RemoveFacility
    BY <1>3 DEF RemoveFacility, InUse, LessonsHaveAPlace, TypeOK, LessonRow
<1>4. CASE AddFacility
    BY <1>4 DEF AddFacility, LessonsHaveAPlace, TypeOK, LessonRow
<1>5. CASE ShowLesson
    <2>1. PICK l \in Lessons, active \in BOOLEAN :
             lessons[l] # None /\ lessons' = [lessons EXCEPT ![l].active = active]
        BY <1>5 DEF ShowLesson
    <2>2. lessons[l] \in LessonRow
        BY <2>1 DEF TypeOK
    <2> QED
        BY <1>5, <2>1, <2>2 DEF ShowLesson, LessonsHaveAPlace, TypeOK, LessonRow
<1>6. CASE UNCHANGED placing
    BY <1>6 DEF placing, LessonsHaveAPlace
<1> QED
    BY <1>1, <1>2, <1>3, <1>4, <1>5, <1>6
       DEF Next, CatalogueStep, OneStatement, SeedStep, AttendanceStep, vars, catalogue, placing,
           AskSchool, InsertSchool, AskLesson, UpdateSchool, RemoveSchool,
           AssociateSport, DissociateSport, UpdateCustomSchema,
           SeedTheSchool, SeedTheSport, SeedTheOffer, SeedStops,
           AskSheet, OpenSession, InsertRecords, Commit, Abort

-----------------------------------------------------------------------------
(***************************************************************************)
(* Requests                                                                *)
(***************************************************************************)
\* A lesson is never deleted.
LessonsStay == \A l \in Lessons : lessons[l] # None => lessons'[l] # None

LEMMA LessonsOnlyGrow ==
    ASSUME TypeOK, TasksAreSound, [Next]_vars
    PROVE  LessonsStay
<1> USE CoursesAssumption
<1>1. ASSUME NEW r \in Requests, CreateLesson(r)
      PROVE  LessonsStay
    BY <1>1 DEF CreateLesson, LessonsStay, TypeOK
<1>2. ASSUME NEW l \in Lessons, NEW row \in LessonRow, lessons' = [lessons EXCEPT ![l] = row]
      PROVE  LessonsStay
    BY <1>2 DEF LessonsStay, TypeOK
<1>3. ASSUME NEW r \in Requests, MoveLesson(r)
      PROVE  LessonsStay
    <2>1. /\ task[r].lesson \in Lessons /\ task[r].facility \in Facilities
          /\ lessons[task[r].lesson] \in LessonRow
        BY <1>3 DEF MoveLesson, At, TypeOK, Task, TasksAreSound, TaskFacts
    <2>2. [lessons[task[r].lesson] EXCEPT !.facility = task[r].facility] \in LessonRow
        BY <2>1 DEF LessonRow
    <2> QED
        BY <1>2, <1>3, <2>1, <2>2 DEF MoveLesson
<1>4. CASE ShowLesson
    <2>1. PICK l \in Lessons, active \in BOOLEAN :
             lessons[l] # None /\ lessons' = [lessons EXCEPT ![l].active = active]
        BY <1>4 DEF ShowLesson
    <2>2. [lessons[l] EXCEPT !.active = active] \in LessonRow
        BY <2>1 DEF TypeOK, LessonRow
    <2> QED
        BY <1>2, <2>1, <2>2
<1>5. CASE UNCHANGED lessons
    BY <1>5 DEF LessonsStay
<1> QED
    BY <1>1, <1>3, <1>4, <1>5
       DEF Next, CatalogueStep, OneStatement, SeedStep, AttendanceStep, vars, catalogue, placing,
           AskSchool, InsertSchool, AskLesson, UpdateSchool, RemoveSchool,
           AssociateSport, DissociateSport, UpdateCustomSchema, AddFacility, RemoveFacility,
           SeedTheSchool, SeedTheSport, SeedTheOffer, SeedStops,
           AskSheet, OpenSession, InsertRecords, Commit, Abort

\* A request that does not move keeps what it relies on, if nobody stores its session.
LEMMA OthersKept ==
    ASSUME TypeOK, TasksAreSound, LessonsStay,
           NEW q \in Requests, task'[q] = task[q],
           task[q].session # None => sessions'[task[q].session] = sessions[task[q].session]
    PROVE  TaskFacts(task[q])'
<1>1. TaskFacts(task[q])
    BY DEF TasksAreSound
<1>2. task[q] \in Task
    BY DEF TypeOK
<1>3. task[q].at = "lesson" => (task[q].lesson # None => lessons'[task[q].lesson] # None)
    BY <1>1, <1>2 DEF TaskFacts, Task, LessonsStay
<1> QED
    BY <1>1, <1>3 DEF TaskFacts

\* A request becomes something else, and stores no session.
LEMMA OneMoves ==
    ASSUME TypeOK, TasksAreSound, OwnSession, LessonsStay, UNCHANGED sessions,
           NEW r \in Requests, NEW q \in Task, Become(r, q),
           TaskFacts(q)',
           q.session # None => \A x \in Requests : x # r => task[x].session # q.session
    PROVE  TasksAreSound' /\ OwnSession'
<1>1. /\ task'[r] = q
      /\ \A x \in Requests : x # r => task'[x] = task[x]
    BY DEF Become, TypeOK
<1>2. ASSUME NEW x \in Requests
      PROVE  TaskFacts(task[x])'
    <2>1. CASE x = r
        BY <1>1, <2>1 DEF TaskFacts
    <2>2. CASE x # r
        BY <1>1, <2>2, OthersKept
    <2> QED
        BY <2>1, <2>2
<1>3. OwnSession'
    BY <1>1 DEF OwnSession
<1> QED
    BY <1>2, <1>3 DEF TasksAreSound

LEMMA TasksKept ==
    ASSUME TypeOK, TasksAreSound, OwnSession, [Next]_vars
    PROVE  TasksAreSound' /\ OwnSession'
<1> USE CoursesAssumption
<1>0. LessonsStay
    BY LessonsOnlyGrow
<1>1. ASSUME NEW r \in Requests, Become(r, Idle), UNCHANGED sessions
      PROVE  TasksAreSound' /\ OwnSession'
    BY <1>0, <1>1, IdleType, OneMoves DEF Idle, TaskFacts
<1>2. ASSUME NEW r \in Requests, AskSchool(r), UNCHANGED attendance
      PROVE  TasksAreSound' /\ OwnSession'
    <2>1. PICK slug \in Slugs : Become(r, [Idle EXCEPT !.at = "school", !.slug = slug])
        BY <1>2 DEF AskSchool
    <2> DEFINE q == [Idle EXCEPT !.at = "school", !.slug = slug]
    <2>2. q \in Task /\ TaskFacts(q)' /\ q.session = None
        BY DEF Idle, Task, TaskFacts
    <2> QED
        BY <1>0, <1>2, <2>1, <2>2, OneMoves DEF attendance
<1>3. ASSUME NEW r \in Requests, AskLesson(r), UNCHANGED attendance
      PROVE  TasksAreSound' /\ OwnSession'
    <2>1. PICK l \in Lessons \cup {None}, f \in Facilities :
             /\ l # None => lessons[l] # None
             /\ Become(r, [Idle EXCEPT !.at = "lesson", !.lesson = l, !.facility = f])
        BY <1>3 DEF AskLesson
    <2> DEFINE q == [Idle EXCEPT !.at = "lesson", !.lesson = l, !.facility = f]
    <2>2. q \in Task /\ q.session = None
        BY DEF Idle, Task
    <2>3. TaskFacts(q)'
        BY <1>0, <2>1 DEF Idle, TaskFacts, LessonsStay
    <2> QED
        BY <1>0, <1>3, <2>1, <2>2, <2>3, OneMoves DEF attendance
<1>4. ASSUME NEW r \in Requests, AskSheet(r)
      PROVE  TasksAreSound' /\ OwnSession'
    <2>1. PICK l \in Lessons, coach \in Coaches \cup {None}, sheet \in Sheets :
             Become(r, [Idle EXCEPT !.at = "session", !.lesson = l,
                                    !.sheet = [by |-> coach, entries |-> sheet]])
        BY <1>4 DEF AskSheet
    <2> DEFINE q == [Idle EXCEPT !.at = "session", !.lesson = l,
                                 !.sheet = [by |-> coach, entries |-> sheet]]
    <2>2. [by |-> coach, entries |-> sheet] \in Submission
        BY DEF Submission
    <2>3. q \in Task /\ q.session = None
        BY <2>2 DEF Idle, Task
    <2>4. TaskFacts(q)'
        BY <2>2 DEF Idle, TaskFacts
    <2> QED
        BY <1>0, <1>4, <2>1, <2>3, <2>4, OneMoves DEF AskSheet, attendance
<1>5. ASSUME NEW r \in Requests, OpenSession(r)
      PROVE  TasksAreSound' /\ OwnSession'
    <2>1. PICK x \in Sessions :
             Fresh(x) /\ Become(r, [task[r] EXCEPT !.at = "records", !.session = x])
        BY <1>5 DEF OpenSession
    <2>2. task[r] \in Task /\ TaskFacts(task[r]) /\ task[r].at = "session"
        BY <1>5 DEF OpenSession, At, TypeOK, TasksAreSound
    <2>3. PICK q \in Task :
             /\ q = [task[r] EXCEPT !.at = "records", !.session = x]
             /\ q.session = x /\ q.at = "records"
             /\ q.lesson = task[r].lesson /\ q.sheet = task[r].sheet
        <3> DEFINE state == [task[r] EXCEPT !.at = "records", !.session = x]
        <3>1. /\ state \in Task /\ state.session = x /\ state.at = "records"
              /\ state.lesson = task[r].lesson /\ state.sheet = task[r].sheet
            BY <2>2 DEF Task
        <3> QED
            BY <3>1
    <2>4. TaskFacts(q)'
        BY <1>5, <2>1, <2>2, <2>3 DEF TaskFacts, OpenSession, attendance, Fresh, CoachGiven
    <2> QED
        BY <1>0, <1>5, <2>1, <2>3, <2>4, OneMoves DEF OpenSession, attendance, Fresh
<1>6. ASSUME NEW r \in Requests, InsertRecords(r)
      PROVE  TasksAreSound' /\ OwnSession'
    <2>1. task[r] \in Task /\ TaskFacts(task[r]) /\ task[r].at = "records"
        BY <1>6 DEF InsertRecords, At, TypeOK, TasksAreSound
    <2>2. PICK q \in Task :
             /\ q = [task[r] EXCEPT !.at = "commit"]
             /\ q.session = task[r].session /\ q.at = "commit"
             /\ q.lesson = task[r].lesson /\ q.sheet = task[r].sheet
        <3> DEFINE state == [task[r] EXCEPT !.at = "commit"]
        <3>1. /\ state \in Task /\ state.session = task[r].session /\ state.at = "commit"
              /\ state.lesson = task[r].lesson /\ state.sheet = task[r].sheet
            BY <2>1 DEF Task
        <3> QED
            BY <3>1
    <2>3. TaskFacts(q)'
        BY <1>6, <2>1, <2>2 DEF TaskFacts, InsertRecords, attendance, OnePerStudent
    <2>4. \A y \in Requests : y # r => task[y].session # q.session
        BY <2>1, <2>2 DEF OwnSession, TaskFacts
    <2> QED
        BY <1>0, <1>6, <2>2, <2>3, <2>4, OneMoves DEF InsertRecords, attendance
<1>7. ASSUME NEW r \in Requests, Commit(r)
      PROVE  TasksAreSound' /\ OwnSession'
    <2>1. /\ task'[r] = Idle
          /\ \A y \in Requests : y # r => task'[y] = task[y]
        BY <1>7 DEF Commit, Become, TypeOK
    <2>2. task[r].session \in Sessions
        BY <1>7 DEF Commit, At, TasksAreSound, TaskFacts, TypeOK, Task
    <2>3. ASSUME NEW y \in Requests, y # r
          PROVE  TaskFacts(task[y])'
        <3>1. task[r].session # task[y].session
            BY <2>2, <2>3 DEF OwnSession
        <3>2. task[y].session # None => sessions'[task[y].session] = sessions[task[y].session]
            BY <1>7, <3>1 DEF Commit, TypeOK, Task
        <3> QED
            BY <1>0, <2>1, <2>3, <3>2, OthersKept
    <2>4. TaskFacts(task[r])'
        BY <2>1 DEF TaskFacts, Idle
    <2>5. OwnSession'
        BY <2>1 DEF OwnSession, Idle
    <2> QED
        BY <2>3, <2>4, <2>5 DEF TasksAreSound
<1>8. ASSUME UNCHANGED <<task, sessions>>
      PROVE  TasksAreSound' /\ OwnSession'
    <2>1. \A y \in Requests : TaskFacts(task[y])'
        BY <1>0, <1>8, OthersKept
    <2> QED
        BY <1>8, <2>1 DEF TasksAreSound, OwnSession
<1> QED
    BY <1>1, <1>2, <1>3, <1>4, <1>5, <1>6, <1>7, <1>8
       DEF Next, CatalogueStep, OneStatement, SeedStep, AttendanceStep, vars, attendance,
           InsertSchool, CreateLesson, MoveLesson, UpdateSchool, RemoveSchool,
           AssociateSport, DissociateSport, UpdateCustomSchema, AddFacility, RemoveFacility,
           ShowLesson, SeedTheSchool, SeedTheSport, SeedTheOffer, SeedStops, Abort

-----------------------------------------------------------------------------
(***************************************************************************)
(* Sheets                                                                  *)
(***************************************************************************)
\* The records of a sheet are its own, and one per student if its entries are.
LEMMA RecordsOfASheet ==
    ASSUME NEW x, NEW entries, OnePerStudent(entries)
    PROVE  /\ \A rec \in Records(x, entries) : rec.session = x
           /\ \A a, b \in Records(x, entries) : a.student = b.student => a = b
<1>1. \A rec \in Records(x, entries) : rec.session = x
    BY DEF Records
<1>2. ASSUME NEW a \in Records(x, entries), NEW b \in Records(x, entries), a.student = b.student
      PROVE  a = b
    <2>1. PICK e \in entries : a = [session |-> x, student |-> e.student, status |-> e.status]
        BY DEF Records
    <2>2. PICK g \in entries : b = [session |-> x, student |-> g.student, status |-> g.status]
        BY DEF Records
    <2> QED
        BY <1>2, <2>1, <2>2 DEF OnePerStudent
<1> QED
    BY <1>1, <1>2

LEMMA SheetsKept ==
    ASSUME TypeOK, TypeOK', TasksAreSound, SheetsAreWhole, [Next]_vars
    PROVE  SheetsAreWhole'
<1> USE CoursesAssumption
<1>1. ASSUME NEW r \in Requests, Commit(r)
      PROVE  SheetsAreWhole'
    <2>0. /\ task[r].session \in Sessions
          /\ task[r].lesson \in Lessons /\ task[r].sheet.by \in Coaches
          /\ task[r].sheet.entries \in Sheets
        BY <1>1 DEF Commit, At, TasksAreSound, TaskFacts, TypeOK, Task, Submission
    <2>1. PICK x \in Sessions, entries \in Sheets :
             /\ x = task[r].session /\ entries = task[r].sheet.entries
             /\ sessions[x] = None /\ OnePerStudent(entries)
        BY <1>1, <2>0 DEF Commit, At, TasksAreSound, TaskFacts
    <2>2. /\ sessions'[x] = Stored(r) /\ Stored(r).entries = entries
          /\ \A y \in Sessions : y # x => sessions'[y] = sessions[y]
          /\ records' = records \cup Records(x, entries)
        BY <1>1, <2>1 DEF Commit, Stored, TypeOK
    <2>3. sessions'[x] # None
        <3>2. Stored(r) \in SessionRow
            BY <2>0 DEF Stored, SessionRow
        <3> QED
            BY <2>2, <3>2
    <2>4. \A rec \in records : rec.session # x
        BY <2>1 DEF SheetsAreWhole
    <2>5. RecordsOf(x)' = Records(x, entries)
        BY <2>1, <2>2, <2>4, RecordsOfASheet DEF RecordsOf
    <2>6. \A y \in Sessions : y # x => RecordsOf(y)' = RecordsOf(y)
        BY <2>1, <2>2, RecordsOfASheet DEF RecordsOf
    <2>7. ASSUME NEW y \in Sessions, sessions'[y] # None
          PROVE  /\ RecordsOf(y)' = Records(y, sessions[y].entries)'
                 /\ \A a, b \in RecordsOf(y)' : a.student = b.student => a = b
        <3>1. CASE y = x
            <4>1. RecordsOf(y)' = Records(x, entries) /\ sessions'[y].entries = entries
                BY <2>1, <2>2, <2>5, <3>1
            <4>2. Records(y, sessions[y].entries)' = Records(x, entries)
                BY <3>1, <4>1 DEF Records
            <4> QED
                BY <2>1, <4>1, <4>2, RecordsOfASheet
        <3>2. CASE y # x
            BY <2>2, <2>6, <2>7, <3>2 DEF SheetsAreWhole, Records
        <3> QED
            BY <3>1, <3>2
    <2>8. ASSUME NEW rec \in records'
          PROVE  sessions'[rec.session] # None
        <3>1. CASE rec \in records
            <4>1. rec.session \in Sessions /\ sessions[rec.session] # None /\ rec.session # x
                BY <2>4, <3>1 DEF TypeOK, SheetsAreWhole
            <4> QED
                BY <2>2, <4>1
        <3>2. CASE rec \in Records(x, entries)
            BY <2>1, <2>3, <3>2, RecordsOfASheet
        <3> QED
            BY <2>2, <3>1, <3>2
    <2> QED
        BY <2>7, <2>8 DEF SheetsAreWhole
<1>2. CASE UNCHANGED attendance
    BY <1>2 DEF attendance, SheetsAreWhole, RecordsOf, Records
<1> QED
    BY <1>1, <1>2
       DEF Next, AttendanceStep, vars, attendance, AskSheet, OpenSession, InsertRecords, Abort

-----------------------------------------------------------------------------
(***************************************************************************)
(* Theorems                                                                *)
(***************************************************************************)
LEMMA InitInv == Init => IInv
<1> SUFFICES ASSUME Init PROVE IInv
    OBVIOUS
<1>1. TypeOK
    BY InitType
<1>2. TasksAreSound /\ OwnSession /\ SeedHoldsASchool
    BY DEF Init, CatalogueInit, Idle, Rest, TasksAreSound, TaskFacts, OwnSession, SeedHoldsASchool
<1>3. SportsAreThere /\ OneSchoolPerSlug /\ OneFormPerSport /\ LessonsHaveAPlace /\ SheetsAreWhole
    BY DEF Init, CatalogueInit, Rest, SportsAreThere, OneSchoolPerSlug, OneFormPerSport, EffectiveSchema,
           LessonsHaveAPlace, SheetsAreWhole
<1> QED
    BY <1>1, <1>2, <1>3 DEF IInv

LEMMA StepInv == IInv /\ [Next]_vars => IInv'
<1> SUFFICES ASSUME IInv, [Next]_vars PROVE IInv'
    OBVIOUS
<1>1. TypeOK' /\ TasksAreSound' /\ OwnSession' /\ SeedHoldsASchool'
    BY TypeKept, TasksKept, SeedKept DEF IInv
<1>2. OneSchoolPerSlug' /\ SportsAreThere' /\ OneFormPerSport' /\ LessonsHaveAPlace' /\ SheetsAreWhole'
    BY <1>1, SchoolsOnlyMove, SlugsKept, FormsKept, PlacesKept, SheetsKept DEF IInv
<1> QED
    BY <1>1, <1>2 DEF IInv

\* What a request or the seed relies on still holds at its next await.
THEOREM CoursesInvariance == Spec => []IInv
BY InitInv, StepInv, PTL DEF Spec

\* TypeOK: rows, requests and the seed always have their types.
THEOREM CoursesTypeCorrect == Spec => []TypeOK
<1>1. IInv => TypeOK
    BY DEF IInv
<1> QED
    BY <1>1, CoursesInvariance, PTL

\* OneSchoolPerSlug: a slug leads to one school, whoever creates or renames one
\* after the lookup of SchoolsService.create.
THEOREM SlugsAreUnique == Spec => []OneSchoolPerSlug
<1>1. IInv => OneSchoolPerSlug
    BY DEF IInv
<1> QED
    BY <1>1, CoursesInvariance, PTL

\* OneFormPerSport: a school has one association with a sport (SportsService,
\* prisma/seed.ts), and a sport it shows has fields.
THEOREM FormsAreSingle == Spec => []OneFormPerSport
<1>1. IInv => OneFormPerSport
    BY DEF IInv
<1> QED
    BY <1>1, CoursesInvariance, PTL

\* LessonsHaveAPlace: a lesson, hidden or not, never loses its facility.
THEOREM LessonsKeepTheirPlace == Spec => []LessonsHaveAPlace
<1>1. IInv => LessonsHaveAPlace
    BY DEF IInv
<1> QED
    BY <1>1, CoursesInvariance, PTL

\* SheetsAreWhole: submitAttendance stores all the records of a session or none.
THEOREM SheetsAreStoredWhole == Spec => []SheetsAreWhole
<1>1. IInv => SheetsAreWhole
    BY DEF IInv
<1> QED
    BY <1>1, CoursesInvariance, PTL
=============================================================================
