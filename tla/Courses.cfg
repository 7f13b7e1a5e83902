SPECIFICATION Spec
CONSTANTS
    None = None
    ana = ana
    bea = bea
    Schools = {h1, h2}
    Slugs = {here, there}
    SeedSlug = here
    Sports = {football}
    SeedSport = football
    Fields = {f1, f2}
    Offers = {o1, o2}
    Facilities = {c1}
    Lessons = {l1}
    Coaches = {carl}
    Students = {ana, bea}
    Sessions = {x1, x2}
    Sheets <- MCSheets
    Requests = {r1, r2}
SYMMETRY Symmetric
INVARIANTS
    TypeOK
    OneSchoolPerSlug
    OneFormPerSport
    LessonsHaveAPlace
    SheetsAreWhole
