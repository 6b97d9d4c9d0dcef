CONSTANTS
    Manager = {m1}
    Mapper = {f1}
    User = {u1, u2}
    Namesake = {u2}
    SvcUser = SvcUser
    Nobody = Nobody
    None = None
    Day = 2
    Week = 3
SPECIFICATION FairSpec
INVARIANTS CookiesOfLogin ShownActs
PROPERTIES LoadEnds
