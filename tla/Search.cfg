SPECIFICATION FairSpec
CONSTANTS
    Titles = {t1, t2}
    g1 = g1
    Genres = {g1}
    GenreOf <- OneGenre
    PageSize = 2
    Slack = 1
    MaxOffset = 3
    Attempts = 2
    None = None
    MaxBooks = 2
    MaxEdits = 1
    Web = {p1}
    Jobs = {j1, j2}
    Limit = 1
INVARIANTS TypeOK AnswersRight
PROPERTIES FeedEnds
