\* Registration, a seed script, events and confirmations, with deaths, errors and retries.
SPECIFICATION FairSpec
CONSTANTS
    Names = {n1}
    Requests = {c1}
    Web = {p1, p2, p3}
    Seeders = {p3}
    Workers = {w1, w2}
    MaxRetries = 1
    None = None
    MaxUsers = 1
    MaxDeaths = 2
INVARIANTS TypeOK NothingForgotten MailedOnce
PROPERTIES ConfirmationsEnd
