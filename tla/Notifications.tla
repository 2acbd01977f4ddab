--------------------------- MODULE Notifications ---------------------------
(***************************************************************************)
(* What the system tells its users and the other services:                 *)
(*                                                                         *)
(*  - registration (apps/users), with the Kafka event its post_save signal *)
(*    publishes (core/signals.py, core/events.py) and its audit row;       *)
(*  - the two confirmation tasks of apps/notifications/tasks.py, which     *)
(*    differ in the wording only, with Celery's late acknowledgement and   *)
(*    retries and the e-mail strategy that swallows every error.           *)
(*                                                                         *)
(* A step is one call of the database, of a broker or of the mail server.  *)
(* seed_massive.py adds users beside the running service: a few of them    *)
(* row by row, which sends the signal, the others in batches, which does   *)
(* not; none of them gets an audit row.                                    *)
(*                                                                         *)
(* Celery, Kafka's producer thread and the admin site, which deletes       *)
(* users, are modelled from how the code uses them.                        *)
(***************************************************************************)
EXTENDS Integers, Bags, BagsExt

CONSTANTS
    Names,          \* usernames
    Requests,       \* confirmations that a reserve or return command asks for
    Web, Workers,   \* gunicorn and Celery processes
    Seeders,        \* among Web: processes that run seed_massive.py instead
    MaxRetries,     \* max_retries of the tasks
    None,
    MaxUsers,       \* bound: rows of the users table, past ones included
    MaxDeaths       \* bound: processes that die

ASSUME NotificationsAssumption ==
    /\ Seeders \subseteq Web
    /\ MaxRetries \in Nat /\ MaxUsers \in Nat /\ MaxDeaths \in Nat
    /\ None \notin Names /\ None \notin Nat

VARIABLES
    users,      \* table users: id -> username
    nextId,     \* the id sequence of that table
    audit,      \* ids with a row "user.registered" in the audit log
    topic,      \* ids with an event in the topic "user-events"
    connected,  \* the web processes whose _producer is not None
    buffer,     \* what the producer of each web process has not sent yet
    web,        \* what each web process is doing
    asked,      \* the user each confirmation is for
    queue,      \* the messages in RabbitMQ
    task,       \* what each worker is doing
    mailed,     \* how many e-mails each confirmation has caused (history)
    interrupted,\* how many deaths have sent a message of it back (history)
    excused,    \* <<what, whom>>: given up, and somebody was told or died (history)
    deaths

account == <<users, nextId, audit, topic, connected, buffer, web>>
delivery == <<queue, task, mailed, interrupted>>

vars == <<users, nextId, audit, topic, connected, buffer, web,
          asked, queue, task, mailed, interrupted, excused, deaths>>

Message == [request : Requests, retries : 0 .. MaxRetries]

Idle == [pc |-> "idle"]

-----------------------------------------------------------------------------
(***************************************************************************)
(* POST /users/register/: RegisterView.                                    *)
(***************************************************************************)
InWeb(p, pc) == web' = [web EXCEPT ![p] = [pc |-> pc, id |-> web[p].id]]

EndRequest(p) == web' = [web EXCEPT ![p] = Idle]

Excuse(what, whom) == excused' = excused \cup {<<what, whom>>}

UsersWith(name) == {i \in DOMAIN users : users[i] = name}

\* The serializer's unique validator asks whether the name is taken; a rejected
\* request changes nothing and is not a step.
Register(p, name) ==
    /\ p \notin Seeders /\ web[p].pc = "idle"
    /\ UsersWith(name) = {}
    /\ web' = [web EXCEPT ![p] = [pc |-> "create", name |-> name]]
    /\ UNCHANGED <<users, nextId, audit, topic, connected, buffer, asked, delivery, excused, deaths>>

AddUser(name) ==
    /\ UsersWith(name) = {} /\ nextId <= MaxUsers
    /\ users' = [i \in DOMAIN users \cup {nextId} |-> IF i = nextId THEN name ELSE users[i]]
    /\ nextId' = nextId + 1

\* The receiver of post_save, once the row is there.
UserActivityEvent(p, i) == web' = [web EXCEPT ![p] = [pc |-> "connect", id |-> i]]

\* create_user(): an INSERT that commits at once.  When the name was taken in the
\* meantime the unique constraint raises and the request ends.
CreateUser(p) ==
    /\ web[p].pc = "create"
    /\ \/ AddUser(web[p].name) /\ UserActivityEvent(p, nextId)
       \/ /\ UsersWith(web[p].name) # {} \/ nextId > MaxUsers
          /\ EndRequest(p)
          /\ UNCHANGED <<users, nextId>>
    /\ UNCHANGED <<audit, topic, connected, buffer, asked, delivery, excused, deaths>>

\* save() of a user whose name was not there, in the script.
SeedUser(p, name) ==
    /\ p \in Seeders /\ web[p].pc = "idle"
    /\ AddUser(name) /\ UserActivityEvent(p, nextId)
    /\ Excuse("audit", nextId)
    /\ UNCHANGED <<audit, topic, connected, buffer, asked, delivery, deaths>>

\* One row of bulk_create(ignore_conflicts=True); one whose name is taken is left out.
BulkCreate(p, name) ==
    /\ p \in Seeders /\ web[p].pc = "idle"
    /\ AddUser(name)
    /\ excused' = excused \cup {<<"event", nextId>>, <<"audit", nextId>>}
    /\ UNCHANGED <<audit, topic, connected, buffer, web, asked, delivery, deaths>>

\* What follows the signal: the audit row, but not in the script.
AfterSignal(p) == IF p \in Seeders THEN EndRequest(p) ELSE InWeb(p, "record")

\* _get_producer() in the signal handler: made when there is none.  When Kafka cannot
\* be reached the event is dropped, and the next event tries again.
Connect(p) ==
    /\ web[p].pc = "connect"
    /\ \/ /\ connected' = connected \cup {p}
          /\ InWeb(p, "publish")
          /\ UNCHANGED excused
       \/ /\ p \notin connected
          /\ AfterSignal(p)
          /\ Excuse("event", web[p].id)
          /\ UNCHANGED connected
    /\ UNCHANGED <<users, nextId, audit, topic, buffer, asked, delivery, deaths>>

\* producer.send() and flush(timeout=5).  send() may raise with nothing buffered, and
\* flush() may give up with the event still in the buffer; both are swallowed.
Publish(p) ==
    /\ web[p].pc = "publish"
    /\ \/ /\ topic' = topic \cup buffer[p] \cup {web[p].id}
          /\ buffer' = [buffer EXCEPT ![p] = {}]
          /\ UNCHANGED excused
       \/ /\ buffer' = [buffer EXCEPT ![p] = @ \cup {web[p].id}]
          /\ UNCHANGED <<topic, excused>>
       \/ /\ Excuse("event", web[p].id)
          /\ UNCHANGED <<topic, buffer>>
    /\ AfterSignal(p)
    /\ UNCHANGED <<users, nextId, audit, connected, asked, delivery, deaths>>

\* The producer's own thread: a buffered event is delivered late, or expires.
LateEvent(p, i) ==
    /\ i \in buffer[p]
    /\ buffer' = [buffer EXCEPT ![p] = @ \ {i}]
    /\ \/ topic' = topic \cup {i} /\ UNCHANGED excused
       \/ Excuse("event", i) /\ UNCHANGED topic
    /\ UNCHANGED <<users, nextId, audit, connected, web, asked, delivery, deaths>>

\* AuditLog.objects.create(), which may raise: the account stays, without its row.
Record(p) ==
    /\ web[p].pc = "record"
    /\ \/ audit' = audit \cup {web[p].id} /\ UNCHANGED excused
       \/ Excuse("audit", web[p].id) /\ UNCHANGED audit
    /\ EndRequest(p)
    /\ UNCHANGED <<users, nextId, topic, connected, buffer, asked, delivery, deaths>>

\* What a web process that dies will never do.
Undone(p) ==
    CASE web[p].pc \in {"connect", "publish"} -> {<<"event", web[p].id>>, <<"audit", web[p].id>>}
      [] web[p].pc = "record" -> {<<"audit", web[p].id>>}
      [] OTHER -> {}

\* The process dies, and what its producer had buffered is lost.
KillWeb(p) ==
    /\ deaths < MaxDeaths /\ deaths' = deaths + 1
    /\ excused' = excused \cup Undone(p) \cup {<<"event", i>> : i \in buffer[p]}
    /\ EndRequest(p)
    /\ connected' = connected \ {p}
    /\ buffer' = [buffer EXCEPT ![p] = {}]
    /\ UNCHANGED <<users, nextId, audit, topic, asked, delivery>>

\* The admin site deletes a user; the audit log has no foreign key to it.
DeleteUser(i) ==
    /\ i \in DOMAIN users
    /\ users' = [k \in DOMAIN users \ {i} |-> users[k]]
    /\ UNCHANGED <<nextId, audit, topic, connected, buffer, web, asked, delivery, excused, deaths>>

-----------------------------------------------------------------------------
(***************************************************************************)
(* The confirmation tasks.                                                 *)
(***************************************************************************)

\* .delay(user_id, title) at the end of a command of apps/reservations.
Ask(c, i) ==
    /\ asked[c] = None /\ i \in DOMAIN users
    /\ asked' = [asked EXCEPT ![c] = i]
    /\ queue' = BagAdd(queue, [request |-> c, retries |-> 0])
    /\ UNCHANGED <<account, task, mailed, interrupted, excused, deaths>>

\* The broker hands out a message and keeps it until it is acknowledged.
Fetch(w, m) ==
    /\ task[w].pc = "idle" /\ m \in DOMAIN queue
    /\ queue' = BagRemove(queue, m)
    /\ task' = [task EXCEPT ![w] = [pc |-> "lookup", message |-> m]]
    /\ UNCHANGED <<account, asked, mailed, interrupted, excused, deaths>>

InTask(w, pc) == task' = [task EXCEPT ![w].pc = pc]

Request(w) == task[w].message.request

\* User.objects.get(): there, gone (logged, and the task is done), or an error.
LookUp(w) ==
    /\ task[w].pc = "lookup"
    /\ \/ /\ asked[Request(w)] \in DOMAIN users
          /\ InTask(w, "send")
          /\ UNCHANGED excused
       \/ /\ asked[Request(w)] \notin DOMAIN users
          /\ InTask(w, "acknowledge")
          /\ Excuse("confirmation", Request(w))
       \/ InTask(w, "retry") /\ UNCHANGED excused
    /\ UNCHANGED <<account, asked, queue, mailed, interrupted, deaths>>

\* MUTANT: the strategy raises, and the task is retried though the e-mail went out.
SendOrRaise(w) ==
    /\ task[w].pc = "send"
    /\ \E n \in {0, 1} : mailed' = [mailed EXCEPT ![Request(w)] = @ + n]
    /\ InTask(w, "acknowledge") \/ InTask(w, "retry")
    /\ UNCHANGED <<account, asked, queue, interrupted, excused, deaths>>

\* strategy.send(): an error, whether the e-mail went out or not, makes it return
\* False, which nobody looks at; the task ends as if it had succeeded.
Send(w) ==
    /\ task[w].pc = "send"
    /\ \/ /\ mailed' = [mailed EXCEPT ![Request(w)] = @ + 1]
          /\ UNCHANGED excused
       \/ /\ Excuse("confirmation", Request(w))
          /\ UNCHANGED mailed
    /\ InTask(w, "acknowledge")
    /\ UNCHANGED <<account, asked, queue, interrupted, deaths>>

\* MUTANT: max_retries=None.
RetryForever(w) ==
    /\ task[w].pc = "retry"
    /\ queue' = BagAdd(queue, task[w].message)
    /\ InTask(w, "acknowledge")
    /\ UNCHANGED <<account, asked, mailed, interrupted, excused, deaths>>

\* MUTANT: one retry too many.
RetryOnceMore(w) ==
    /\ task[w].pc = "retry"
    /\ queue' = BagAdd(queue, [task[w].message EXCEPT !.retries = @ + 1])
    /\ InTask(w, "acknowledge")
    /\ UNCHANGED <<account, asked, mailed, interrupted, excused, deaths>>

\* self.retry(): a new message with one more retry to its name.  When there have been
\* max_retries the error is raised, and when the broker refuses the new message the
\* old one is rejected; either way that was the last attempt.
Retry(w) ==
    /\ task[w].pc = "retry"
    /\ \/ /\ task[w].message.retries < MaxRetries
          /\ queue' = BagAdd(queue, [request |-> Request(w),
                                     retries |-> task[w].message.retries + 1])
          /\ UNCHANGED excused
       \/ /\ Excuse("confirmation", Request(w))
          /\ UNCHANGED queue
    /\ InTask(w, "acknowledge")
    /\ UNCHANGED <<account, asked, mailed, interrupted, deaths>>

Acknowledge(w) ==
    /\ task[w].pc = "acknowledge"
    /\ task' = [task EXCEPT ![w] = Idle]
    /\ UNCHANGED <<account, asked, queue, mailed, interrupted, excused, deaths>>

\* MUTANT: messages are acknowledged when they are fetched.
KillEarlyAck(w) ==
    /\ task[w].pc # "idle"
    /\ deaths < MaxDeaths /\ deaths' = deaths + 1
    /\ task' = [task EXCEPT ![w] = Idle]
    /\ interrupted' = [interrupted EXCEPT ![Request(w)] = @ + 1]
    /\ UNCHANGED <<account, asked, queue, mailed, excused>>

\* The worker dies; its message was not acknowledged and comes again, however far
\* the task had got.
KillWorker(w) ==
    /\ task[w].pc # "idle"
    /\ deaths < MaxDeaths /\ deaths' = deaths + 1
    /\ queue' = BagAdd(queue, task[w].message)
    /\ task' = [task EXCEPT ![w] = Idle]
    /\ interrupted' = [interrupted EXCEPT ![Request(w)] = @ + 1]
    /\ UNCHANGED <<account, asked, mailed, excused>>

-----------------------------------------------------------------------------
Init == /\ users = [i \in {} |-> None] /\ nextId = 1
        /\ audit = {} /\ topic = {}
        /\ connected = {} /\ buffer = [p \in Web |-> {}]
        /\ web = [p \in Web |-> Idle]
        /\ asked = [c \in Requests |-> None]
        /\ queue = EmptyBag
        /\ task = [w \in Workers |-> Idle]
        /\ mailed = [c \in Requests |-> 0]
        /\ interrupted = [c \in Requests |-> 0]
        /\ excused = {}
        /\ deaths = 0

WebStep(p) == CreateUser(p) \/ Connect(p) \/ Publish(p) \/ Record(p)

TaskStep(w) == LookUp(w) \/ Send(w) \/ Retry(w) \/ Acknowledge(w)

Accounts == \/ \E p \in Web : \/ \E name \in Names : Register(p, name)
                              \/ \E name \in Names : SeedUser(p, name) \/ BulkCreate(p, name)
                              \/ WebStep(p)
                              \/ \E i \in 1 .. MaxUsers : LateEvent(p, i)
                              \/ KillWeb(p)
            \/ \E i \in 1 .. MaxUsers : DeleteUser(i)

Confirmations == \/ \E c \in Requests, i \in 1 .. MaxUsers : Ask(c, i)
                 \/ \E w \in Workers : \/ \E m \in Message : Fetch(w, m)
                                       \/ TaskStep(w)
                                       \/ KillWorker(w)

Next == Accounts \/ Confirmations

Spec == Init /\ [][Next]_vars

\* A worker goes on with its task, and the broker hands out every message in the
\* end, though it may come back while the workers are busy with others.
FairSpec == /\ Spec
            /\ \A w \in Workers : WF_vars(TaskStep(w))
            /\ \A m \in Message : SF_vars(\E w \in Workers : Fetch(w, m))

-----------------------------------------------------------------------------
(***************************************************************************)
(* Properties.                                                             *)
(***************************************************************************)
Ids == 1 .. nextId - 1

WebStates == {Idle} \cup [pc : {"create"}, name : Names]
                    \cup [pc : {"connect", "publish", "record"}, id : Ids]

TaskStates == {Idle} \cup [pc : {"lookup", "send", "retry", "acknowledge"}, message : Message]

AccountsOK ==
    /\ nextId \in 1 .. MaxUsers + 1
    /\ DOMAIN users \subseteq Ids /\ users \in [DOMAIN users -> Names]
    /\ \A i, k \in DOMAIN users : users[i] = users[k] => i = k
    /\ audit \subseteq Ids /\ topic \subseteq Ids
    /\ connected \subseteq Web /\ buffer \in [Web -> SUBSET Ids]
    /\ web \in [Web -> WebStates]

ConfirmationsOK ==
    /\ asked \in [Requests -> {None} \cup Ids]
    /\ DOMAIN queue \subseteq Message
    /\ task \in [Workers -> TaskStates]
    /\ mailed \in [Requests -> Nat] /\ interrupted \in [Requests -> Nat]

\* Ids are given out in order, the username is unique (auth's User model), and a
\* message has been retried max_retries times at most (tasks.py:12).
TypeOK == AccountsOK /\ ConfirmationsOK /\ deaths \in 0 .. MaxDeaths

\* Somebody will still work on this confirmation.
Pending(c) ==
    \/ \E m \in DOMAIN queue : m.request = c
    \/ \E w \in Workers : task[w].pc \in {"lookup", "send", "retry"} /\ Request(w) = c

\* A web process has this still ahead for the user it created.
Ahead(i, pcs) == \E p \in Web : web[p].pc \in pcs /\ web[p].id = i

Answered(c) == mailed[c] > 0 \/ Pending(c) \/ <<"confirmation", c>> \in excused

Audited(i) == \/ i \in audit \/ <<"audit", i>> \in excused
              \/ Ahead(i, {"connect", "publish", "record"})

Announced(i) == \/ i \in topic \/ <<"event", i>> \in excused
                \/ Ahead(i, {"connect", "publish"})
                \/ \E p \in Web : i \in buffer[p]

\* Nothing that is owed gets lost without somebody having been told or a process
\* having died: a confirmation was sent, is pending or was given up, whatever
\* redelivery and retries do (tasks.py:15-29); a user who registered has an audit row
\* and an event, or they are under way, buffered or given up (views.py:16-30,
\* events.py:37-61).
NothingForgotten ==
    /\ \A c \in Requests : asked[c] # None => Answered(c)
    /\ \A i \in Ids : Audited(i) /\ Announced(i)

\* A confirmation is sent once, and once more for every worker that died with its
\* message at most: no retry follows an e-mail that went out (tasks.py:27-29,
\* strategies.py:21-32).
MailedOnce == \A c \in Requests : mailed[c] <= 1 + interrupted[c]

\* Under FairSpec every confirmation is sent or given up in the end: a database that
\* never answers cannot make a task run for ever (tasks.py:12, 29).
ConfirmationsEnd ==
    \A c \in Requests :
        asked[c] # None ~> mailed[c] > 0 \/ <<"confirmation", c>> \in excused

=============================================================================
