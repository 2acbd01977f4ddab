------------------------ MODULE NotificationsProofs ------------------------
(***************************************************************************)
(* Notifications has the types it should have, forgets nothing and sends   *)
(* no confirmation again but for a worker that died, for any number of     *)
(* users, confirmations, processes, retries and deaths.                    *)
(***************************************************************************)
EXTENDS Notifications, TLAPS

USE NotificationsAssumption

\* A message that is not the last of its kind stays in the bag.
LEMMA BagAddDomain ==
    ASSUME NEW B, NEW x
    PROVE  DOMAIN BagAdd(B, x) = DOMAIN B \cup {x}
  BY DEF BagAdd

LEMMA BagRemoveDomain ==
    ASSUME NEW B, NEW x
    PROVE  DOMAIN BagRemove(B, x) \in {DOMAIN B, DOMAIN B \ {x}}
  BY DEF BagRemove

\* A web step leaves the types of the accounts as they are.
LEMMA AccountsTyped ==
    ASSUME TypeOK, Accounts
    PROVE  AccountsOK' /\ ConfirmationsOK' /\ deaths' \in 0 .. MaxDeaths
<1> USE DEF TypeOK, AccountsOK, Ids, WebStates, Idle
<1> SUFFICES AccountsOK' /\ nextId' \in {nextId, nextId + 1} /\ UNCHANGED <<asked, delivery>>
             /\ deaths' \in 0 .. MaxDeaths
  BY DEF ConfirmationsOK, delivery, TaskStates
<1>1. CASE \E p \in Web, name \in Names : Register(p, name)
  BY <1>1 DEF Register, delivery
<1>2. CASE \E p \in Web : CreateUser(p)
  <2>1. PICK p \in Web : CreateUser(p)
    BY <1>2
  <2>2. CASE AddUser(web[p].name) /\ UserActivityEvent(p, nextId)
    BY <2>1, <2>2 DEF CreateUser, AddUser, UsersWith, UserActivityEvent, delivery
  <2>3. CASE EndRequest(p) /\ UNCHANGED <<users, nextId>>
    BY <2>1, <2>3 DEF CreateUser, EndRequest, delivery
  <2> QED
    BY <2>1, <2>2, <2>3 DEF CreateUser
<1>3. CASE \E p \in Web : Connect(p)
  BY <1>3 DEF Connect, AfterSignal, EndRequest, InWeb, Excuse, delivery
<1>4. CASE \E p \in Web : Publish(p)
  BY <1>4 DEF Publish, AfterSignal, EndRequest, InWeb, Excuse, delivery
<1>5. CASE \E p \in Web : Record(p)
  BY <1>5 DEF Record, EndRequest, Excuse, delivery
<1>6. CASE \E p \in Web, i \in 1 .. MaxUsers : LateEvent(p, i)
  BY <1>6 DEF LateEvent, Excuse, delivery
<1>7. CASE \E p \in Web : KillWeb(p)
  BY <1>7 DEF KillWeb, EndRequest, delivery
<1>8. CASE \E i \in 1 .. MaxUsers : DeleteUser(i)
  BY <1>8 DEF DeleteUser, delivery
<1>9. CASE \E p \in Web, name \in Names : SeedUser(p, name)
  BY <1>9 DEF SeedUser, AddUser, UsersWith, UserActivityEvent, Excuse, delivery
<1>10. CASE \E p \in Web, name \in Names : BulkCreate(p, name)
  BY <1>10 DEF BulkCreate, AddUser, UsersWith, delivery
<1> QED
  BY <1>1, <1>2, <1>3, <1>4, <1>5, <1>6, <1>7, <1>8, <1>9, <1>10 DEF Accounts, WebStep

\* A step of a task or of the broker leaves the types as they are.
LEMMA ConfirmationsTyped ==
    ASSUME TypeOK, Confirmations
    PROVE  AccountsOK' /\ ConfirmationsOK' /\ deaths' \in 0 .. MaxDeaths
<1> USE DEF TypeOK, ConfirmationsOK, TaskStates, Idle, Message
<1> SUFFICES ConfirmationsOK' /\ UNCHANGED account /\ deaths' \in 0 .. MaxDeaths
  BY DEF AccountsOK, account, WebStates, Ids
<1>1. CASE \E c \in Requests, i \in 1 .. MaxUsers : Ask(c, i)
  <2>1. PICK c \in Requests, i \in 1 .. MaxUsers : Ask(c, i)
    BY <1>1
  <2>2. /\ asked' \in [Requests -> {None} \cup Ids]
        /\ UNCHANGED <<account, task, mailed, interrupted, deaths>>
    BY <2>1 DEF Ask, account, AccountsOK, Ids
  <2>3. queue' = BagAdd(queue, [request |-> c, retries |-> 0])
    BY <2>1 DEF Ask
  <2>4. DOMAIN queue' = DOMAIN queue \cup {[request |-> c, retries |-> 0]}
    BY <2>3, BagAddDomain
  <2>5. [request |-> c, retries |-> 0] \in Message
    OBVIOUS
  <2> QED
    BY <2>2, <2>4, <2>5 DEF account, Ids
<1>2. CASE \E w \in Workers, m \in Message : Fetch(w, m)
  <2>1. PICK w \in Workers, m \in Message : Fetch(w, m)
    BY <1>2
  <2>2. /\ task' \in [Workers -> TaskStates]
        /\ UNCHANGED <<account, asked, mailed, interrupted, deaths>>
    BY <2>1 DEF Fetch, account
  <2>3. DOMAIN queue' \in {DOMAIN queue, DOMAIN queue \ {m}}
    BY <2>1, BagRemoveDomain DEF Fetch
  <2> QED
    BY <2>2, <2>3 DEF account, Ids
<1>3. CASE \E w \in Workers : LookUp(w)
  BY <1>3 DEF LookUp, InTask, Excuse, account, Ids
<1>4. CASE \E w \in Workers : Send(w)
  BY <1>4 DEF Send, InTask, Request, Excuse, account, Ids
<1>5. CASE \E w \in Workers : Retry(w)
  <2>1. PICK w \in Workers : Retry(w)
    BY <1>5
  <2> DEFINE again == [request |-> Request(w), retries |-> task[w].message.retries + 1]
  <2>2. /\ task' \in [Workers -> TaskStates]
        /\ UNCHANGED <<account, asked, mailed, interrupted, deaths>>
    BY <2>1 DEF Retry, InTask, account
  <2>3. CASE queue' = queue
    BY <2>2, <2>3 DEF account, Ids
  <2>4. CASE task[w].message.retries < MaxRetries /\ queue' = BagAdd(queue, again)
    <3>1. DOMAIN queue' = DOMAIN queue \cup {again}
      BY <2>4, BagAddDomain
    <3>2. again \in Message
      BY <2>1, <2>4 DEF Retry, Request
    <3> QED
      BY <2>2, <3>1, <3>2 DEF account, Ids
  <2> QED
    BY <2>1, <2>3, <2>4 DEF Retry
<1>6. CASE \E w \in Workers : Acknowledge(w)
  BY <1>6 DEF Acknowledge, account, Ids
<1>7. CASE \E w \in Workers : KillWorker(w)
  <2>1. PICK w \in Workers : KillWorker(w)
    BY <1>7
  <2>2. /\ task' \in [Workers -> TaskStates] /\ interrupted' \in [Requests -> Nat]
        /\ deaths' \in 0 .. MaxDeaths
        /\ UNCHANGED <<account, asked, mailed>>
    BY <2>1 DEF KillWorker, Request, account
  <2>3. queue' = BagAdd(queue, task[w].message)
    BY <2>1 DEF KillWorker
  <2>4. DOMAIN queue' = DOMAIN queue \cup {task[w].message}
    BY <2>3, BagAddDomain
  <2>5. task[w].message \in Message
    BY <2>1 DEF KillWorker
  <2> QED
    BY <2>2, <2>4, <2>5 DEF account, Ids
<1> QED
  BY <1>1, <1>2, <1>3, <1>4, <1>5, <1>6, <1>7 DEF Confirmations, TaskStep

\* In every state the tables, the messages and the processes are what
\* Notifications says they are: ids in order, unique names, bounded retries.
THEOREM TypeCorrect == Spec => []TypeOK
<1>1. Init => TypeOK
  BY DEF Init, TypeOK, AccountsOK, ConfirmationsOK, Ids, WebStates, TaskStates, Idle,
         EmptyBag, SetToBag
<1>2. TypeOK /\ [Next]_vars => TypeOK'
  <2> SUFFICES ASSUME TypeOK, [Next]_vars PROVE TypeOK'
    OBVIOUS
  <2>1. CASE Next
    BY <2>1, AccountsTyped, ConfirmationsTyped DEF Next, TypeOK
  <2>2. CASE UNCHANGED vars
    BY <2>2 DEF vars, TypeOK, AccountsOK, ConfirmationsOK, Ids, WebStates, TaskStates, Message
  <2> QED
    BY <2>1, <2>2
<1> QED
  BY <1>1, <1>2, PTL DEF Spec

-----------------------------------------------------------------------------
\* The script owes no audit row for the user whose event it is publishing.
SeedersInv ==
    \A p \in Seeders :
        /\ web[p].pc # "create"
        /\ web[p].pc \in {"connect", "publish"} => <<"audit", web[p].id>> \in excused

LEMMA SeedersExcused ==
    ASSUME TypeOK, SeedersInv, [Next]_vars
    PROVE  SeedersInv'
<1> USE DEF SeedersInv, TypeOK, AccountsOK, Idle
<1>1. ASSUME UNCHANGED web, excused \subseteq excused' PROVE SeedersInv'
  BY <1>1
<1>2. CASE \E p \in Web, name \in Names : Register(p, name)
  BY <1>2 DEF Register
<1>3. CASE \E p \in Web : CreateUser(p)
  BY <1>3 DEF CreateUser, UserActivityEvent, EndRequest
<1>4. CASE \E p \in Web, name \in Names : SeedUser(p, name)
  BY <1>4 DEF SeedUser, UserActivityEvent, Excuse
<1>5. CASE \E p \in Web : Connect(p) \/ Publish(p)
  BY <1>5 DEF Connect, Publish, AfterSignal, EndRequest, InWeb, Excuse
<1>6. CASE \E p \in Web : Record(p) \/ KillWeb(p)
  BY <1>6 DEF Record, KillWeb, EndRequest, Excuse
<1>7. CASE \/ \E p \in Web, name \in Names : BulkCreate(p, name)
           \/ \E p \in Web, i \in 1 .. MaxUsers : LateEvent(p, i)
           \/ \E i \in 1 .. MaxUsers : DeleteUser(i)
  BY <1>1, <1>7 DEF BulkCreate, LateEvent, DeleteUser, Excuse
<1>8. CASE Confirmations
  BY <1>1, <1>8 DEF Confirmations, Ask, Fetch, TaskStep, LookUp, Send, Retry, Acknowledge,
                    KillWorker, account, Excuse
<1>9. CASE UNCHANGED vars
  BY <1>1, <1>9 DEF vars
<1> QED
  BY <1>2, <1>3, <1>4, <1>5, <1>6, <1>7, <1>8, <1>9 DEF Next, Accounts, WebStep

\* A web step leaves every account with its audit row and its event, or with one of
\* the reasons for which it may have none.
LEMMA AccountsRemembered ==
    ASSUME TypeOK, SeedersInv, NothingForgotten, Accounts
    PROVE  NothingForgotten'
<1> USE DEF NothingForgotten, Audited, Announced, Ahead, Ids
<1>1. ASSUME UNCHANGED <<asked, delivery>>, excused \subseteq excused'
      PROVE  (\A c \in Requests : asked[c] # None => Answered(c))'
  BY <1>1 DEF delivery, Answered, Pending, Request
<1> SUFFICES UNCHANGED <<asked, delivery>> /\ excused \subseteq excused'
             /\ \A i \in Ids' : Audited(i)' /\ Announced(i)'
  BY <1>1
<1>2. CASE \E p \in Web, name \in Names : Register(p, name)
  BY <1>2 DEF Register, TypeOK, AccountsOK
<1>3. CASE \E p \in Web : CreateUser(p)
  <2>1. PICK p \in Web : CreateUser(p)
    BY <1>3
  <2>2. CASE AddUser(web[p].name) /\ UserActivityEvent(p, nextId)
    BY <2>1, <2>2 DEF CreateUser, AddUser, UserActivityEvent, TypeOK, AccountsOK
  <2>3. CASE EndRequest(p) /\ UNCHANGED <<users, nextId>>
    BY <2>1, <2>3 DEF CreateUser, EndRequest, TypeOK, AccountsOK
  <2> QED
    BY <2>1, <2>2, <2>3 DEF CreateUser
<1>4. CASE \E p \in Web : Connect(p)
  BY <1>4 DEF Connect, SeedersInv, AfterSignal, EndRequest, InWeb, Excuse, TypeOK, AccountsOK
<1>5. CASE \E p \in Web : Publish(p)
  BY <1>5 DEF Publish, SeedersInv, AfterSignal, EndRequest, InWeb, Excuse, TypeOK, AccountsOK
<1>6. CASE \E p \in Web : Record(p)
  BY <1>6 DEF Record, EndRequest, Excuse, TypeOK, AccountsOK
<1>7. CASE \E p \in Web, i \in 1 .. MaxUsers : LateEvent(p, i)
  BY <1>7 DEF LateEvent, Excuse, TypeOK, AccountsOK
<1>8. CASE \E p \in Web : KillWeb(p)
  BY <1>8 DEF KillWeb, Undone, EndRequest, TypeOK, AccountsOK
<1>9. CASE \E i \in 1 .. MaxUsers : DeleteUser(i)
  BY <1>9 DEF DeleteUser
<1>10. CASE \E p \in Web, name \in Names : SeedUser(p, name)
  BY <1>10 DEF SeedUser, AddUser, UserActivityEvent, Excuse, TypeOK, AccountsOK
<1>11. CASE \E p \in Web, name \in Names : BulkCreate(p, name)
  BY <1>11 DEF BulkCreate, AddUser, TypeOK, AccountsOK
<1> QED
  BY <1>2, <1>3, <1>4, <1>5, <1>6, <1>7, <1>8, <1>9, <1>10, <1>11 DEF Accounts, WebStep

\* A step of a task or of the broker leaves every confirmation sent, pending or given up.
LEMMA ConfirmationsRemembered ==
    ASSUME TypeOK, NothingForgotten, Confirmations
    PROVE  NothingForgotten'
<1> USE DEF NothingForgotten, Answered, Pending, Request
<1>1. ASSUME UNCHANGED account, excused \subseteq excused'
      PROVE  (\A i \in Ids : Audited(i) /\ Announced(i))'
  BY <1>1 DEF account, Audited, Announced, Ahead, Ids
<1> SUFFICES UNCHANGED account /\ excused \subseteq excused'
             /\ \A c \in Requests : asked'[c] # None => Answered(c)'
  BY <1>1
<1>2. CASE \E c \in Requests, i \in 1 .. MaxUsers : Ask(c, i)
  <2>1. PICK c \in Requests, i \in 1 .. MaxUsers : Ask(c, i)
    BY <1>2
  <2>2. UNCHANGED <<account, task, mailed, excused>>
    BY <2>1 DEF Ask
  <2>3. DOMAIN queue' = DOMAIN queue \cup {[request |-> c, retries |-> 0]}
    BY <2>1, BagAddDomain DEF Ask
  <2>4. Pending(c)'
    <3>1. [request |-> c, retries |-> 0].request = c
      OBVIOUS
    <3> QED
      BY <2>3, <3>1
  <2>5. \A d \in Requests \ {c} : asked'[d] = asked[d]
    BY <2>1 DEF Ask, TypeOK, ConfirmationsOK
  <2> QED
    BY <2>2, <2>3, <2>4, <2>5
<1>3. CASE \E w \in Workers, m \in Message : Fetch(w, m)
  <2>1. PICK w \in Workers, m \in Message : Fetch(w, m)
    BY <1>3
  <2>2. UNCHANGED <<account, asked, mailed, excused>>
    BY <2>1 DEF Fetch
  <2>3. DOMAIN queue' \in {DOMAIN queue, DOMAIN queue \ {m}}
    BY <2>1, BagRemoveDomain DEF Fetch
  <2>4. /\ task'[w].pc = "lookup" /\ task'[w].message = m
        /\ \A v \in Workers \ {w} : task'[v] = task[v]
        /\ task[w].pc = "idle"
    BY <2>1 DEF Fetch, TypeOK, ConfirmationsOK
  <2>5. ASSUME NEW c \in Requests, Pending(c) PROVE Pending(c)'
    <3>1. CASE \E n \in DOMAIN queue : n.request = c
      BY <2>3, <2>4, <3>1
    <3>2. CASE \E v \in Workers : task[v].pc \in {"lookup", "send", "retry"} /\ Request(v) = c
      BY <2>4, <3>2
    <3> QED
      BY <2>5, <3>1, <3>2
  <2> QED
    BY <2>2, <2>5
<1>4. CASE \E w \in Workers : LookUp(w)
  <2>1. PICK w \in Workers : LookUp(w)
    BY <1>4
  <2>2. UNCHANGED <<account, asked, queue, mailed>> /\ excused \subseteq excused'
    BY <2>1 DEF LookUp, Excuse
  <2>3. \A v \in Workers \ {w} : task'[v] = task[v]
    BY <2>1 DEF LookUp, InTask, TypeOK, ConfirmationsOK
  <2>4. /\ task'[w].message = task[w].message
        /\ \/ task'[w].pc \in {"send", "retry"}
           \/ <<"confirmation", Request(w)>> \in excused'
    BY <2>1 DEF LookUp, InTask, Excuse, TypeOK, ConfirmationsOK, TaskStates, Idle
  <2> QED
    BY <2>2, <2>3, <2>4
<1>5. CASE \E w \in Workers : Send(w)
  BY <1>5 DEF Send, InTask, Excuse, TypeOK, ConfirmationsOK
<1>6. CASE \E w \in Workers : Retry(w)
  <2>1. PICK w \in Workers : Retry(w)
    BY <1>6
  <2> DEFINE again == [request |-> Request(w), retries |-> task[w].message.retries + 1]
  <2>2. UNCHANGED <<account, asked, mailed>> /\ excused \subseteq excused'
    BY <2>1 DEF Retry, Excuse
  <2>3. \A v \in Workers \ {w} : task'[v] = task[v]
    BY <2>1 DEF Retry, InTask, TypeOK, ConfirmationsOK
  <2>4. \/ queue' = BagAdd(queue, again)
        \/ UNCHANGED queue /\ excused' = excused \cup {<<"confirmation", Request(w)>>}
    BY <2>1 DEF Retry, Excuse
  <2>5. again.request = Request(w)
    OBVIOUS
  <2> HIDE DEF again
  <2>6. \/ DOMAIN queue' = DOMAIN queue \cup {again}
        \/ UNCHANGED queue /\ <<"confirmation", Request(w)>> \in excused'
    BY <2>4, BagAddDomain
  <2> QED
    BY <2>2, <2>3, <2>5, <2>6
<1>7. CASE \E w \in Workers : Acknowledge(w)
  BY <1>7 DEF Acknowledge, TypeOK, ConfirmationsOK
<1>8. CASE \E w \in Workers : KillWorker(w)
  <2>1. PICK w \in Workers : KillWorker(w)
    BY <1>8
  <2>2. UNCHANGED <<account, asked, mailed, excused>>
    BY <2>1 DEF KillWorker
  <2>3. \A v \in Workers \ {w} : task'[v] = task[v]
    BY <2>1 DEF KillWorker, TypeOK, ConfirmationsOK
  <2>4. DOMAIN queue' = DOMAIN queue \cup {task[w].message}
    BY <2>1, BagAddDomain DEF KillWorker
  <2>5. ASSUME NEW c \in Requests, Pending(c) PROVE Pending(c)'
    BY <2>3, <2>4, <2>5
  <2> QED
    BY <2>2, <2>5
<1> QED
  BY <1>2, <1>3, <1>4, <1>5, <1>6, <1>7, <1>8 DEF Confirmations, TaskStep

\* Nothing is forgotten: whatever dies, is redelivered or retried, a confirmation was
\* sent, is pending or was given up, and an account has its audit row and its event
\* or one of the excuses for it.  What makes it inductive is that a script has excused
\* the audit row of a user before it publishes the event.
THEOREM NothingIsForgotten == Spec => []NothingForgotten
<1>1. Init => SeedersInv /\ NothingForgotten
  BY DEF Init, SeedersInv, NothingForgotten, Ids, Idle
<1>2. TypeOK /\ SeedersInv /\ NothingForgotten /\ [Next]_vars => (SeedersInv /\ NothingForgotten)'
  <2> SUFFICES ASSUME TypeOK, SeedersInv, NothingForgotten, [Next]_vars PROVE NothingForgotten'
    BY SeedersExcused
  <2>1. CASE Next
    BY <2>1, AccountsRemembered, ConfirmationsRemembered DEF Next
  <2>2. CASE UNCHANGED vars
    BY <2>2 DEF vars, account, delivery, NothingForgotten, Answered, Pending, Request,
                Audited, Announced, Ahead, Ids
  <2> QED
    BY <2>1, <2>2
<1> QED
  BY <1>1, <1>2, TypeCorrect, PTL DEF Spec

-----------------------------------------------------------------------------
(***************************************************************************)
(* MailedOnce.  It is not inductive: a confirmation may be in the queue    *)
(* and with several workers at once.  What no step increases is the sum of *)
(* the e-mails that went out and of those that may still go out.           *)
(***************************************************************************)

\* Bags comes with a FiniteSets of its own, so the theorems about it get a name.
FS == INSTANCE FiniteSetTheorems

\* The copies in the queue of the messages about a confirmation, one pair for each.
Copies(c) == {x \in Message \X Nat : /\ x[1].request = c /\ x[1] \in DOMAIN queue
                                     /\ x[2] \in 1 .. queue[x[1]]}

Working == {w \in Workers : task[w].pc \in {"lookup", "send", "retry"}}

AtWork(c) == {<<w, 0>> : w \in {v \in Working : Request(v) = c}}

\* The e-mails of a confirmation that may still go out.
Owed(c) == Copies(c) \cup AtWork(c)

QueueOK == \A m \in DOMAIN queue : queue[m] \in Nat \ {0}

Within(c) ==
    /\ FS!IsFiniteSet(Owed(c))
    /\ mailed[c] + FS!Cardinality(Owed(c)) <= interrupted[c] + (IF asked[c] = None THEN 0 ELSE 1)

SentOnce == QueueOK /\ \A c \in Requests : Within(c)

\* At most one element more makes a set larger by one at most.
LEMMA OneMore ==
    ASSUME NEW S, NEW T, NEW x, FS!IsFiniteSet(S), T \subseteq S \cup {x}
    PROVE  /\ FS!IsFiniteSet(T)
           /\ FS!Cardinality(T) \in Nat /\ FS!Cardinality(T) <= FS!Cardinality(S) + 1
<1> DEFINE U == S \cup {x}
<1>1. /\ FS!IsFiniteSet(U)
      /\ FS!Cardinality(U) = IF x \in S THEN FS!Cardinality(S) ELSE FS!Cardinality(S) + 1
  BY FS!FS_AddElement, Zenon
<1>2. T \in SUBSET U
  OBVIOUS
<1> HIDE DEF U
<1>3. FS!IsFiniteSet(T) /\ FS!Cardinality(T) <= FS!Cardinality(U)
  BY <1>1, <1>2, FS!FS_Subset, Zenon
<1>4. FS!Cardinality(S) \in Nat /\ FS!Cardinality(T) \in Nat /\ FS!Cardinality(U) \in Nat
  BY <1>1, <1>3, FS!FS_CardinalityType, Zenon
<1> QED
  BY <1>1, <1>3, <1>4

\* One element less makes it smaller by one.
LEMMA OneLess ==
    ASSUME NEW S, NEW T, NEW x \in S, FS!IsFiniteSet(S), T \subseteq S \ {x}
    PROVE  /\ FS!IsFiniteSet(T) /\ FS!Cardinality(T) \in Nat /\ FS!Cardinality(S) \in Nat
           /\ FS!Cardinality(T) <= FS!Cardinality(S) - 1
<1> DEFINE U == S \ {x}
<1>1. FS!IsFiniteSet(U) /\ FS!Cardinality(U) = FS!Cardinality(S) - 1
  BY FS!FS_RemoveElement, Zenon
<1>2. T \in SUBSET U
  OBVIOUS
<1> HIDE DEF U
<1>3. FS!IsFiniteSet(T) /\ FS!Cardinality(T) <= FS!Cardinality(U)
  BY <1>1, <1>2, FS!FS_Subset, Zenon
<1>4. FS!Cardinality(S) \in Nat /\ FS!Cardinality(T) \in Nat /\ FS!Cardinality(U) \in Nat
  BY <1>1, <1>3, FS!FS_CardinalityType, Zenon
<1> QED
  BY <1>1, <1>3, <1>4

\* An element that takes the place of another leaves the size as it is.
LEMMA OneMoved ==
    ASSUME NEW S, NEW T, NEW x \in S, NEW y, FS!IsFiniteSet(S), T \subseteq (S \ {x}) \cup {y}
    PROVE  FS!IsFiniteSet(T) /\ FS!Cardinality(T) \in Nat /\ FS!Cardinality(T) <= FS!Cardinality(S)
<1> DEFINE U == S \ {x}
<1>1. FS!IsFiniteSet(U) /\ FS!Cardinality(U) \in Nat /\ FS!Cardinality(S) \in Nat
      /\ FS!Cardinality(U) <= FS!Cardinality(S) - 1
  BY OneLess
<1>2. T \subseteq U \cup {y}
  OBVIOUS
<1> HIDE DEF U
<1>3. FS!IsFiniteSet(T) /\ FS!Cardinality(T) \in Nat /\ FS!Cardinality(T) <= FS!Cardinality(U) + 1
  BY <1>1, <1>2, OneMore, Zenon
<1> QED
  BY <1>1, <1>3

\* A message that is put into the queue is one copy more, of its own confirmation.
LEMMA CopyAdded ==
    ASSUME QueueOK, NEW m \in Message, queue' = BagAdd(queue, m)
    PROVE  /\ QueueOK'
           /\ Copies(m.request)' \subseteq Copies(m.request) \cup {<<m, queue'[m]>>}
           /\ \A c \in Requests \ {m.request} : Copies(c)' \subseteq Copies(c)
<1>1. /\ DOMAIN queue' = DOMAIN queue \cup {m}
      /\ \A n \in DOMAIN queue \ {m} : queue'[n] = queue[n]
      /\ queue'[m] = IF m \in DOMAIN queue THEN queue[m] + 1 ELSE 1
  BY DEF BagAdd
<1>2. QueueOK'
  BY <1>1 DEF QueueOK
<1>3. ASSUME NEW c, NEW n \in Message, NEW k \in Nat, <<n, k>> \in Copies(c)',
             <<n, k>> # <<m, queue'[m]>>
      PROVE  <<n, k>> \in Copies(c)
  BY <1>1, <1>3 DEF Copies, QueueOK
<1>4. ASSUME NEW c \in Requests, c # m.request PROVE <<m, queue'[m]>> \notin Copies(c)'
  BY <1>4 DEF Copies
<1>5. \A c : Copies(c)' \subseteq Message \X Nat
  BY DEF Copies
<1>6. \A c : \A x \in Copies(c)' : x = <<m, queue'[m]>> \/ x \in Copies(c)
  BY <1>3, <1>5
<1> QED
  BY <1>2, <1>4, <1>6

\* A message that is taken from the queue is one copy less.
LEMMA CopyRemoved ==
    ASSUME QueueOK, NEW m \in Message, m \in DOMAIN queue, queue' = BagRemove(queue, m)
    PROVE  /\ QueueOK'
           /\ <<m, queue[m]>> \in Copies(m.request)
           /\ Copies(m.request)' \subseteq Copies(m.request) \ {<<m, queue[m]>>}
           /\ \A c \in Requests \ {m.request} : Copies(c)' \subseteq Copies(c)
<1>1. /\ DOMAIN queue' = DOMAIN queue \ (IF queue[m] = 1 THEN {m} ELSE {})
      /\ \A n \in DOMAIN queue' \ {m} : queue'[n] = queue[n]
      /\ m \in DOMAIN queue' => queue'[m] = queue[m] - 1
  BY DEF BagRemove
<1>2. QueueOK'
  BY <1>1 DEF QueueOK
<1>3. \A c : Copies(c)' \subseteq Copies(c) \ {<<m, queue[m]>>}
  BY <1>1 DEF Copies, QueueOK
<1>4. <<m, queue[m]>> \in Copies(m.request)
  BY DEF Copies, QueueOK
<1> QED
  BY <1>2, <1>3, <1>4

\* A task that moves on is at work for the confirmation it has, or for none.
LEMMA TaskMoved ==
    ASSUME NEW w \in Workers, \A v \in Workers \ {w} : task'[v] = task[v]
    PROVE  \A c : /\ AtWork(c)' \subseteq AtWork(c) \cup {<<w, 0>>}
                  /\ ~(w \in Working' /\ Request(w)' = c)
                        => AtWork(c)' \subseteq AtWork(c) \ {<<w, 0>>}
  BY DEF AtWork, Working, Request

\* No copy of a message is taken for a task.
LEMMA CopiesAndTasks ==
    ASSUME NEW c
    PROVE  \A x : /\ <<x, 0>> \notin Copies(c)
                  /\ \A k : k # 0 => <<x, k>> \notin AtWork(c)
  BY DEF Copies, AtWork

\* A confirmation for which there is no more to send than before is as it was.
LEMMA NoMoreOwed ==
    ASSUME ConfirmationsOK, NEW c \in Requests, Within(c), Owed(c)' \subseteq Owed(c),
           mailed'[c] = mailed[c], interrupted'[c] = interrupted[c],
           asked[c] # None => asked'[c] # None
    PROVE  Within(c)'
<1>1. Owed(c)' \in SUBSET Owed(c) /\ FS!IsFiniteSet(Owed(c))
  BY DEF Within
<1>2. FS!IsFiniteSet(Owed(c)') /\ FS!Cardinality(Owed(c)') <= FS!Cardinality(Owed(c))
  BY <1>1, FS!FS_Subset, Zenon
<1>3. FS!Cardinality(Owed(c)) \in Nat /\ FS!Cardinality(Owed(c)') \in Nat
  BY <1>1, <1>2, FS!FS_CardinalityType, Zenon
<1> QED
  BY <1>2, <1>3 DEF Within, ConfirmationsOK

\* A step that puts one message of c, which may then be sent once more.
LEMMA OneMoreOwed ==
    ASSUME ConfirmationsOK, NEW c \in Requests, Within(c), NEW x,
           Owed(c)' \subseteq Owed(c) \cup {x}, mailed'[c] = mailed[c],
           \/ asked[c] = None /\ asked'[c] # None /\ interrupted'[c] = interrupted[c]
           \/ asked'[c] = asked[c] /\ interrupted'[c] = interrupted[c] + 1
    PROVE  Within(c)'
<1>1. /\ FS!IsFiniteSet(Owed(c)') /\ FS!Cardinality(Owed(c)') \in Nat
      /\ FS!Cardinality(Owed(c)') <= FS!Cardinality(Owed(c)) + 1
  BY OneMore DEF Within
<1>2. FS!Cardinality(Owed(c)) \in Nat
  BY FS!FS_CardinalityType, Zenon DEF Within
<1> QED
  BY <1>1, <1>2 DEF Within, ConfirmationsOK

\* A step that replaces what may still be sent of c by something else.
LEMMA OwedElsewhere ==
    ASSUME ConfirmationsOK, NEW c \in Requests, Within(c), NEW x \in Owed(c), NEW y,
           Owed(c)' \subseteq (Owed(c) \ {x}) \cup {y},
           UNCHANGED <<mailed, interrupted, asked>>
    PROVE  Within(c)'
<1>1. /\ FS!IsFiniteSet(Owed(c)') /\ FS!Cardinality(Owed(c)') \in Nat
      /\ FS!Cardinality(Owed(c)') <= FS!Cardinality(Owed(c))
  BY OneMoved DEF Within
<1>2. FS!Cardinality(Owed(c)) \in Nat
  BY FS!FS_CardinalityType, Zenon DEF Within
<1> QED
  BY <1>1, <1>2 DEF Within, ConfirmationsOK

\* Asking for a confirmation: nothing of it was owed before.
LEMMA AskOnce ==
    ASSUME TypeOK, SentOnce, NEW d \in Requests, NEW i \in 1 .. MaxUsers, Ask(d, i)
    PROVE  SentOnce'
<1> DEFINE m == [request |-> d, retries |-> 0]
<1>1. m \in Message /\ m.request = d
  BY DEF Message
<1>2. /\ queue' = BagAdd(queue, m) /\ UNCHANGED <<task, mailed, interrupted>>
      /\ asked[d] = None /\ asked' = [asked EXCEPT ![d] = i]
  BY DEF Ask
<1> HIDE DEF m
<1>3. /\ QueueOK' /\ Copies(d)' \subseteq Copies(d) \cup {<<m, queue'[m]>>}
      /\ \A c \in Requests \ {d} : Copies(c)' \subseteq Copies(c)
  BY <1>1, <1>2, CopyAdded DEF SentOnce
<1>4. \A c : AtWork(c)' = AtWork(c)
  BY <1>2 DEF AtWork, Working, Request
<1>5. asked'[d] # None /\ \A c \in Requests \ {d} : asked'[c] = asked[c]
  BY <1>2 DEF TypeOK, ConfirmationsOK
<1>6. Owed(d)' \subseteq Owed(d) \cup {<<m, queue'[m]>>}
  BY <1>3, <1>4 DEF Owed
<1>7. Within(d)'
  BY <1>2, <1>5, <1>6, OneMoreOwed DEF TypeOK, SentOnce
<1>8. ASSUME NEW c \in Requests \ {d} PROVE Within(c)'
  <2>1. Owed(c)' \subseteq Owed(c)
    BY <1>3, <1>4 DEF Owed
  <2> QED
    BY <1>2, <1>5, <2>1, NoMoreOwed DEF TypeOK, SentOnce
<1> QED
  BY <1>3, <1>7, <1>8 DEF SentOnce

\* The broker hands out a message: the task takes the place of the copy.
LEMMA FetchOnce ==
    ASSUME TypeOK, SentOnce, NEW w \in Workers, NEW m \in Message, Fetch(w, m)
    PROVE  SentOnce'
<1> DEFINE d == m.request
           x == <<m, queue[m]>>
<1>1. /\ m \in DOMAIN queue /\ queue' = BagRemove(queue, m)
      /\ task' = [task EXCEPT ![w] = [pc |-> "lookup", message |-> m]]
      /\ task[w].pc = "idle" /\ UNCHANGED <<asked, mailed, interrupted>>
  BY DEF Fetch
<1>2. /\ QueueOK' /\ x \in Copies(d) /\ Copies(d)' \subseteq Copies(d) \ {x}
      /\ \A c \in Requests \ {d} : Copies(c)' \subseteq Copies(c)
  BY <1>1, CopyRemoved DEF SentOnce
<1>3. /\ task'[w] = [pc |-> "lookup", message |-> m]
      /\ \A v \in Workers \ {w} : task'[v] = task[v]
  BY <1>1 DEF TypeOK, ConfirmationsOK
<1>4. Request(w)' = d
  BY <1>3 DEF Request
<1>5. d \in Requests
  BY DEF Message
<1>6. queue[m] # 0
  BY <1>1 DEF SentOnce, QueueOK
<1> HIDE DEF d
<1>7. x \notin AtWork(d)
  BY <1>6, CopiesAndTasks
<1> HIDE DEF x
<1>8. /\ AtWork(d)' \subseteq AtWork(d) \cup {<<w, 0>>}
      /\ \A c \in Requests \ {d} : AtWork(c)' \subseteq AtWork(c)
  BY <1>3, <1>4, TaskMoved
<1>9. Within(d)'
  <2>1. x \in Owed(d) /\ Owed(d)' \subseteq (Owed(d) \ {x}) \cup {<<w, 0>>}
    BY <1>2, <1>7, <1>8 DEF Owed
  <2> QED
    BY <1>1, <1>5, <2>1, OwedElsewhere DEF TypeOK, SentOnce
<1>10. ASSUME NEW c \in Requests \ {d} PROVE Within(c)'
  <2>1. Owed(c)' \subseteq Owed(c)
    BY <1>2, <1>8 DEF Owed
  <2> QED
    BY <1>1, <2>1, NoMoreOwed DEF TypeOK, SentOnce
<1> QED
  BY <1>2, <1>9, <1>10 DEF SentOnce

\* Looking the user up, acknowledging, and giving up: nothing more is owed.
LEMMA TaskGoesOn ==
    ASSUME TypeOK, SentOnce, NEW w \in Workers,
           UNCHANGED <<queue, mailed, interrupted, asked>>,
           \A v \in Workers \ {w} : task'[v] = task[v],
           w \in Working' => w \in Working /\ Request(w)' = Request(w)
    PROVE  SentOnce'
<1>1. QueueOK' /\ \A c : Copies(c)' = Copies(c)
  BY DEF SentOnce, QueueOK, Copies
<1>2. \A c : AtWork(c)' \subseteq AtWork(c)
  BY DEF AtWork, Working, Request
<1>3. \A c : Owed(c)' \subseteq Owed(c)
  BY <1>1, <1>2 DEF Owed
<1> QED
  BY <1>1, <1>3, NoMoreOwed DEF SentOnce, TypeOK

\* An e-mail that goes out is owed no longer; one that fails is given up.
LEMMA SendOnce ==
    ASSUME TypeOK, SentOnce, NEW w \in Workers, Send(w)
    PROVE  SentOnce'
<1>a. PICK d : d = Request(w)
  OBVIOUS
<1>1. /\ task[w].pc = "send" /\ task' = [task EXCEPT ![w].pc = "acknowledge"]
      /\ UNCHANGED <<asked, queue, interrupted>>
      /\ mailed' = [mailed EXCEPT ![d] = @ + 1] \/ UNCHANGED mailed
  BY <1>a DEF Send, InTask
<1>2. /\ w \in Working /\ w \notin Working'
      /\ \A v \in Workers \ {w} : task'[v] = task[v]
      /\ d \in Requests
  BY <1>a, <1>1 DEF Working, TypeOK, ConfirmationsOK, TaskStates, Idle, Message, Request
<1>3. CASE UNCHANGED mailed
  BY <1>1, <1>2, <1>3, TaskGoesOn
<1>4. CASE mailed' = [mailed EXCEPT ![d] = @ + 1]
  <2>1. QueueOK' /\ \A c : Copies(c)' = Copies(c)
    BY <1>1 DEF SentOnce, QueueOK, Copies
  <2>2. \A c : AtWork(c)' \subseteq AtWork(c) \ {<<w, 0>>}
    BY <1>2, TaskMoved
  <2>3. <<w, 0>> \in Owed(d)
    BY <1>a, <1>2 DEF Owed, AtWork
  <2>4. \A c : Owed(c)' \subseteq Owed(c) \ {<<w, 0>>}
    BY <2>1, <2>2, CopiesAndTasks DEF Owed
  <2>5. Within(d)'
    <3>1. Within(d)
      BY <1>2 DEF SentOnce
    <3>2. /\ FS!IsFiniteSet(Owed(d)') /\ FS!Cardinality(Owed(d)') \in Nat
          /\ FS!Cardinality(Owed(d)) \in Nat
          /\ FS!Cardinality(Owed(d)') <= FS!Cardinality(Owed(d)) - 1
      BY <2>3, <2>4, <3>1, OneLess DEF Within
    <3> QED
      BY <1>1, <1>2, <1>4, <3>1, <3>2 DEF Within, TypeOK, ConfirmationsOK
  <2>6. ASSUME NEW c \in Requests \ {d} PROVE Within(c)'
    <3>1. mailed'[c] = mailed[c]
      BY <1>4 DEF TypeOK, ConfirmationsOK
    <3> QED
      BY <1>1, <2>4, <3>1, NoMoreOwed DEF TypeOK, SentOnce
  <2> QED
    BY <2>1, <2>5, <2>6 DEF SentOnce
<1> QED
  BY <1>1, <1>3, <1>4

\* A retry puts a message for the task that ends, or nothing.
LEMMA RetryOnce ==
    ASSUME TypeOK, SentOnce, NEW w \in Workers, Retry(w)
    PROVE  SentOnce'
<1>a. PICK d, m : /\ d = Request(w)
                 /\ m = [request |-> d, retries |-> task[w].message.retries + 1]
  OBVIOUS
<1>1. /\ task[w].pc = "retry" /\ task' = [task EXCEPT ![w].pc = "acknowledge"]
      /\ UNCHANGED <<asked, mailed, interrupted>>
      /\ \/ task[w].message.retries < MaxRetries /\ queue' = BagAdd(queue, m)
         \/ UNCHANGED queue
  BY <1>a DEF Retry, InTask
<1>2. /\ w \in Working /\ w \notin Working'
      /\ \A v \in Workers \ {w} : task'[v] = task[v]
      /\ d \in Requests /\ task[w].message.retries \in 0 .. MaxRetries
  BY <1>a, <1>1 DEF Working, TypeOK, ConfirmationsOK, TaskStates, Idle, Message, Request
<1>3. CASE UNCHANGED queue
  BY <1>1, <1>2, <1>3, TaskGoesOn
<1>4. CASE task[w].message.retries < MaxRetries /\ queue' = BagAdd(queue, m)
  <2>1. m \in Message /\ m.request = d
    BY <1>a, <1>2, <1>4 DEF Message
  <2>2. <<w, 0>> \in Owed(d)
    BY <1>a, <1>2 DEF Owed, AtWork
  <2>3. /\ QueueOK' /\ Copies(d)' \subseteq Copies(d) \cup {<<m, queue'[m]>>}
        /\ \A c \in Requests \ {d} : Copies(c)' \subseteq Copies(c)
    BY <1>4, <2>1, CopyAdded DEF SentOnce
  <2>4. \A c : AtWork(c)' \subseteq AtWork(c) \ {<<w, 0>>}
    BY <1>2, TaskMoved
  <2>5. Within(d)'
    <3>1. Owed(d)' \subseteq (Owed(d) \ {<<w, 0>>}) \cup {<<m, queue'[m]>>}
      BY <2>3, <2>4, CopiesAndTasks DEF Owed
    <3> QED
      BY <1>1, <1>2, <2>2, <3>1, OwedElsewhere DEF TypeOK, SentOnce
  <2>6. ASSUME NEW c \in Requests \ {d} PROVE Within(c)'
    <3>1. Owed(c)' \subseteq Owed(c)
      BY <2>3, <2>4 DEF Owed
    <3> QED
      BY <1>1, <3>1, NoMoreOwed DEF TypeOK, SentOnce
  <2> QED
    BY <2>3, <2>5, <2>6 DEF SentOnce
<1> QED
  BY <1>1, <1>3, <1>4

\* A death brings the message back, even when the e-mail had gone out: one more, and
\* one more excuse for it.
LEMMA KillOnce ==
    ASSUME TypeOK, SentOnce, NEW w \in Workers, KillWorker(w)
    PROVE  SentOnce'
<1>a. PICK d, m : d = Request(w) /\ m = task[w].message
  OBVIOUS
<1>1. /\ task[w].pc # "idle" /\ queue' = BagAdd(queue, m) /\ task' = [task EXCEPT ![w] = Idle]
      /\ interrupted' = [interrupted EXCEPT ![d] = @ + 1] /\ UNCHANGED <<asked, mailed>>
  BY <1>a DEF KillWorker
<1>2. /\ m \in Message /\ d = m.request /\ d \in Requests
      /\ w \notin Working' /\ \A v \in Workers \ {w} : task'[v] = task[v]
  BY <1>a, <1>1 DEF Working, TypeOK, ConfirmationsOK, TaskStates, Idle, Message, Request
<1>3. /\ QueueOK' /\ Copies(d)' \subseteq Copies(d) \cup {<<m, queue'[m]>>}
      /\ \A c \in Requests \ {d} : Copies(c)' \subseteq Copies(c)
  BY <1>1, <1>2, CopyAdded DEF SentOnce
<1>4. \A c : AtWork(c)' \subseteq AtWork(c)
  BY <1>2, TaskMoved
<1>5. /\ interrupted'[d] = interrupted[d] + 1
      /\ \A c \in Requests \ {d} : interrupted'[c] = interrupted[c]
  BY <1>1, <1>2 DEF TypeOK, ConfirmationsOK
<1>6. Within(d)'
  <2>1. Owed(d)' \subseteq Owed(d) \cup {<<m, queue'[m]>>}
    BY <1>3, <1>4 DEF Owed
  <2> QED
    BY <1>1, <1>2, <1>5, <2>1, OneMoreOwed DEF TypeOK, SentOnce
<1>7. ASSUME NEW c \in Requests \ {d} PROVE Within(c)'
  <2>1. Owed(c)' \subseteq Owed(c)
    BY <1>3, <1>4 DEF Owed
  <2> QED
    BY <1>1, <1>5, <2>1, NoMoreOwed DEF TypeOK, SentOnce
<1> QED
  BY <1>3, <1>6, <1>7 DEF SentOnce

\* A confirmation is e-mailed once, and once more at most for every worker that died
\* with its message, however its messages are retried and brought back.
THEOREM SentAtMostOnce == Spec => []MailedOnce
<1>1. Init => SentOnce
  <2> SUFFICES ASSUME Init PROVE SentOnce
    OBVIOUS
  <2>1. DOMAIN queue = {} /\ \A c : Owed(c) = {}
    BY DEF Init, EmptyBag, SetToBag, Owed, Copies, AtWork, Working, Idle
  <2>2. FS!IsFiniteSet({}) /\ FS!Cardinality({}) = 0
    BY FS!FS_EmptySet, Zenon
  <2>3. QueueOK
    BY <2>1 DEF QueueOK
  <2>4. ASSUME NEW c \in Requests PROVE Within(c)
    <3>1. mailed[c] = 0 /\ interrupted[c] = 0 /\ asked[c] = None
      BY DEF Init
    <3>2. FS!IsFiniteSet(Owed(c)) /\ FS!Cardinality(Owed(c)) = 0
      BY <2>1, <2>2, Zenon
    <3> QED
      BY <3>1, <3>2 DEF Within
  <2> QED
    BY <2>3, <2>4 DEF SentOnce
<1>2. TypeOK /\ SentOnce /\ [Next]_vars => SentOnce'
  <2> SUFFICES ASSUME TypeOK, SentOnce, [Next]_vars PROVE SentOnce'
    OBVIOUS
  <2>1. ASSUME UNCHANGED <<asked, delivery>> PROVE SentOnce'
    <3>1. \A c : Owed(c)' = Owed(c)
      BY <2>1 DEF delivery, Owed, Copies, AtWork, Working, Request
    <3>2. \A c : Within(c)' = Within(c)
      BY <2>1, <3>1 DEF delivery, Within
    <3> QED
      BY <2>1, <3>2 DEF delivery, SentOnce, QueueOK
  <2>2. CASE Accounts
    BY <2>1, <2>2 DEF Accounts, WebStep, Register, CreateUser, SeedUser, BulkCreate, Connect,
       Publish, LateEvent, Record, KillWeb, DeleteUser, delivery
  <2>3. CASE \E c \in Requests, i \in 1 .. MaxUsers : Ask(c, i)
    BY <2>3, AskOnce
  <2>4. CASE \E w \in Workers, m \in Message : Fetch(w, m)
    BY <2>4, FetchOnce
  <2>5. CASE \E w \in Workers : LookUp(w) \/ Acknowledge(w)
    <3>1. PICK w \in Workers : LookUp(w) \/ Acknowledge(w)
      BY <2>5
    <3>2. /\ UNCHANGED <<queue, mailed, interrupted, asked>>
          /\ \A v \in Workers \ {w} : task'[v] = task[v]
          /\ w \in Working' => w \in Working /\ Request(w)' = Request(w)
      BY <3>1 DEF LookUp, Acknowledge, InTask, Working, Request, TypeOK, ConfirmationsOK,
         TaskStates, Idle
    <3> QED
      BY <3>2, TaskGoesOn
  <2>6. CASE \E w \in Workers : Send(w) \/ Retry(w) \/ KillWorker(w)
    BY <2>6, SendOnce, RetryOnce, KillOnce
  <2>7. CASE UNCHANGED vars
    BY <2>1, <2>7 DEF vars, delivery
  <2>8. CASE Confirmations
    BY <2>3, <2>4, <2>5, <2>6, <2>8 DEF Confirmations, TaskStep
  <2> QED
    BY <2>2, <2>7, <2>8 DEF Next
<1>3. TypeOK /\ SentOnce => MailedOnce
  <2> SUFFICES ASSUME TypeOK, SentOnce, NEW c \in Requests PROVE mailed[c] <= 1 + interrupted[c]
    BY DEF MailedOnce
  <2>1. FS!Cardinality(Owed(c)) \in Nat
    BY FS!FS_CardinalityType, Zenon DEF SentOnce, Within
  <2> QED
    BY <2>1 DEF SentOnce, Within, TypeOK, ConfirmationsOK
<1> QED
  BY <1>1, <1>2, <1>3, TypeCorrect, PTL DEF Spec

=============================================================================
