---- MODULE MailServer ----
(***************************************************************************)
(* The services of the ESMCP mail server and its client connections:       *)
(* ProtocolHandlerService, AuthenticationService, MailStorageService and   *)
(* MailTransferService.                                                    *)
(*                                                                         *)
(* They talk through MessageBus.sendMessage, which MessageBus.tla shows to *)
(* be RequestReply: a request is handled at most once, and a caller that   *)
(* gave up cannot tell whether it was, or will be.  Requests of one client *)
(* overtake requests of another, and late ones, on the way to a service.   *)
(* The server stops with MessageBus.shutdown: first the bus, then the      *)
(* services one by one, each of which may handle one more message.         *)
(*                                                                         *)
(* A mail is its sender and its addressee.  Subjects, bodies, time stamps, *)
(* reply texts and the syntax errors that change nothing are left out, and *)
(* so are the read flag of a mail with MAIL_MARK, which sets it, and       *)
(* SESSION_VALIDATE and MAIL_STATUS, which only read and which no service  *)
(* of the server asks.                                                     *)
(***************************************************************************)
EXTENDS Naturals, Sequences, FiniteSets, Bags, Functions, SequencesExt, TLC

CONSTANTS
    Clients,   \* client connections
    Users,     \* user names, all known to AuthenticationService
    NoUser,
    Late,      \* stands for the callers that gave up
    Expiring,  \* users who stay for more than the hour that a session lasts
    ListLimit, \* mails that MAIL_LIST looks at
    MaxMails,  \* bound of the model: mails ever stored
    MaxTasks,  \* bound of the model: transfers ever queued
    MaxLate    \* bound of the model: unhandled requests nobody waits for

ASSUME UsersAssumption == NoUser \notin Users /\ Late \notin Clients /\ Expiring \subseteq Users
ASSUME BoundsAssumption == MaxMails \in Nat /\ MaxTasks \in Nat /\ MaxLate \in Nat
                           /\ ListLimit \in Nat

VARIABLES
    client,          \* each handleClient: its ClientSession and the call it waits for
    late,            \* requests on their way whose callers gave up: a bag
    sessions,        \* AuthenticationService: users that have a session in its map
    expired,         \* those whose sessions there all have expired
    mailStore, userMailIndex, mailIdGenerator,
    sendQueue, statusMap, taskIdGenerator,
    posting,         \* task handleMailSend has queued and not yet given a status, or 0
    worker,          \* the transfer worker thread
    running,         \* the bus accepts messages
    service,         \* each service thread: "running", "stopping" or "exited"
    accepted,        \* history: <<id, from, to>> of each "250 Mail accepted"
    deleted,         \* history: ids that a MAIL_DELETE removed
    sent             \* history: tasks whose sendMail succeeded

callVars == <<client, late>>
storageVars == <<mailStore, userMailIndex, mailIdGenerator, deleted>>
transferVars == <<sendQueue, statusMap, taskIdGenerator, posting, worker, sent>>
authVars == <<sessions, expired>>
lifeVars == <<running, service>>
vars == <<callVars, authVars, storageVars, transferVars, lifeVars, accepted>>

Services == {"Authentication", "MailStorage", "MailTransfer"}

Polling == [at |-> "poll"]
NoMsg == [type |-> "none", user |-> NoUser, to |-> NoUser, id |-> 0]
NoClient == [at |-> "idle", user |-> NoUser, msg |-> NoMsg, answer |-> 0]

Init ==
    /\ client = [c \in Clients |-> NoClient] /\ late = EmptyBag
    /\ sessions = {} /\ expired = {}
    /\ mailStore = << >> /\ userMailIndex = [u \in Users |-> << >>] /\ mailIdGenerator = 1
    /\ sendQueue = << >> /\ statusMap = << >> /\ taskIdGenerator = 1
    /\ posting = 0 /\ worker = Polling
    /\ running = TRUE /\ service = [s \in Services |-> "running"]
    /\ accepted = {} /\ deleted = {} /\ sent = {}

----------------------------------------------------------------------------
(***************************************************************************)
(* ProtocolHandlerService: one command of a client at a time.  A client is *)
(* idle, or in sendMessage: its request is sent, taken by the service, or  *)
(* answered.  Once the bus is down sendMessage throws, and every command   *)
(* is told that it failed.                                                 *)
(***************************************************************************)
Ask(c, type, user, u, id) ==
    client' = [client EXCEPT ![c].at = "sent", ![c].answer = 0,
                  ![c].msg = [type |-> type, user |-> user, to |-> u, id |-> id]]

OnlyClients == UNCHANGED <<late, authVars, storageVars, transferVars, lifeVars, accepted>>

Waiting(c) == client[c].at \in {"sent", "taken", "answered"}

\* Back to reading commands; the session keeps its user.
Ready(c) == [NoClient EXCEPT !.user = client[c].user]

\* AUTH; id 1 stands for the right password, 0 for another.
handleAuth(c, u, right) ==
    /\ client[c].at = "idle" /\ running
    /\ Ask(c, "AUTH", u, NoUser, right)
    /\ OnlyClients

LoggedIn(c) == client[c].at = "idle" /\ client[c].user # NoUser /\ running

handleSend(c, u) ==
    LoggedIn(c) /\ Ask(c, "STORE", client[c].user, u, 0) /\ OnlyClients

handleList(c) ==
    LoggedIn(c) /\ Ask(c, "LIST", client[c].user, NoUser, 0) /\ OnlyClients

handleRetr(c, id) ==
    LoggedIn(c) /\ Ask(c, "RETRIEVE", NoUser, NoUser, id) /\ OnlyClients

handleDele(c, id) ==
    LoggedIn(c) /\ Ask(c, "DELETE", NoUser, NoUser, id) /\ OnlyClients

Quit(c) ==
    /\ client[c].at = "idle"
    /\ client' = [client EXCEPT ![c] = [NoClient EXCEPT !.at = "closed"]]
    /\ OnlyClients

Answered(c, types) == client[c].at = "answered" /\ client[c].msg.type \in types

\* The answer to AUTH: only a success touches the session.
AuthAnswered_any(c) ==
    /\ Answered(c, {"AUTH"})
    /\ client' = [client EXCEPT ![c] = [Ready(c) EXCEPT !.user = client[c].msg.user]]
    /\ OnlyClients

AuthAnswered(c) ==
    /\ Answered(c, {"AUTH"})
    /\ client' = [client EXCEPT ![c] =
          IF client[c].answer = 1 THEN [Ready(c) EXCEPT !.user = client[c].msg.user] ELSE Ready(c)]
    /\ OnlyClients

\* The answer to MAIL_STORE: handleSend goes on to MAIL_SEND, if the bus still runs.
StoreAnswered(c) ==
    /\ Answered(c, {"STORE"})
    /\ IF running THEN Ask(c, "SEND", client[c].msg.user, client[c].msg.to, client[c].answer)
       ELSE client' = [client EXCEPT ![c] = Ready(c)]
    /\ OnlyClients

\* LIST, RETR and DELE only report what they are told.
OtherAnswered(c) ==
    /\ Answered(c, {"LIST", "RETRIEVE", "DELETE"})
    /\ client' = [client EXCEPT ![c] = Ready(c)]
    /\ OnlyClients

\* A request not yet taken stays on its way when its caller gives up.
GiveUp(c) ==
    /\ client[c].at = "sent" => BagCardinality(late) < MaxLate
    /\ late' = IF client[c].at = "sent" THEN late (+) SetToBag({client[c].msg}) ELSE late
    /\ client' = [client EXCEPT ![c] = Ready(c)]

\* handleSend does not look at what MAIL_SEND returned: an answer or an error,
\* the mail is reported as accepted.
SendReturns(c) ==
    /\ Waiting(c) /\ client[c].msg.type = "SEND"
    /\ GiveUp(c)
    /\ accepted' = accepted \cup {<<client[c].msg.id, client[c].msg.user, client[c].msg.to>>}
    /\ UNCHANGED <<authVars, storageVars, transferVars, lifeVars>>

CallFails_unnoticed(c) ==
    /\ Waiting(c) /\ client[c].msg.type # "SEND"
    /\ GiveUp(c)
    /\ accepted' = IF client[c].msg.type = "STORE"
                   THEN accepted \cup {<<client[c].answer, client[c].msg.user, client[c].msg.to>>}
                   ELSE accepted
    /\ UNCHANGED <<authVars, storageVars, transferVars, lifeVars>>

\* sendMessage returns an error, and the client is told that the command failed.
CallFails(c) ==
    /\ Waiting(c) /\ client[c].msg.type # "SEND"
    /\ GiveUp(c)
    /\ UNCHANGED <<authVars, storageVars, transferVars, lifeVars, accepted>>

\* The executor was closed between the test of running and submit: sendMessage
\* throws, and the request was never sent.
CallRejected(c) ==
    /\ client[c].at = "sent" /\ ~running /\ \A s \in Services : service[s] # "running"
    /\ client' = [client EXCEPT ![c] = Ready(c)]
    /\ OnlyClients

----------------------------------------------------------------------------
(***************************************************************************)
(* The service threads: each takes the requests for it in any order        *)
(***************************************************************************)
\* Service s takes message m of source src, a client or Late.  A service that
\* was told to stop while it waited leaves its loop afterwards.
Take(s, src, m, types) ==
    /\ m.type \in types /\ service[s] # "exited"
    /\ IF src = Late THEN BagIn(m, late) ELSE client[src].at = "sent" /\ client[src].msg = m
    /\ service' = [service EXCEPT ![s] = IF @ = "stopping" THEN "exited" ELSE @]

Progress(src, m, at, a) ==
    IF src = Late THEN late' = late (-) SetToBag({m}) /\ UNCHANGED client
    ELSE client' = [client EXCEPT ![src].at = at, ![src].answer = a] /\ UNCHANGED late

Answer(src, m, a) == Progress(src, m, "answered", a)

handleAuthRequest(src, m) ==
    /\ Take("Authentication", src, m, {"AUTH"})
    /\ sessions' = IF m.id = 1 THEN sessions \cup {m.user} ELSE sessions
    /\ expired' = IF m.id = 1 THEN expired \ {m.user} ELSE expired
    /\ Answer(src, m, m.id)
    /\ UNCHANGED <<storageVars, transferVars, running, accepted>>

\* Session.isExpired: the hour of the user's last session is over.  The map
\* keeps the session, and the connections that opened it are not told.
SessionExpires(u) ==
    /\ u \in (sessions \cap Expiring) \ expired
    /\ expired' = expired \cup {u}
    /\ UNCHANGED <<callVars, sessions, storageVars, transferVars, lifeVars, accepted>>

\* Map.put
Put(map, key, value) == [k \in DOMAIN map \cup {key} |-> IF k = key THEN value ELSE map[k]]

\* mailIdGenerator.getAndIncrement
NextMailId == mailIdGenerator

handleMailStore(src, m) ==
    /\ mailIdGenerator <= MaxMails /\ Take("MailStorage", src, m, {"STORE"})
    /\ mailStore' = Put(mailStore, NextMailId, [from |-> m.user, to |-> m.to])
    /\ userMailIndex' = [userMailIndex EXCEPT ![m.to] = Append(@, NextMailId)]
    /\ mailIdGenerator' = mailIdGenerator + 1
    /\ Answer(src, m, NextMailId)
    /\ UNCHANGED <<authVars, deleted, transferVars, running, accepted>>

\* MAIL_RETRIEVE and MAIL_LIST only read the two maps.
handleMailRetrieve(src, m) ==
    /\ Take("MailStorage", src, m, {"RETRIEVE"})
    /\ Answer(src, m, IF m.id \in DOMAIN mailStore THEN 1 ELSE 0)
    /\ UNCHANGED <<authVars, storageVars, transferVars, running, accepted>>

handleMailList(src, m) ==
    /\ Take("MailStorage", src, m, {"LIST"})
    /\ Answer(src, m, Cardinality({k \in DOMAIN userMailIndex[m.user] :
                    k <= ListLimit /\ userMailIndex[m.user][k] \in DOMAIN mailStore}))
    /\ UNCHANGED <<authVars, storageVars, transferVars, running, accepted>>

RemoveId_kept(index, id) == index

\* List.remove(mailId): the first of them.
RemoveId(index, id) == RemoveFirst(index, id)

handleMailDelete(src, m) ==
    /\ Take("MailStorage", src, m, {"DELETE"})
    /\ IF m.id \in DOMAIN mailStore
       THEN /\ mailStore' = Restrict(mailStore, DOMAIN mailStore \ {m.id})
            /\ userMailIndex' = [userMailIndex EXCEPT ![mailStore[m.id].to] = RemoveId(@, m.id)]
            /\ deleted' = deleted \cup {m.id}
       ELSE UNCHANGED <<mailStore, userMailIndex, deleted>>
    /\ Answer(src, m, IF m.id \in DOMAIN mailStore THEN 1 ELSE 0)
    /\ UNCHANGED <<authVars, mailIdGenerator, transferVars, running, accepted>>

(***************************************************************************)
(* MailTransferService: handleMailSend in two steps, because the worker    *)
(* thread can take the task before its status is in statusMap.             *)
(***************************************************************************)
QueueTask(src, m) ==
    /\ posting = 0 /\ taskIdGenerator <= MaxTasks
    /\ Take("MailTransfer", src, m, {"SEND"})
    /\ sendQueue' = Append(sendQueue, taskIdGenerator)
    /\ posting' = taskIdGenerator
    /\ taskIdGenerator' = taskIdGenerator + 1
    /\ Progress(src, m, "taken", 0)
    /\ UNCHANGED <<authVars, storageVars, statusMap, worker, sent, running, accepted>>

\* The rest of handleMailSend and its answer, to a caller that still waits.
PutStatus ==
    /\ posting # 0
    /\ statusMap' = Put(statusMap, posting, "QUEUED")
    /\ posting' = 0
    /\ client' = [c \in Clients |->
          IF client[c].at = "taken" THEN [client[c] EXCEPT !.at = "answered", !.answer = posting]
          ELSE client[c]]
    /\ UNCHANGED <<late, authVars, storageVars, sendQueue, taskIdGenerator,
                   worker, sent, lifeVars, accepted>>

\* The worker's flag, cleared by MailTransferService.shutdown.
processing == service["MailTransfer"] = "running"

\* processQueue
Poll ==
    /\ worker = Polling /\ processing /\ sendQueue # << >>
    /\ worker' = [at |-> "status", task |-> Head(sendQueue)]
    /\ sendQueue' = Tail(sendQueue)
    /\ UNCHANGED <<callVars, authVars, storageVars, statusMap, taskIdGenerator,
                   posting, sent, lifeVars, accepted>>

\* statusMap.get; a missing status is skipped here and at the end.
GetStatus ==
    /\ worker.at = "status"
    /\ worker' = [at |-> "sending", task |-> worker.task,
                  known |-> worker.task \in DOMAIN statusMap]
    /\ statusMap' = IF worker.task \in DOMAIN statusMap
                    THEN [statusMap EXCEPT ![worker.task] = "SENDING"] ELSE statusMap
    /\ UNCHANGED <<callVars, authVars, storageVars, sendQueue, taskIdGenerator,
                   posting, sent, lifeVars, accepted>>

Outcome(result) ==
    /\ statusMap' = IF worker.known THEN [statusMap EXCEPT ![worker.task] = result] ELSE statusMap
    /\ sent' = IF result = "SENT" THEN sent \cup {worker.task} ELSE sent

\* sendMail fails only when the worker is interrupted by shutdown.
SendMail ==
    /\ worker.at = "sending"
    /\ \/ Outcome("SENT") /\ worker' = (IF processing THEN Polling ELSE [at |-> "exited"])
       \/ ~processing /\ Outcome("FAILED") /\ worker' = [at |-> "exited"]
    /\ UNCHANGED <<callVars, authVars, storageVars, sendQueue, taskIdGenerator,
                   posting, lifeVars, accepted>>

WorkerExits_early ==
    /\ worker = Polling /\ (~processing \/ sendQueue = << >>)
    /\ worker' = [at |-> "exited"]
    /\ UNCHANGED <<callVars, authVars, storageVars, sendQueue, statusMap,
                   taskIdGenerator, posting, sent, lifeVars, accepted>>

WorkerExits ==
    /\ worker = Polling /\ ~processing
    /\ worker' = [at |-> "exited"]
    /\ UNCHANGED <<callVars, authVars, storageVars, sendQueue, statusMap,
                   taskIdGenerator, posting, sent, lifeVars, accepted>>

----------------------------------------------------------------------------
(***************************************************************************)
(* MessageBus.shutdown                                                     *)
(***************************************************************************)
shutdown ==
    /\ running
    /\ running' = FALSE
    /\ UNCHANGED <<callVars, authVars, storageVars, transferVars, service, accepted>>

\* Service.stop; AuthenticationService drops its sessions.  The interrupt ends
\* the thread unless it takes a message first.
StopService(s) ==
    /\ ~running /\ service[s] = "running"
    /\ service' = [service EXCEPT ![s] = "stopping"]
    /\ sessions' = IF s = "Authentication" THEN {} ELSE sessions
    /\ expired' = IF s = "Authentication" THEN {} ELSE expired
    /\ UNCHANGED <<callVars, storageVars, transferVars, running, accepted>>

----------------------------------------------------------------------------
ClientStep(c) ==
    \/ \E u \in Users, right \in {0, 1} : handleAuth(c, u, right)
    \/ \E u \in Users : handleSend(c, u)
    \/ \E id \in 1 .. MaxMails : handleRetr(c, id) \/ handleDele(c, id)
    \/ handleList(c) \/ Quit(c)
    \/ AuthAnswered(c) \/ StoreAnswered(c) \/ OtherAnswered(c)
    \/ SendReturns(c) \/ CallFails(c) \/ CallRejected(c)

OnTheWay == [c \in Clients |-> {client[c].msg}] @@ (Late :> DOMAIN late)

ServiceStep(src, m) ==
    \/ handleAuthRequest(src, m) \/ handleMailStore(src, m) \/ handleMailRetrieve(src, m)
    \/ handleMailList(src, m) \/ handleMailDelete(src, m) \/ QueueTask(src, m)

WorkerStep == Poll \/ GetStatus \/ SendMail \/ WorkerExits

Next ==
    \/ \E c \in Clients : ClientStep(c)
    \/ \E src \in Clients \cup {Late} : \E m \in OnTheWay[src] : ServiceStep(src, m)
    \/ PutStatus \/ WorkerStep \/ \E u \in Users : SessionExpires(u)
    \/ shutdown \/ \E s \in Services : StopService(s)

Spec == Init /\ [][Next]_vars

\* The worker and the transfer service keep running; clients may stop.
FairSpec == Spec /\ WF_vars(WorkerStep) /\ WF_vars(PutStatus)

----------------------------------------------------------------------------
Ids == 1 .. MaxMails

Msgs == [type : {"none", "AUTH", "STORE", "SEND", "LIST", "RETRIEVE", "DELETE"},
         user : Users \cup {NoUser}, to : Users \cup {NoUser}, id : Ids \cup {0, 1}]

\* Types; ids and task numbers in use come from their generators.
TypeOK ==
    /\ client \in [Clients -> [at : {"idle", "sent", "taken", "answered", "closed"},
                               user : Users \cup {NoUser}, msg : Msgs, answer : Nat]]
    /\ IsABag(late) /\ DOMAIN late \subseteq Msgs
    /\ sessions \subseteq Users /\ expired \subseteq sessions /\ deleted \subseteq Ids
    /\ running \in BOOLEAN /\ service \in [Services -> {"running", "stopping", "exited"}]
    /\ DOMAIN mailStore \subseteq 1 .. mailIdGenerator - 1
    /\ \A id \in DOMAIN mailStore : mailStore[id] \in [from : Users, to : Users]
    /\ mailIdGenerator \in 1 .. MaxMails + 1 /\ taskIdGenerator \in 1 .. MaxTasks + 1
    /\ DOMAIN statusMap \subseteq 1 .. taskIdGenerator - 1
    /\ \A t \in DOMAIN statusMap : statusMap[t] \in {"QUEUED", "SENDING", "SENT", "FAILED"}

\* A mail whose client was told "250 Mail accepted" can be retrieved under that
\* id, by its sender's name and for its addressee, until a MAIL_DELETE: no
\* later mail, late request, timeout or shutdown takes it away or takes its id.
AcceptedMailStays ==
    \A a \in accepted :
        \/ a[1] \in deleted
        \/ /\ a[1] \in DOMAIN mailStore
           /\ mailStore[a[1]].from = a[2] /\ mailStore[a[1]].to = a[3]

\* The two maps of MailStorageService agree: the index of a user lists the
\* stored mails to that user, each once, oldest first.
IndexMatchesStore ==
    \A u \in Users :
        /\ Range(userMailIndex[u]) = {id \in DOMAIN mailStore : mailStore[id].to = u}
        /\ \A j, k \in DOMAIN userMailIndex[u] : j < k => userMailIndex[u][j] < userMailIndex[u][k]

\* Until AuthenticationService is stopped, a connection acts only for a user
\* that has a session there, and no mail is stored in the name of another,
\* whatever answers and requests came late or not at all.  The session may have
\* expired since: no command asks SESSION_VALIDATE, so a connection goes on
\* after the hour, until QUIT.
LoginJustified ==
    service["Authentication"] = "running" =>
        /\ \A c \in Clients : client[c].user \in sessions \cup {NoUser}
        /\ \A id \in DOMAIN mailStore : mailStore[id].from \in sessions

\* What statusMap says of a task is true, but for one race: the worker may
\* finish a task before handleMailSend records it as QUEUED.
StatusTruthful ==
    \A t \in DOMAIN statusMap :
        /\ statusMap[t] = "SENT" => t \in sent
        /\ statusMap[t] = "FAILED" => t \notin sent /\ ~processing
        /\ t \in sent => statusMap[t] \in {"SENT", "QUEUED"}

\* Store, index and transfer status agree with each other, whoever stores,
\* deletes and sends at the same time.
MailConsistent == TypeOK /\ IndexMatchesStore /\ StatusTruthful

\* A mail in the queue or in the worker's hands is sent, unless the server
\* shuts down: the worker neither stops polling nor skips a task.
InTransfer(t) ==
    \/ \E k \in DOMAIN sendQueue : sendQueue[k] = t
    \/ worker.at \in {"status", "sending"} /\ worker.task = t

TransferCompletes == \A t \in 1 .. MaxTasks : InTransfer(t) ~> (t \in sent \/ ~processing)
====
