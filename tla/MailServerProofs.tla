---- MODULE MailServerProofs ----
(***************************************************************************)
(* The mail server for any number of clients, users, mails and late        *)
(* requests: an accepted mail stays, a connection acts only for a user who *)
(* logged in, and store, index and transfer status agree.                  *)
(*                                                                         *)
(* What a client was, or is about to be, told is true already while the    *)
(* answer is on its way (CallsHonest), whichever of the other threads runs *)
(* in between; and a task is in one place only: queue, worker or sent      *)
(* (TasksOnce).                                                            *)
(***************************************************************************)
EXTENDS MailServer, FiniteSetTheorems, SequenceTheorems, TLAPS

USE DEF authVars

\* Mail id was stored for this sender and addressee, and not changed since.
KeptIn(store, gone, id, from, to) ==
    id \in gone \/ (id \in DOMAIN store /\ store[id].from = from /\ store[id].to = to)

\* Requests name the users their handlers look up.
RequestSound(m) ==
    /\ m.type \in {"AUTH", "STORE", "LIST"} => m.user \in Users
    /\ m.type = "STORE" => m.to \in Users

RequestsSound ==
    /\ \A c \in Clients : RequestSound(client[c].msg)
    /\ \A m \in DOMAIN late : RequestSound(m)

\* One connection k; auth tells if AuthenticationService runs.
Honest(k, store, gone, open, auth) ==
    /\ k.at = "taken" => k.msg.type = "SEND"
    /\ k.at \in {"sent", "taken", "answered"} /\ k.msg.type = "SEND" =>
          KeptIn(store, gone, k.msg.id, k.msg.user, k.msg.to)
    /\ k.at = "answered" /\ k.msg.type = "STORE" =>
          KeptIn(store, gone, k.answer, k.msg.user, k.msg.to)
    /\ auth => /\ k.user \in open \cup {NoUser}
               /\ k.at = "answered" /\ k.msg.type = "AUTH" /\ k.answer = 1 => k.msg.user \in open

AuthRuns == service["Authentication"] = "running"

CallsHonest == \A c \in Clients : Honest(client[c], mailStore, deleted, sessions, AuthRuns)

AcceptedKept == \A a \in accepted : KeptIn(mailStore, deleted, a[1], a[2], a[3])

Tasks == 1 .. taskIdGenerator - 1

WorkerStates ==
    [at : {"poll", "exited"}] \cup [at : {"status"}, task : Tasks]
    \cup [at : {"sending"}, task : Tasks, known : BOOLEAN]

\* A task is in the queue once, with the worker, or sent.
TasksOnce ==
    /\ posting \in 0 .. taskIdGenerator - 1 /\ posting \notin DOMAIN statusMap
    /\ sent \subseteq Tasks /\ worker \in WorkerStates
    /\ sendQueue \in Seq(Tasks)
    /\ \A j, k \in 1 .. Len(sendQueue) : sendQueue[j] = sendQueue[k] => j = k
    /\ \A k \in 1 .. Len(sendQueue) : sendQueue[k] \notin sent
    /\ worker.at \in {"status", "sending"} =>
          worker.task \notin sent /\ \A k \in 1 .. Len(sendQueue) : sendQueue[k] # worker.task
    /\ worker.at = "sending" =>
          IF worker.known THEN worker.task \in DOMAIN statusMap
          ELSE worker.task \in DOMAIN statusMap => statusMap[worker.task] = "QUEUED"
    /\ (\E t \in DOMAIN statusMap : statusMap[t] = "FAILED") => worker.at = "exited" /\ ~processing

Indexed == userMailIndex \in [Users -> Seq(Nat)]

MailInv ==
    /\ TypeOK /\ Indexed /\ IndexMatchesStore /\ StatusTruthful
    /\ RequestsSound /\ CallsHonest /\ AcceptedKept /\ TasksOnce

LEMMA BagPlus ==
  ASSUME NEW B, NEW m, IsABag(B)
  PROVE  IsABag(B (+) SetToBag({m})) /\ DOMAIN (B (+) SetToBag({m})) = DOMAIN B \cup {m}
BY DEF IsABag, SetToBag, (+)

LEMMA BagMinus ==
  ASSUME NEW B, NEW m, IsABag(B)
  PROVE  IsABag(B (-) SetToBag({m})) /\ DOMAIN (B (-) SetToBag({m})) \subseteq DOMAIN B
BY DEF IsABag, SetToBag, (-)

ClientRec == [at : {"idle", "sent", "taken", "answered", "closed"}, user : Users \cup {NoUser},
              msg : Msgs, answer : Nat]

LEMMA MailTypes ==
  TypeOK <=>
    /\ client \in [Clients -> ClientRec]
    /\ IsABag(late) /\ DOMAIN late \subseteq Msgs
    /\ sessions \subseteq Users /\ expired \subseteq sessions /\ deleted \subseteq Ids
    /\ running \in BOOLEAN /\ service \in [Services -> {"running", "stopping", "exited"}]
    /\ DOMAIN mailStore \subseteq 1 .. mailIdGenerator - 1
    /\ \A id \in DOMAIN mailStore : mailStore[id] \in [from : Users, to : Users]
    /\ mailIdGenerator \in 1 .. MaxMails + 1 /\ taskIdGenerator \in 1 .. MaxTasks + 1
    /\ DOMAIN statusMap \subseteq 1 .. taskIdGenerator - 1
    /\ \A t \in DOMAIN statusMap : statusMap[t] \in {"QUEUED", "SENDING", "SENT", "FAILED"}
BY DEF TypeOK, ClientRec

LEMMA MailInit == Init => MailInv
<1> SUFFICES ASSUME Init PROVE MailInv
  OBVIOUS
<1> USE DEF Init
<1>1. TypeOK
  <2>1. NoClient \in ClientRec
    BY DEF NoClient, NoMsg, ClientRec, Msgs
  <2>2. IsABag(late) /\ DOMAIN late = {}
    BY DEF IsABag, EmptyBag, SetToBag
  <2>3. running \in BOOLEAN
    BY Zenon
  <2> QED BY <2>1, <2>2, <2>3, BoundsAssumption, MailTypes
<1>2. Indexed /\ IndexMatchesStore
  BY DEF Indexed, IndexMatchesStore, Range
<1>3. StatusTruthful
  BY DEF StatusTruthful
<1>4. RequestsSound /\ CallsHonest /\ AcceptedKept
  BY DEF RequestsSound, RequestSound, CallsHonest, Honest, AcceptedKept, NoClient, NoMsg, EmptyBag,
     SetToBag
<1>5. TasksOnce
  BY DEF TasksOnce, WorkerStates, Polling, Tasks
<1> QED BY <1>1, <1>2, <1>3, <1>4, <1>5 DEF MailInv

----------------------------------------------------------------------------
(***************************************************************************)
(* Client connections                                                      *)
(***************************************************************************)
\* Everything that does not mention the connections stays as it is.
LEMMA ClientMoves ==
  ASSUME MailInv, NEW c \in Clients, NEW k \in ClientRec, client' = [client EXCEPT ![c] = k],
         RequestSound(k.msg), Honest(k, mailStore, deleted, sessions, AuthRuns),
         \/ UNCHANGED late
         \/ late' = late (+) SetToBag({client[c].msg}),
         UNCHANGED <<authVars, storageVars, transferVars, lifeVars>>,
         AcceptedKept'
  PROVE  MailInv'
<1> USE DEF storageVars, transferVars, lifeVars
<1>1. TypeOK /\ client \in [Clients -> ClientRec] /\ client[c] \in ClientRec
  BY MailTypes DEF MailInv
<1>2. /\ client' \in [Clients -> ClientRec]
      /\ \A d \in Clients : client'[d] = IF d = c THEN k ELSE client[d]
  BY <1>1
<1>3. IsABag(late') /\ DOMAIN late' \subseteq DOMAIN late \cup {client[c].msg}
  <2>1. IsABag(late)
    BY <1>1, MailTypes
  <2>2. CASE UNCHANGED late
    BY <2>1, <2>2, Zenon
  <2>3. CASE late' = late (+) SetToBag({client[c].msg})
    BY <2>1, <2>3, BagPlus, Zenon
  <2> QED BY <2>2, <2>3
<1>4. client[c].msg \in Msgs /\ RequestSound(client[c].msg)
  BY <1>1 DEF MailInv, RequestsSound, ClientRec
<1>5. TypeOK'
  BY <1>1, <1>2, <1>3, <1>4 DEF TypeOK, ClientRec, Msgs, Ids, Services
<1>6. RequestsSound'
  BY <1>2, <1>3, <1>4 DEF MailInv, RequestsSound, RequestSound
<1>7. CallsHonest'
  <2>1. AuthRuns' = AuthRuns
    BY DEF AuthRuns
  <2> QED BY <1>2, <2>1 DEF MailInv, CallsHonest, Honest, KeptIn
<1>8. Indexed' /\ IndexMatchesStore' /\ StatusTruthful'
  BY DEF MailInv, Indexed, IndexMatchesStore, StatusTruthful, processing
<1>9. TasksOnce'
  BY DEF MailInv, TasksOnce, WorkerStates, Tasks, processing
<1> QED BY <1>5, <1>6, <1>7, <1>8, <1>9 DEF MailInv

LEMMA AcceptedUnchanged ==
  ASSUME MailInv, UNCHANGED <<storageVars, accepted>>
  PROVE  AcceptedKept'
BY DEF MailInv, AcceptedKept, KeptIn, storageVars

MsgTypes == {"none", "AUTH", "STORE", "SEND", "LIST", "RETRIEVE", "DELETE"}

LEMMA Asked ==
  ASSUME MailInv, NEW c \in Clients, NEW type \in MsgTypes, NEW user \in Users \cup {NoUser},
         NEW u \in Users \cup {NoUser}, NEW id \in Ids \cup {0, 1}, Ask(c, type, user, u, id),
         OnlyClients, RequestSound([type |-> type, user |-> user, to |-> u, id |-> id]),
         type = "SEND" => KeptIn(mailStore, deleted, id, user, u)
  PROVE  MailInv'
<1> DEFINE m == [type |-> type, user |-> user, to |-> u, id |-> id]
           j == [client[c] EXCEPT !.at = "sent"]
           i == [j EXCEPT !.answer = 0]
           k == [i EXCEPT !.msg = m]
<1>1. client \in [Clients -> ClientRec] /\ client[c] \in ClientRec
  BY MailTypes DEF MailInv
<1>2. client' = [client EXCEPT ![c] = k]
  BY <1>1, Zenon DEF Ask
<1>3. m \in Msgs
  BY DEF Msgs, MsgTypes
<1>4. RequestSound(m) /\ m.type = type /\ m.id = id /\ m.user = user /\ m.to = u
  OBVIOUS
<1> HIDE DEF m
<1>5. j \in ClientRec /\ j.at = "sent" /\ j.user = client[c].user
  BY <1>1 DEF ClientRec
<1> HIDE DEF j
<1>6. i \in ClientRec /\ i.at = "sent" /\ i.user = client[c].user
  BY <1>5 DEF ClientRec
<1> HIDE DEF i
<1>7. k \in ClientRec /\ k.at = "sent" /\ k.user = client[c].user /\ k.msg = m
  BY <1>3, <1>6 DEF ClientRec
<1> HIDE DEF k
<1>8. Honest(k, mailStore, deleted, sessions, AuthRuns)
  BY <1>4, <1>7 DEF Honest, MailInv, CallsHonest
<1>9. UNCHANGED <<late, authVars, storageVars, transferVars, lifeVars, accepted>>
  BY DEF OnlyClients
<1>10. AcceptedKept'
  BY <1>9, AcceptedUnchanged
<1> QED BY <1>2, <1>4, <1>7, <1>8, <1>9, <1>10, ClientMoves

\* The commands of a client.
LEMMA CommandInv ==
  ASSUME MailInv, NEW c \in Clients,
         \/ \E u \in Users, right \in {0, 1} : handleAuth(c, u, right)
         \/ \E u \in Users : handleSend(c, u)
         \/ \E id \in 1 .. MaxMails : handleRetr(c, id) \/ handleDele(c, id)
         \/ handleList(c)
  PROVE  MailInv'
<1>1. client[c] \in ClientRec
  BY MailTypes DEF MailInv
<1>2. client[c].user \in Users \cup {NoUser}
  BY <1>1 DEF ClientRec
<1>3. ASSUME NEW u \in Users, NEW right \in {0, 1}, handleAuth(c, u, right) PROVE MailInv'
  BY <1>3, Asked DEF handleAuth, RequestSound, MsgTypes
<1>4. ASSUME NEW u \in Users, handleSend(c, u) PROVE MailInv'
  <2>1. client[c].user \in Users
    BY <1>2, <1>4 DEF handleSend, LoggedIn
  <2> QED BY <1>4, <2>1, Asked DEF handleSend, RequestSound, MsgTypes
<1>5. ASSUME NEW id \in 1 .. MaxMails, handleRetr(c, id) \/ handleDele(c, id) PROVE MailInv'
  <2>1. id \in Ids \cup {0, 1}
    BY <1>5 DEF Ids
  <2> QED BY <1>5, <2>1, Asked DEF handleRetr, handleDele, RequestSound, MsgTypes
<1>6. CASE handleList(c)
  <2>1. client[c].user \in Users
    BY <1>2, <1>6 DEF handleList, LoggedIn
  <2> QED BY <1>6, <2>1, Asked DEF handleList, RequestSound, MsgTypes
<1> QED BY <1>3, <1>4, <1>5, <1>6

\* Back to reading commands, with a user that may have logged in.
LEMMA ReadyInv ==
  ASSUME MailInv, NEW c \in Clients, NEW u \in Users \cup {NoUser}, NEW at \in {"idle", "closed"},
         AuthRuns => u \in sessions \cup {NoUser},
         client' = [client EXCEPT ![c] = [at |-> at, user |-> u, msg |-> NoMsg, answer |-> 0]],
         \/ UNCHANGED late
         \/ late' = late (+) SetToBag({client[c].msg}),
         UNCHANGED <<authVars, storageVars, transferVars, lifeVars>>,
         AcceptedKept'
  PROVE  MailInv'
<1> DEFINE k == [at |-> at, user |-> u, msg |-> NoMsg, answer |-> 0]
<1>1. k \in ClientRec
  BY DEF ClientRec, NoMsg, Msgs
<1>2. RequestSound(k.msg)
  BY DEF RequestSound, NoMsg
<1>3. Honest(k, mailStore, deleted, sessions, AuthRuns)
  BY DEF Honest
<1>4. client' = [client EXCEPT ![c] = k]
  OBVIOUS
<1> HIDE DEF k
<1> QED BY <1>1, <1>2, <1>3, <1>4, ClientMoves

LEMMA ReadyIs ==
  ASSUME MailInv, NEW c \in Clients
  PROVE  /\ Ready(c) = [at |-> "idle", user |-> client[c].user, msg |-> NoMsg, answer |-> 0]
         /\ client[c].user \in Users \cup {NoUser} /\ client[c].msg \in Msgs
         /\ AuthRuns => client[c].user \in sessions \cup {NoUser}
<1>1. client[c] \in ClientRec
  BY MailTypes DEF MailInv
<1> QED BY <1>1 DEF Ready, NoClient, ClientRec, MailInv, CallsHonest, Honest

LEMMA OnlyClientsKeep ==
  ASSUME MailInv, OnlyClients
  PROVE  /\ UNCHANGED <<late, authVars, storageVars, transferVars, lifeVars, accepted>>
         /\ AcceptedKept'
BY AcceptedUnchanged DEF OnlyClients

\* The end of a session, and the answers that only go back to reading commands.
LEMMA BackToCommandsInv ==
  ASSUME MailInv, NEW c \in Clients,
         Quit(c) \/ AuthAnswered(c) \/ OtherAnswered(c) \/ CallRejected(c)
  PROVE  MailInv'
<1>1. CASE Quit(c)
  <2>1. client' = [client EXCEPT ![c] = [at |-> "closed", user |-> NoUser, msg |-> NoMsg, answer |-> 0]]
    <3>1. [NoClient EXCEPT !.at = "closed"]
            = [at |-> "closed", user |-> NoUser, msg |-> NoMsg, answer |-> 0]
      BY DEF NoClient
    <3> QED BY <1>1, <3>1 DEF Quit
  <2> QED BY <1>1, <2>1, OnlyClientsKeep, ReadyInv DEF Quit
<1>2. CASE OtherAnswered(c) \/ CallRejected(c)
  <2>1. client' = [client EXCEPT ![c] = Ready(c)] /\ OnlyClients
    BY <1>2 DEF OtherAnswered, CallRejected
  <2> QED BY <2>1, OnlyClientsKeep, ReadyInv, ReadyIs
<1>3. CASE AuthAnswered(c)
  <2>1. client[c].at = "answered" /\ client[c].msg.type = "AUTH" /\ OnlyClients
    BY <1>3 DEF AuthAnswered, Answered
  <2>2. CASE client[c].answer = 1
    <3>1. client[c].msg.user \in Users \cup {NoUser} /\ (AuthRuns => client[c].msg.user \in sessions)
      BY <2>1, <2>2, ReadyIs DEF MailInv, CallsHonest, Honest, Msgs
    <3>2. client' = [client EXCEPT ![c] = [at |-> "idle", user |-> client[c].msg.user, msg |-> NoMsg,
                                           answer |-> 0]]
      <4>1. [Ready(c) EXCEPT !.user = client[c].msg.user]
              = [at |-> "idle", user |-> client[c].msg.user, msg |-> NoMsg, answer |-> 0]
        BY ReadyIs
      <4> QED BY <1>3, <2>2, <4>1 DEF AuthAnswered
    <3> QED BY <2>1, <3>1, <3>2, OnlyClientsKeep, ReadyInv
  <2>3. CASE client[c].answer # 1
    <3>1. client' = [client EXCEPT ![c] = Ready(c)]
      BY <1>3, <2>3 DEF AuthAnswered
    <3> QED BY <2>1, <3>1, OnlyClientsKeep, ReadyInv, ReadyIs
  <2> QED BY <2>2, <2>3
<1> QED BY <1>1, <1>2, <1>3

LEMMA KeptIsId ==
  ASSUME MailInv, NEW id, NEW f, NEW t, KeptIn(mailStore, deleted, id, f, t)
  PROVE  id \in Ids
BY BoundsAssumption, MailTypes DEF MailInv, KeptIn, Ids

\* handleSend: MAIL_SEND is asked with the id that was stored.
LEMMA StoreAnsweredInv ==
  ASSUME MailInv, NEW c \in Clients, StoreAnswered(c)
  PROVE  MailInv'
<1>1. client[c].at = "answered" /\ client[c].msg.type = "STORE" /\ OnlyClients
  BY DEF StoreAnswered, Answered
<1>2. client[c] \in ClientRec /\ RequestSound(client[c].msg)
  BY MailTypes DEF MailInv, RequestsSound
<1>3. KeptIn(mailStore, deleted, client[c].answer, client[c].msg.user, client[c].msg.to)
  BY <1>1 DEF MailInv, CallsHonest, Honest
<1>4. /\ client[c].answer \in Ids
      /\ client[c].msg.user \in Users \cup {NoUser} /\ client[c].msg.to \in Users \cup {NoUser}
  BY <1>1, <1>2, <1>3, KeptIsId DEF RequestSound
<1>5. CASE running
  <2>1. Ask(c, "SEND", client[c].msg.user, client[c].msg.to, client[c].answer)
    BY <1>5 DEF StoreAnswered
  <2> QED BY <1>1, <1>3, <1>4, <2>1, Asked DEF MsgTypes, RequestSound
<1>6. CASE ~running
  <2>1. client' = [client EXCEPT ![c] = Ready(c)]
    BY <1>6 DEF StoreAnswered
  <2> QED BY <1>1, <2>1, OnlyClientsKeep, ReadyInv, ReadyIs
<1> QED BY <1>5, <1>6

LEMMA GaveUp ==
  ASSUME NEW c, GiveUp(c)
  PROVE  /\ client' = [client EXCEPT ![c] = Ready(c)]
         /\ UNCHANGED late \/ late' = late (+) SetToBag({client[c].msg})
BY DEF GiveUp

\* A call that fails or times out; MAIL_SEND reports the mail as accepted.
LEMMA CallReturnsInv ==
  ASSUME MailInv, NEW c \in Clients, SendReturns(c) \/ CallFails(c)
  PROVE  MailInv'
<1>1. GiveUp(c) /\ UNCHANGED <<authVars, storageVars, transferVars, lifeVars>>
  BY DEF SendReturns, CallFails
<1>2. CASE SendReturns(c)
  <2>1. KeptIn(mailStore, deleted, client[c].msg.id, client[c].msg.user, client[c].msg.to)
    BY <1>2 DEF SendReturns, Waiting, MailInv, CallsHonest, Honest
  <2>2. accepted' = accepted \cup {<<client[c].msg.id, client[c].msg.user, client[c].msg.to>>}
    BY <1>2 DEF SendReturns
  <2>3. AcceptedKept'
    BY <1>1, <2>1, <2>2 DEF MailInv, AcceptedKept, KeptIn, storageVars
  <2> QED BY <1>1, <2>3, GaveUp, ReadyInv, ReadyIs
<1>3. CASE CallFails(c)
  <2>1. AcceptedKept'
    BY <1>3, AcceptedUnchanged DEF CallFails
  <2> QED BY <1>1, <2>1, GaveUp, ReadyInv, ReadyIs
<1> QED BY <1>2, <1>3

----------------------------------------------------------------------------
(***************************************************************************)
(* Service threads                                                         *)
(***************************************************************************)
LEMMA HonestKept ==
  ASSUME NEW k, NEW store1, NEW gone1, NEW open1, NEW auth1,
         NEW store2, NEW gone2, NEW open2, NEW auth2,
         Honest(k, store1, gone1, open1, auth1),
         \A id, f, t : KeptIn(store1, gone1, id, f, t) => KeptIn(store2, gone2, id, f, t),
         auth2 => auth1 /\ open1 \subseteq open2
  PROVE  Honest(k, store2, gone2, open2, auth2)
BY DEF Honest

Source(src, m) ==
    /\ src \in Clients \cup {Late}
    /\ IF src = Late THEN BagIn(m, late) ELSE client[src].at = "sent" /\ client[src].msg = m

\* The request m of a source is handled: the connections and the requests of
\* those who gave up afterwards.
LEMMA Progressed ==
  ASSUME MailInv, NEW src, NEW m, Source(src, m), NEW at \in {"taken", "answered"}, NEW a \in Nat,
         Progress(src, m, at, a)
  PROVE  /\ client' \in [Clients -> ClientRec]
         /\ IsABag(late') /\ DOMAIN late' \subseteq DOMAIN late
         /\ m \in Msgs /\ RequestSound(m)
         /\ \A d \in Clients :
               \/ client'[d] = client[d]
               \/ /\ client[d].at = "sent" /\ client[d].msg = m
                  /\ client'[d].at = at /\ client'[d].answer = a
                  /\ client'[d].msg = m /\ client'[d].user = client[d].user
<1>1. client \in [Clients -> ClientRec] /\ IsABag(late) /\ DOMAIN late \subseteq Msgs
  BY MailTypes DEF MailInv
<1>2. CASE src = Late
  <2>1. UNCHANGED client /\ late' = late (-) SetToBag({m})
    BY <1>2 DEF Progress
  <2>2. IsABag(late') /\ DOMAIN late' \subseteq DOMAIN late
    BY <1>1, <2>1, BagMinus
  <2>3. m \in DOMAIN late
    BY <1>2 DEF Source, BagIn, BagToSet
  <2> QED BY <1>1, <2>1, <2>2, <2>3 DEF MailInv, RequestsSound
<1>3. CASE src # Late
  <2>1. src \in Clients /\ client[src].at = "sent" /\ client[src].msg = m /\ client[src] \in ClientRec
    BY <1>1, <1>3 DEF Source
  <2> DEFINE j == [client[src] EXCEPT !.at = at]
             k == [j EXCEPT !.answer = a]
  <2>2. client' = [client EXCEPT ![src] = k] /\ UNCHANGED late
    BY <1>1, <1>3, Zenon DEF Progress
  <2>3. j \in ClientRec /\ j.at = at /\ j.msg = m /\ j.user = client[src].user
    BY <2>1 DEF ClientRec
  <2> HIDE DEF j
  <2>4. k \in ClientRec /\ k.at = at /\ k.msg = m /\ k.user = client[src].user /\ k.answer = a
    BY <2>3 DEF ClientRec
  <2> HIDE DEF k
  <2>5. m \in Msgs /\ RequestSound(m)
    BY <2>1 DEF ClientRec, MailInv, RequestsSound
  <2> QED BY <1>1, <2>1, <2>2, <2>4, <2>5
<1> QED BY <1>2, <1>3

\* A service may leave its loop when it takes a message; none comes back.
LEMMA Taken ==
  ASSUME MailInv, NEW s \in Services, NEW src, NEW m, NEW types, Take(s, src, m, types)
  PROVE  /\ service' \in [Services -> {"running", "stopping", "exited"}]
         /\ AuthRuns' <=> AuthRuns
         /\ processing' <=> processing
<1>1. service \in [Services -> {"running", "stopping", "exited"}]
  BY MailTypes DEF MailInv
<1>2. service' = [service EXCEPT ![s] = IF service[s] = "stopping" THEN "exited" ELSE service[s]]
  BY DEF Take
<1> QED BY <1>1, <1>2 DEF AuthRuns, processing, Services

LEMMA TransferKept ==
  ASSUME MailInv, UNCHANGED transferVars, processing' <=> processing
  PROVE  StatusTruthful' /\ TasksOnce'
BY DEF MailInv, transferVars, StatusTruthful, TasksOnce, WorkerStates, Tasks

LEMMA IndexKept ==
  ASSUME MailInv, UNCHANGED storageVars
  PROVE  /\ Indexed' /\ IndexMatchesStore'
         /\ DOMAIN mailStore' \subseteq 1 .. mailIdGenerator' - 1
         /\ \A id \in DOMAIN mailStore' : mailStore'[id] \in [from : Users, to : Users]
         /\ mailIdGenerator' \in 1 .. MaxMails + 1 /\ deleted' \subseteq Ids
         /\ \A id, f, t : KeptIn(mailStore, deleted, id, f, t) => KeptIn(mailStore', deleted', id, f, t)
<1>1. UNCHANGED <<mailStore, userMailIndex, mailIdGenerator, deleted>>
  BY DEF storageVars
<1>2. Indexed' /\ IndexMatchesStore'
  BY <1>1 DEF MailInv, Indexed, IndexMatchesStore
<1> QED BY <1>1, <1>2, MailTypes DEF MailInv

\* What any handler leaves true, given what it did to the maps and sessions.
LEMMA HandledInv ==
  ASSUME MailInv, NEW src, NEW m, Source(src, m), NEW at \in {"taken", "answered"}, NEW a \in Nat,
         Progress(src, m, at, a),
         at = "taken" => m.type = "SEND",
         at = "answered" /\ m.type = "STORE" => KeptIn(mailStore', deleted', a, m.user, m.to),
         at = "answered" /\ m.type = "AUTH" /\ a = 1 => m.user \in sessions',
         sessions \subseteq sessions', AuthRuns' <=> AuthRuns,
         \A id, f, t : KeptIn(mailStore, deleted, id, f, t) => KeptIn(mailStore', deleted', id, f, t),
         UNCHANGED accepted
  PROVE  RequestsSound' /\ CallsHonest' /\ AcceptedKept'
<1>1. /\ IsABag(late') /\ DOMAIN late' \subseteq DOMAIN late
      /\ m \in Msgs /\ RequestSound(m)
      /\ \A d \in Clients :
               \/ client'[d] = client[d]
               \/ /\ client[d].at = "sent" /\ client[d].msg = m
                  /\ client'[d].at = at /\ client'[d].answer = a
                  /\ client'[d].msg = m /\ client'[d].user = client[d].user
  BY Progressed
<1>2. RequestsSound'
  <2>1. \A d \in Clients : RequestSound(client'[d].msg)
    BY <1>1 DEF MailInv, RequestsSound
  <2>2. \A x \in DOMAIN late' : RequestSound(x)
    BY <1>1 DEF MailInv, RequestsSound
  <2> QED BY <2>1, <2>2 DEF RequestsSound, RequestSound
<1>3. CallsHonest'
  <2> SUFFICES ASSUME NEW d \in Clients
               PROVE  Honest(client'[d], mailStore', deleted', sessions', AuthRuns')
    BY DEF CallsHonest
  <2>1. Honest(client[d], mailStore, deleted, sessions, AuthRuns)
    BY DEF MailInv, CallsHonest
  <2>2. Honest(client[d], mailStore', deleted', sessions', AuthRuns')
    BY <2>1, HonestKept
  <2>3. CASE client'[d] = client[d]
    BY <2>2, <2>3, Zenon
  <2>4. CASE /\ client[d].at = "sent" /\ client[d].msg = m
             /\ client'[d].at = at /\ client'[d].answer = a
             /\ client'[d].msg = m /\ client'[d].user = client[d].user
    BY <2>2, <2>4 DEF Honest
  <2> QED BY <1>1, <2>3, <2>4
<1>4. AcceptedKept'
  BY DEF MailInv, AcceptedKept
<1> QED BY <1>2, <1>3, <1>4

LEMMA SourceSound ==
  ASSUME MailInv, NEW src, NEW m, Source(src, m)
  PROVE  m \in Msgs /\ RequestSound(m)
<1>1. CASE src = Late
  BY <1>1, MailTypes DEF Source, BagIn, BagToSet, MailInv, RequestsSound
<1>2. CASE src # Late
  <2>1. client[src] \in ClientRec
    BY <1>2, MailTypes DEF MailInv, Source
  <2> QED BY <1>2, <2>1 DEF Source, ClientRec, MailInv, RequestsSound
<1> QED BY <1>1, <1>2

LEMMA AuthRequestInv ==
  ASSUME MailInv, NEW src, NEW m, src \in Clients \cup {Late}, handleAuthRequest(src, m)
  PROVE  MailInv'
<1> DEFINE s == "Authentication"
<1>1. /\ Take(s, src, m, {"AUTH"}) /\ Source(src, m) /\ m.type = "AUTH"
      /\ Progress(src, m, "answered", m.id)
      /\ sessions' = (IF m.id = 1 THEN sessions \cup {m.user} ELSE sessions)
      /\ expired' = (IF m.id = 1 THEN expired \ {m.user} ELSE expired)
      /\ UNCHANGED <<storageVars, transferVars, running, accepted>>
  BY DEF handleAuthRequest, Take, Source, Answer
<1>2. /\ service' \in [Services -> {"running", "stopping", "exited"}]
      /\ (AuthRuns' <=> AuthRuns) /\ (processing' <=> processing)
  BY <1>1, Taken DEF Services
<1>3. m \in Msgs /\ RequestSound(m)
  BY <1>1, SourceSound
<1>4. m.user \in Users /\ m.id \in Nat
  BY <1>1, <1>3, BoundsAssumption DEF RequestSound, Msgs, Ids
<1>5. /\ client' \in [Clients -> ClientRec]
      /\ IsABag(late') /\ DOMAIN late' \subseteq DOMAIN late
  BY <1>1, <1>4, Progressed
<1>6. RequestsSound' /\ CallsHonest' /\ AcceptedKept'
  <2>1. m.id = 1 => m.user \in sessions'
    BY <1>1
  <2>2. sessions \subseteq sessions'
    BY <1>1
  <2>3. \A id, f, t : KeptIn(mailStore, deleted, id, f, t) => KeptIn(mailStore', deleted', id, f, t)
    BY <1>1, IndexKept
  <2>4. UNCHANGED accepted
    BY <1>1
  <2> QED BY <1>1, <1>2, <1>4, <2>1, <2>2, <2>3, <2>4, HandledInv
<1>7. TypeOK'
  BY <1>1, <1>2, <1>4, <1>5, MailTypes DEF MailInv, TypeOK, ClientRec, Msgs, Ids, Services, storageVars,
     transferVars
<1>8. Indexed' /\ IndexMatchesStore' /\ StatusTruthful' /\ TasksOnce'
  BY <1>1, <1>2, IndexKept, TransferKept
<1> QED BY <1>6, <1>7, <1>8 DEF MailInv

\* The requests that only read the maps of MailStorageService.
LEMMA ReadRequestInv ==
  ASSUME MailInv, NEW src, NEW m, src \in Clients \cup {Late},
         handleMailRetrieve(src, m) \/ handleMailList(src, m)
  PROVE  MailInv'
<1> DEFINE s == "MailStorage"
<1>1. /\ Take(s, src, m, {m.type}) /\ Source(src, m) /\ m.type \in {"RETRIEVE", "LIST"}
      /\ UNCHANGED <<authVars, storageVars, transferVars, running, accepted>>
  BY DEF handleMailRetrieve, handleMailList, Take, Source
<1>2. /\ service' \in [Services -> {"running", "stopping", "exited"}]
      /\ (AuthRuns' <=> AuthRuns) /\ (processing' <=> processing)
  BY <1>1, Taken DEF Services
<1>3. m \in Msgs /\ RequestSound(m)
  BY <1>1, SourceSound
<1>4. PICK a \in Nat : Progress(src, m, "answered", a)
  <2>1. CASE handleMailRetrieve(src, m)
    BY <2>1 DEF handleMailRetrieve, Answer
  <2>2. CASE handleMailList(src, m)
    <3> DEFINE listed == {k \in DOMAIN userMailIndex[m.user] :
                           k <= ListLimit /\ userMailIndex[m.user][k] \in DOMAIN mailStore}
    <3>1. m.user \in Users
      BY <1>3, <2>2 DEF handleMailList, Take, RequestSound
    <3>2. userMailIndex[m.user] \in Seq(Nat)
      BY <3>1 DEF MailInv, Indexed
    <3>3. listed \subseteq 1 .. Len(userMailIndex[m.user]) /\ Len(userMailIndex[m.user]) \in Nat
      BY <3>2
    <3>4. IsFiniteSet(listed)
      BY <3>3, FS_Interval, FS_Subset
    <3>5. Cardinality(listed) \in Nat
      BY <3>4, FS_CardinalityType
    <3>6. Progress(src, m, "answered", Cardinality(listed))
      BY <2>2 DEF handleMailList, Answer
    <3> QED BY <3>5, <3>6
  <2> QED BY <2>1, <2>2
<1>5. /\ client' \in [Clients -> ClientRec]
      /\ IsABag(late') /\ DOMAIN late' \subseteq DOMAIN late
  BY <1>1, <1>4, Progressed
<1>6. RequestsSound' /\ CallsHonest' /\ AcceptedKept'
  <2>1. sessions \subseteq sessions' /\ UNCHANGED accepted
    BY <1>1
  <2>2. \A id, f, t : KeptIn(mailStore, deleted, id, f, t) => KeptIn(mailStore', deleted', id, f, t)
    BY <1>1, IndexKept
  <2>3. m.type # "STORE" /\ m.type # "AUTH"
    BY <1>1
  <2> QED BY <1>1, <1>2, <1>4, <2>1, <2>2, <2>3, HandledInv
<1>7. TypeOK'
  BY <1>1, <1>2, <1>5, MailTypes DEF MailInv, TypeOK, ClientRec, Msgs, Ids, Services, storageVars,
     transferVars
<1>8. Indexed' /\ IndexMatchesStore' /\ StatusTruthful' /\ TasksOnce'
  BY <1>1, <1>2, IndexKept, TransferKept
<1> QED BY <1>6, <1>7, <1>8 DEF MailInv

\* The new id is above all ids in store and index: it replaces no mail and
\* comes last in its addressee's list.
LEMMA StoreRequestInv ==
  ASSUME MailInv, NEW src, NEW m, src \in Clients \cup {Late}, handleMailStore(src, m)
  PROVE  MailInv'
<1> DEFINE s == "MailStorage"
           n == mailIdGenerator
           r == [from |-> m.user, to |-> m.to]
<1>1. /\ Take(s, src, m, {"STORE"}) /\ Source(src, m) /\ m.type = "STORE" /\ n <= MaxMails
      /\ Progress(src, m, "answered", n)
      /\ mailStore' = Put(mailStore, n, r)
      /\ userMailIndex' = [userMailIndex EXCEPT ![m.to] = Append(userMailIndex[m.to], n)]
      /\ mailIdGenerator' = n + 1
      /\ UNCHANGED <<authVars, deleted, transferVars, running, accepted>>
  BY DEF handleMailStore, Take, Source, Answer, NextMailId
<1>2. /\ service' \in [Services -> {"running", "stopping", "exited"}]
      /\ (AuthRuns' <=> AuthRuns) /\ (processing' <=> processing)
  BY <1>1, Taken DEF Services
<1>3. m.user \in Users /\ m.to \in Users
  BY <1>1, SourceSound DEF RequestSound
<1>4. /\ n \in 1 .. MaxMails /\ n \in Nat /\ DOMAIN mailStore \subseteq 1 .. n - 1
      /\ \A id \in DOMAIN mailStore : mailStore[id] \in [from : Users, to : Users]
  BY <1>1, BoundsAssumption, MailTypes DEF MailInv
<1>5. /\ DOMAIN mailStore' = DOMAIN mailStore \cup {n} /\ mailStore'[n] = r
      /\ \A id \in DOMAIN mailStore : id # n /\ mailStore'[id] = mailStore[id]
  <2>1. \A id \in DOMAIN mailStore : id # n
    BY <1>4
  <2>2. mailStore' = Put(mailStore, n, r)
    BY <1>1
  <2> HIDE DEF r, n
  <2>3. /\ DOMAIN Put(mailStore, n, r) = DOMAIN mailStore \cup {n} /\ Put(mailStore, n, r)[n] = r
        /\ \A y \in DOMAIN mailStore : y # n => Put(mailStore, n, r)[y] = mailStore[y]
    BY DEF Put
  <2> QED BY <2>1, <2>2, <2>3
<1>6. r \in [from : Users, to : Users] /\ r.from = m.user /\ r.to = m.to
  BY <1>3
<1> HIDE DEF r
<1>7. \A id, f, t : KeptIn(mailStore, deleted, id, f, t) => KeptIn(mailStore', deleted', id, f, t)
  BY <1>1, <1>5 DEF KeptIn
<1>8. /\ client' \in [Clients -> ClientRec]
      /\ IsABag(late') /\ DOMAIN late' \subseteq DOMAIN late
  BY <1>1, <1>4, Progressed
<1>9. RequestsSound' /\ CallsHonest' /\ AcceptedKept'
  <2>1. sessions \subseteq sessions' /\ UNCHANGED accepted
    BY <1>1
  <2>2. KeptIn(mailStore', deleted', n, m.user, m.to)
    BY <1>5, <1>6 DEF KeptIn
  <2>3. m.type # "AUTH" /\ m.type = "STORE"
    BY <1>1
  <2> HIDE DEF n
  <2> QED BY <1>1, <1>2, <1>4, <1>7, <2>1, <2>2, <2>3, HandledInv
<1>10. TypeOK'
  BY <1>1, <1>2, <1>4, <1>5, <1>6, <1>8, MailTypes, BoundsAssumption DEF MailInv, TypeOK, ClientRec, Msgs,
     Ids, Services, transferVars
<1>11. /\ userMailIndex \in [Users -> Seq(Nat)]
       /\ \A u \in Users : Range(userMailIndex[u]) = {id \in DOMAIN mailStore : mailStore[id].to = u}
       /\ \A u \in Users : \A j, k \in DOMAIN userMailIndex[u] :
             j < k => userMailIndex[u][j] < userMailIndex[u][k]
  BY DEF MailInv, Indexed, IndexMatchesStore
<1>12. /\ userMailIndex' \in [Users -> Seq(Nat)]
       /\ userMailIndex'[m.to] = Append(userMailIndex[m.to], n)
       /\ \A u \in Users \ {m.to} : userMailIndex'[u] = userMailIndex[u]
  BY <1>1, <1>3, <1>4, <1>11
<1>13. IndexMatchesStore'
  <2>1. ASSUME NEW u \in Users \ {m.to}
        PROVE  /\ Range(userMailIndex'[u]) = {id \in DOMAIN mailStore' : mailStore'[id].to = u}
               /\ \A j, k \in DOMAIN userMailIndex'[u] :
                     j < k => userMailIndex'[u][j] < userMailIndex'[u][k]
    BY <1>5, <1>6, <1>11, <1>12
  <2> DEFINE q == userMailIndex[m.to]
  <2>2. /\ q \in Seq(Nat) /\ Len(q) \in Nat /\ DOMAIN q = 1 .. Len(q)
        /\ Append(q, n) \in Seq(Nat) /\ DOMAIN Append(q, n) = 1 .. Len(q) + 1
        /\ \A k \in 1 .. Len(q) : Append(q, n)[k] = q[k]
        /\ Append(q, n)[Len(q) + 1] = n
    BY <1>3, <1>4, <1>11
  <2>3. \A k \in 1 .. Len(q) : q[k] \in DOMAIN mailStore /\ q[k] < n /\ mailStore[q[k]].to = m.to
    <3>1. \A k \in 1 .. Len(q) : q[k] \in Range(q)
      BY <2>2 DEF Range
    <3> QED BY <1>3, <1>4, <1>11, <3>1
  <2>4. \A id \in DOMAIN mailStore : mailStore[id].to = m.to => \E k \in 1 .. Len(q) : q[k] = id
    BY <1>3, <1>11, <2>2 DEF Range
  <2> HIDE DEF q
  <2>5. Range(Append(q, n)) = {id \in DOMAIN mailStore' : mailStore'[id].to = m.to}
    <3>1. ASSUME NEW id \in Range(Append(q, n))
          PROVE  id \in DOMAIN mailStore' /\ mailStore'[id].to = m.to
      <4>1. PICK k \in 1 .. Len(q) + 1 : id = Append(q, n)[k]
        BY <2>2, <3>1 DEF Range
      <4>2. CASE k \in 1 .. Len(q)
        BY <1>5, <2>2, <2>3, <4>1, <4>2
      <4>3. CASE k = Len(q) + 1
        BY <1>5, <1>6, <2>2, <4>1, <4>3
      <4> QED BY <2>2, <4>1, <4>2, <4>3
    <3>2. ASSUME NEW id \in DOMAIN mailStore', mailStore'[id].to = m.to
          PROVE  \E k \in 1 .. Len(q) + 1 : id = Append(q, n)[k]
      <4>1. CASE id = n
        BY <2>2, <4>1
      <4>2. CASE id \in DOMAIN mailStore
        BY <1>5, <2>2, <2>4, <3>2, <4>2
      <4> QED BY <1>5, <3>2, <4>1, <4>2
    <3> QED BY <2>2, <3>1, <3>2 DEF Range
  <2>6. \A j, k \in 1 .. Len(q) + 1 : j < k => Append(q, n)[j] < Append(q, n)[k]
    <3> SUFFICES ASSUME NEW j \in 1 .. Len(q) + 1, NEW k \in 1 .. Len(q) + 1, j < k
                 PROVE  Append(q, n)[j] < Append(q, n)[k]
      OBVIOUS
    <3>1. CASE k \in 1 .. Len(q)
      <4>1. j \in 1 .. Len(q)
        BY <2>2, <3>1
      <4> QED BY <1>3, <1>11, <2>2, <3>1, <4>1 DEF q
    <3>2. CASE k = Len(q) + 1
      BY <2>2, <2>3, <3>2
    <3> QED BY <2>2, <3>1, <3>2
  <2> QED BY <1>12, <2>1, <2>2, <2>5, <2>6 DEF IndexMatchesStore, q
<1>14. Indexed' /\ StatusTruthful' /\ TasksOnce'
  BY <1>1, <1>2, <1>12, TransferKept DEF Indexed
<1> QED BY <1>9, <1>10, <1>13, <1>14 DEF MailInv

LEMMA RemoveAtFacts ==
  ASSUME NEW q \in Seq(Nat), NEW i \in 1 .. Len(q)
  PROVE  /\ RemoveAt(q, i) \in Seq(Nat) /\ Len(RemoveAt(q, i)) = Len(q) - 1
         /\ \A k \in 1 .. Len(q) - 1 : RemoveAt(q, i)[k] = IF k < i THEN q[k] ELSE q[k + 1]
<1> DEFINE before == SubSeq(q, 1, i - 1)
           after == SubSeq(q, i + 1, Len(q))
<1>1. /\ before \in Seq(Nat) /\ Len(before) = i - 1
      /\ \A k \in 1 .. i - 1 : before[k] = q[k]
  OBVIOUS
<1>2. /\ after \in Seq(Nat) /\ Len(after) = Len(q) - i
      /\ \A k \in 1 .. Len(q) - i : after[k] = q[i + k]
  OBVIOUS
<1>3. RemoveAt(q, i) = before \o after
  BY DEF RemoveAt
<1>4. i \in Nat /\ Len(q) \in Nat
  OBVIOUS
<1> HIDE DEF before, after
<1>5. /\ before \o after \in Seq(Nat) /\ Len(before \o after) = Len(q) - 1
      /\ \A k \in 1 .. Len(q) - 1 :
            (before \o after)[k] = IF k <= i - 1 THEN before[k] ELSE after[k - (i - 1)]
  <2>1. /\ before \o after \in Seq(Nat) /\ Len(before \o after) = Len(before) + Len(after)
        /\ \A k \in 1 .. Len(before) + Len(after) :
              (before \o after)[k] = IF k <= Len(before) THEN before[k] ELSE after[k - Len(before)]
    BY <1>1, <1>2, ConcatProperties
  <2>2. Len(before) + Len(after) = Len(q) - 1
    BY <1>1, <1>2, <1>4
  <2> QED BY <1>1, <2>1, <2>2
<1>6. ASSUME NEW k \in 1 .. Len(q) - 1
      PROVE  (before \o after)[k] = IF k < i THEN q[k] ELSE q[k + 1]
  <2>1. CASE k < i
    BY <1>1, <1>4, <1>5, <2>1
  <2>2. CASE ~(k < i)
    <3>1. PICK x \in 1 .. Len(q) - i : x = k - (i - 1)
      BY <1>4, <2>2
    <3>2. i + x = k + 1 /\ ~(k <= i - 1)
      BY <1>4, <2>2, <3>1
    <3>3. after[x] = q[k + 1]
      BY <1>2, <3>2
    <3> QED BY <1>5, <2>2, <3>1, <3>2, <3>3
  <2> QED BY <2>1, <2>2
<1> QED BY <1>3, <1>5, <1>6

\* List.remove(mailId) on a list of different ids: the others stay, in order.
LEMMA RemoveIdFacts ==
  ASSUME NEW q \in Seq(Nat), NEW i \in 1 .. Len(q),
         \A j, k \in 1 .. Len(q) : j < k => q[j] < q[k]
  PROVE  RemoveId(q, q[i]) = RemoveAt(q, i)
<1>1. \A j \in 1 .. Len(q) : q[j] = q[i] <=> j = i
  <2> SUFFICES ASSUME NEW j \in 1 .. Len(q), q[j] = q[i] PROVE j = i
    OBVIOUS
  <2>1. q[j] \in Nat /\ q[i] \in Nat /\ j \in Nat /\ i \in Nat
    OBVIOUS
  <2>2. ~(j < i) /\ ~(i < j)
    BY <2>1
  <2> QED BY <2>1, <2>2
<1> DEFINE I == {j \in 1 .. Len(q) : q[j] = q[i]}
<1>2. I = {i}
  BY <1>1
<1>3. SelectInSeq(q, LAMBDA v : v = q[i]) = IF I # {} THEN Min(I) ELSE 0
  BY Zenon DEF SelectInSeq
<1>4. Min({i}) = i
  BY DEF Min
<1>5. SelectInSeq(q, LAMBDA v : v = q[i]) = i
  BY <1>2, <1>3, <1>4
<1> QED BY <1>5, Zenon DEF RemoveId, RemoveFirst

LEMMA DeleteRequestInv ==
  ASSUME MailInv, NEW src, NEW m, src \in Clients \cup {Late}, handleMailDelete(src, m)
  PROVE  MailInv'
<1> DEFINE s == "MailStorage"
           a == IF m.id \in DOMAIN mailStore THEN 1 ELSE 0
<1>1. /\ Take(s, src, m, {"DELETE"}) /\ Source(src, m) /\ m.type = "DELETE"
      /\ Progress(src, m, "answered", a)
      /\ UNCHANGED <<authVars, mailIdGenerator, transferVars, running, accepted>>
  BY DEF handleMailDelete, Take, Source, Answer
<1>2. /\ service' \in [Services -> {"running", "stopping", "exited"}]
      /\ (AuthRuns' <=> AuthRuns) /\ (processing' <=> processing)
  BY <1>1, Taken DEF Services
<1>3. /\ client' \in [Clients -> ClientRec]
      /\ IsABag(late') /\ DOMAIN late' \subseteq DOMAIN late
  BY <1>1, Progressed
<1>4. /\ userMailIndex \in [Users -> Seq(Nat)]
      /\ \A u \in Users : Range(userMailIndex[u]) = {id \in DOMAIN mailStore : mailStore[id].to = u}
      /\ \A u \in Users : \A j, k \in DOMAIN userMailIndex[u] :
            j < k => userMailIndex[u][j] < userMailIndex[u][k]
  BY DEF MailInv, Indexed, IndexMatchesStore
<1>5. /\ DOMAIN mailStore \subseteq 1 .. mailIdGenerator - 1 /\ DOMAIN mailStore \subseteq Ids
      /\ mailIdGenerator \in 1 .. MaxMails + 1 /\ deleted \subseteq Ids
      /\ \A id \in DOMAIN mailStore : mailStore[id] \in [from : Users, to : Users]
  BY MailTypes, BoundsAssumption DEF MailInv, Ids
<1>6. CASE m.id \notin DOMAIN mailStore
  <2>1. UNCHANGED storageVars
    BY <1>1, <1>6 DEF handleMailDelete, storageVars
  <2>2. RequestsSound' /\ CallsHonest' /\ AcceptedKept'
    <3>1. sessions \subseteq sessions' /\ UNCHANGED accepted /\ m.type # "STORE" /\ m.type # "AUTH"
      BY <1>1
    <3>2. \A id, f, t : KeptIn(mailStore, deleted, id, f, t) => KeptIn(mailStore', deleted', id, f, t)
      BY <2>1, IndexKept
    <3>3. a \in Nat
      OBVIOUS
    <3> HIDE DEF a
    <3> QED BY <1>1, <1>2, <3>1, <3>2, <3>3, HandledInv
  <2>3. TypeOK'
    BY <1>1, <1>2, <1>3, <2>1, MailTypes DEF MailInv, TypeOK, ClientRec, Msgs, Ids, Services, storageVars,
       transferVars
  <2>4. Indexed' /\ IndexMatchesStore' /\ StatusTruthful' /\ TasksOnce'
    BY <1>1, <1>2, <2>1, IndexKept, TransferKept
  <2> QED BY <2>2, <2>3, <2>4 DEF MailInv
<1>7. CASE m.id \in DOMAIN mailStore
  <2> DEFINE u == mailStore[m.id].to
             q == userMailIndex[u]
  <2>1. /\ mailStore' = Restrict(mailStore, DOMAIN mailStore \ {m.id})
        /\ userMailIndex' = [userMailIndex EXCEPT ![u] = RemoveId(q, m.id)]
        /\ deleted' = deleted \cup {m.id}
    BY <1>1, <1>7 DEF handleMailDelete
  <2>2. /\ DOMAIN mailStore' = DOMAIN mailStore \ {m.id}
        /\ \A id \in DOMAIN mailStore' : mailStore'[id] = mailStore[id]
    BY <2>1 DEF Restrict
  <2>3. u \in Users /\ q \in Seq(Nat) /\ m.id \in Range(q)
    BY <1>4, <1>5, <1>7
  <2>4. DOMAIN q = 1 .. Len(q) /\ Len(q) \in Nat
        /\ \A j, k \in 1 .. Len(q) : j < k => q[j] < q[k]
    BY <1>4, <2>3
  <2>5. PICK i \in 1 .. Len(q) : m.id = q[i]
    BY <2>3, <2>4 DEF Range
  <2> DEFINE r == RemoveAt(q, i)
  <2>6. /\ r \in Seq(Nat) /\ Len(r) = Len(q) - 1 /\ DOMAIN r = 1 .. Len(q) - 1
        /\ \A k \in 1 .. Len(q) - 1 : r[k] = IF k < i THEN q[k] ELSE q[k + 1]
    <3> HIDE DEF q
    <3>1. /\ r \in Seq(Nat) /\ Len(r) = Len(q) - 1
          /\ \A k \in 1 .. Len(q) - 1 : r[k] = IF k < i THEN q[k] ELSE q[k + 1]
      BY <2>3, <2>4, RemoveAtFacts
    <3> HIDE DEF r
    <3>2. DOMAIN r = 1 .. Len(r)
      BY <3>1
    <3> QED BY <3>1, <3>2
  <2>7. RemoveId(q, m.id) = r
    BY <2>3, <2>4, <2>5, RemoveIdFacts
  <2>8. Range(q) = {id \in DOMAIN mailStore : mailStore[id].to = u}
    BY <1>4, <2>3
  <2> HIDE DEF r
  <2>9. /\ userMailIndex' \in [Users -> Seq(Nat)] /\ userMailIndex'[u] = r
        /\ \A x \in Users \ {u} : userMailIndex'[x] = userMailIndex[x]
    BY <1>4, <2>1, <2>3, <2>6, <2>7
  <2>10. IndexMatchesStore'
    <3>1. ASSUME NEW x \in Users \ {u}
          PROVE  /\ Range(userMailIndex'[x]) = {id \in DOMAIN mailStore' : mailStore'[id].to = x}
                 /\ \A j, k \in DOMAIN userMailIndex'[x] :
                       j < k => userMailIndex'[x][j] < userMailIndex'[x][k]
      BY <1>4, <2>2, <2>9
    <3> HIDE DEF q, u
    <3>2. Range(r) = {id \in DOMAIN mailStore' : mailStore'[id].to = u}
      <4>1. Range(r) = Range(q) \ {q[i]}
        <5>1. ASSUME NEW k \in 1 .. Len(q) - 1 PROVE r[k] \in Range(q) \ {q[i]}
          <6>1. CASE k < i
            <7>1. k \in 1 .. Len(q) /\ r[k] = q[k]
              BY <2>4, <2>6, <6>1
            <7>2. q[k] < q[i] /\ q[k] \in Nat /\ q[i] \in Nat
              BY <2>3, <2>4, <6>1, <7>1
            <7> QED BY <2>4, <7>1, <7>2 DEF Range
          <6>2. CASE ~(k < i)
            <7>1. k + 1 \in 1 .. Len(q) /\ r[k] = q[k + 1] /\ i < k + 1
              BY <2>4, <2>6, <6>2
            <7>2. q[i] < q[k + 1] /\ q[k + 1] \in Nat /\ q[i] \in Nat
              BY <2>3, <2>4, <7>1
            <7> QED BY <2>4, <7>1, <7>2 DEF Range
          <6> QED BY <6>1, <6>2
        <5>2. ASSUME NEW j \in 1 .. Len(q), q[j] # q[i]
              PROVE  \E k \in 1 .. Len(q) - 1 : r[k] = q[j]
          <6>1. CASE j < i
            <7>1. j \in 1 .. Len(q) - 1
              BY <2>4, <6>1
            <7> QED BY <2>6, <6>1, <7>1
          <6>2. CASE i < j
            <7>1. PICK k \in 1 .. Len(q) - 1 : j = k + 1 /\ ~(k < i)
              <8>1. j - 1 \in 1 .. Len(q) - 1 /\ j = (j - 1) + 1 /\ ~(j - 1 < i)
                BY <2>4, <6>2
              <8> QED BY <8>1
            <7> QED BY <2>6, <7>1
          <6> QED BY <2>4, <5>2, <6>1, <6>2
        <5>3. Range(r) = {r[k] : k \in 1 .. Len(q) - 1} /\ Range(q) = {q[k] : k \in 1 .. Len(q)}
          BY <2>4, <2>6 DEF Range
        <5>4. Range(r) \subseteq Range(q) \ {q[i]}
          BY <5>1, <5>3
        <5>5. Range(q) \ {q[i]} \subseteq Range(r)
          BY <5>2, <5>3
        <5> QED BY <5>4, <5>5
      <4> QED BY <2>2, <2>5, <2>8, <4>1
    <3>3. \A j, k \in 1 .. Len(q) - 1 : j < k => r[j] < r[k]
      <4> SUFFICES ASSUME NEW j \in 1 .. Len(q) - 1, NEW k \in 1 .. Len(q) - 1, j < k
                   PROVE  r[j] < r[k]
        OBVIOUS
      <4>1. PICK x \in 1 .. Len(q) : r[j] = q[x] /\ x = IF j < i THEN j ELSE j + 1
        <5>1. CASE j < i
          BY <2>4, <2>6, <5>1
        <5>2. CASE ~(j < i)
          BY <2>4, <2>6, <5>2
        <5> QED BY <5>1, <5>2
      <4>2. PICK y \in 1 .. Len(q) : r[k] = q[y] /\ y = IF k < i THEN k ELSE k + 1
        <5>1. CASE k < i
          BY <2>4, <2>6, <5>1
        <5>2. CASE ~(k < i)
          BY <2>4, <2>6, <5>2
        <5> QED BY <5>1, <5>2
      <4>3. x < y
        BY <2>4, <4>1, <4>2
      <4> QED BY <2>4, <4>1, <4>2, <4>3
    <3> QED BY <2>6, <2>9, <3>1, <3>2, <3>3 DEF IndexMatchesStore
  <2>11. \A id, f, t : KeptIn(mailStore, deleted, id, f, t) => KeptIn(mailStore', deleted', id, f, t)
    BY <2>1, <2>2 DEF KeptIn
  <2>12. RequestsSound' /\ CallsHonest' /\ AcceptedKept'
    <3>1. sessions \subseteq sessions' /\ UNCHANGED accepted /\ m.type # "STORE" /\ m.type # "AUTH"
      BY <1>1
    <3>2. a \in Nat
      OBVIOUS
    <3> HIDE DEF a
    <3> QED BY <1>1, <1>2, <2>11, <3>1, <3>2, HandledInv
  <2>13. TypeOK'
    <3>1. deleted' \subseteq Ids
      BY <1>5, <1>7, <2>1
    <3> QED BY <1>1, <1>2, <1>3, <1>5, <2>2, <3>1, MailTypes DEF MailInv, TypeOK, ClientRec, Msgs, Ids,
         Services, transferVars
  <2>14. Indexed' /\ StatusTruthful' /\ TasksOnce'
    BY <1>1, <1>2, <2>9, TransferKept DEF Indexed
  <2> QED BY <2>10, <2>12, <2>13, <2>14 DEF MailInv
<1> QED BY <1>6, <1>7

----------------------------------------------------------------------------
(***************************************************************************)
(* Transfers                                                               *)
(***************************************************************************)
LEMMA TasksType ==
  ASSUME MailInv
  PROVE  /\ taskIdGenerator \in Nat \ {0} /\ taskIdGenerator \in 1 .. MaxTasks + 1
         /\ DOMAIN statusMap \subseteq Tasks /\ sent \subseteq Tasks
         /\ posting \in 0 .. taskIdGenerator - 1
         /\ sendQueue \in Seq(Tasks) /\ Len(sendQueue) \in Nat
         /\ \A k \in 1 .. Len(sendQueue) : sendQueue[k] \in Tasks
BY BoundsAssumption, MailTypes DEF MailInv, TasksOnce, Tasks

\* A new task has the next number.
LEMMA QueueTaskInv ==
  ASSUME MailInv, NEW src, NEW m, src \in Clients \cup {Late}, QueueTask(src, m)
  PROVE  MailInv'
<1> DEFINE s == "MailTransfer"
           n == taskIdGenerator
<1>1. /\ Take(s, src, m, {"SEND"}) /\ Source(src, m) /\ m.type = "SEND"
      /\ posting = 0 /\ n <= MaxTasks
      /\ sendQueue' = Append(sendQueue, n) /\ posting' = n /\ taskIdGenerator' = n + 1
      /\ Progress(src, m, "taken", 0)
      /\ UNCHANGED <<authVars, storageVars, statusMap, worker, sent, running, accepted>>
  BY DEF QueueTask, Take, Source
<1>2. /\ service' \in [Services -> {"running", "stopping", "exited"}]
      /\ (AuthRuns' <=> AuthRuns) /\ (processing' <=> processing)
  BY <1>1, Taken DEF Services
<1>3. /\ client' \in [Clients -> ClientRec]
      /\ IsABag(late') /\ DOMAIN late' \subseteq DOMAIN late
  BY <1>1, Progressed
<1>4. RequestsSound' /\ CallsHonest' /\ AcceptedKept'
  <2>1. sessions \subseteq sessions' /\ UNCHANGED accepted
    BY <1>1
  <2>2. \A id, f, t : KeptIn(mailStore, deleted, id, f, t) => KeptIn(mailStore', deleted', id, f, t)
    BY <1>1, IndexKept
  <2> QED BY <1>1, <1>2, <2>1, <2>2, HandledInv
<1>5. /\ n \in Nat \ {0} /\ DOMAIN statusMap \subseteq Tasks /\ sent \subseteq Tasks
      /\ sendQueue \in Seq(Tasks) /\ Len(sendQueue) \in Nat
      /\ \A k \in 1 .. Len(sendQueue) : sendQueue[k] \in Tasks
  BY TasksType
<1>6. TypeOK'
  <2>1. n + 1 \in 1 .. MaxTasks + 1 /\ DOMAIN statusMap \subseteq 1 .. (n + 1) - 1
    BY <1>1, <1>5, BoundsAssumption DEF Tasks
  <2> QED BY <1>1, <1>2, <1>3, <2>1, MailTypes DEF MailInv, TypeOK, ClientRec, Msgs, Ids, Services,
       storageVars
<1>7. StatusTruthful'
  BY <1>1, <1>2 DEF MailInv, StatusTruthful
<1>8. TasksOnce'
  <2>1. Tasks' = Tasks \cup {n} /\ n \notin Tasks /\ Tasks \subseteq Tasks'
    BY <1>1, <1>5 DEF Tasks
  <2>2. /\ Len(sendQueue') = Len(sendQueue) + 1 /\ sendQueue'[Len(sendQueue) + 1] = n
        /\ \A k \in 1 .. Len(sendQueue) : sendQueue'[k] = sendQueue[k]
        /\ sendQueue' \in Seq(Tasks')
    <3>1. sendQueue \in Seq(Tasks') /\ n \in Tasks'
      BY <1>5, <2>1
    <3> QED BY <1>1, <3>1
  <2>3. posting' \in 0 .. taskIdGenerator' - 1 /\ posting' \notin DOMAIN statusMap'
    BY <1>1, <1>5, <2>1
  <2>4. sent' \subseteq Tasks'
    BY <1>1, <1>5, <2>1
  <2>5. worker' \in WorkerStates'
    BY <1>1, <2>1 DEF MailInv, TasksOnce, WorkerStates
  <2>6. worker.at \in {"status", "sending"} => worker.task \in Tasks
    BY DEF MailInv, TasksOnce, WorkerStates
  <2>7. \A j, k \in 1 .. Len(sendQueue') : sendQueue'[j] = sendQueue'[k] => j = k
    <3>1. \A j, k \in 1 .. Len(sendQueue) : sendQueue[j] = sendQueue[k] => j = k
      BY DEF MailInv, TasksOnce
    <3>2. \A k \in 1 .. Len(sendQueue) : sendQueue[k] # n
      BY <1>5, <2>1
    <3> QED BY <1>5, <2>2, <3>1, <3>2
  <2>8. \A k \in 1 .. Len(sendQueue') : sendQueue'[k] \notin sent'
    <3>1. \A k \in 1 .. Len(sendQueue) : sendQueue[k] \notin sent
      BY DEF MailInv, TasksOnce
    <3> QED BY <1>1, <1>5, <2>1, <2>2, <3>1
  <2>9. worker'.at \in {"status", "sending"} =>
          worker'.task \notin sent' /\ \A k \in 1 .. Len(sendQueue') : sendQueue'[k] # worker'.task
    <3>1. worker.at \in {"status", "sending"} =>
            worker.task \notin sent /\ \A k \in 1 .. Len(sendQueue) : sendQueue[k] # worker.task
      BY DEF MailInv, TasksOnce
    <3> QED BY <1>1, <1>5, <2>1, <2>2, <2>6, <3>1
  <2>10. /\ worker'.at = "sending" =>
            IF worker'.known THEN worker'.task \in DOMAIN statusMap'
            ELSE worker'.task \in DOMAIN statusMap' => statusMap'[worker'.task] = "QUEUED"
         /\ (\E t \in DOMAIN statusMap' : statusMap'[t] = "FAILED") => worker'.at = "exited" /\ ~processing'
    BY <1>1, <1>2 DEF MailInv, TasksOnce
  <2> QED BY <2>2, <2>3, <2>4, <2>5, <2>7, <2>8, <2>9, <2>10 DEF TasksOnce
<1>9. Indexed' /\ IndexMatchesStore'
  BY <1>1, IndexKept
<1> QED BY <1>4, <1>6, <1>7, <1>8, <1>9 DEF MailInv

\* The caller of a task that was queued is answered.
LEMMA PutStatusInv ==
  ASSUME MailInv, PutStatus
  PROVE  MailInv'
<1>1. /\ posting # 0 /\ statusMap' = Put(statusMap, posting, "QUEUED") /\ posting' = 0
      /\ client' = [c \in Clients |->
            IF client[c].at = "taken" THEN [client[c] EXCEPT !.at = "answered", !.answer = posting]
            ELSE client[c]]
      /\ UNCHANGED <<late, authVars, storageVars, sendQueue, taskIdGenerator,
                     worker, sent, lifeVars, accepted>>
  BY DEF PutStatus
<1>2. /\ taskIdGenerator \in Nat \ {0} /\ posting \in 0 .. taskIdGenerator - 1
      /\ DOMAIN statusMap \subseteq Tasks /\ posting \in Tasks
      /\ client \in [Clients -> ClientRec]
  <2>1. client \in [Clients -> ClientRec]
    BY MailTypes DEF MailInv
  <2>2. taskIdGenerator \in Nat \ {0} /\ posting \in 0 .. taskIdGenerator - 1
        /\ DOMAIN statusMap \subseteq Tasks
    BY TasksType
  <2>3. posting \in Tasks
    <3>1. posting # 0
      BY <1>1, Zenon
    <3> QED BY <2>2, <3>1 DEF Tasks
  <2> QED BY <2>1, <2>2, <2>3
<1>3. ASSUME NEW c \in Clients
      PROVE  /\ client'[c] \in ClientRec
             /\ client'[c].msg = client[c].msg /\ client'[c].user = client[c].user
             /\ client'[c] = client[c] \/ (client[c].at = "taken" /\ client'[c].at = "answered")
  <2>1. client[c] \in ClientRec
    BY <1>2
  <2>2. CASE client[c].at # "taken"
    BY <1>1, <2>1, <2>2
  <2>3. CASE client[c].at = "taken"
    <3> DEFINE j == [client[c] EXCEPT !.at = "answered"]
               k == [j EXCEPT !.answer = posting]
    <3>1. j \in ClientRec /\ j.at = "answered" /\ j.msg = client[c].msg /\ j.user = client[c].user
      BY <2>1 DEF ClientRec
    <3>2. client'[c] = k
      BY <1>1, <2>3, Zenon
    <3> HIDE DEF j
    <3>3. posting \in Nat
      BY <1>2
    <3>4. k \in ClientRec /\ k.at = "answered" /\ k.msg = client[c].msg /\ k.user = client[c].user
      BY <3>1, <3>3 DEF ClientRec
    <3> HIDE DEF k
    <3> QED BY <2>3, <3>2, <3>4
  <2> QED BY <2>2, <2>3
<1>4. client' \in [Clients -> ClientRec]
  <2>1. client' = [c \in Clients |-> client'[c]]
    BY <1>1
  <2> QED BY <1>3, <2>1
<1>5. RequestsSound'
  BY <1>1, <1>3 DEF MailInv, RequestsSound, RequestSound
<1>6. CallsHonest'
  <2>1. AuthRuns' = AuthRuns
    BY <1>1 DEF AuthRuns, lifeVars
  <2> SUFFICES ASSUME NEW c \in Clients
               PROVE  Honest(client'[c], mailStore, deleted, sessions, AuthRuns)
    BY <1>1, <2>1 DEF CallsHonest, storageVars
  <2>2. Honest(client[c], mailStore, deleted, sessions, AuthRuns)
    BY DEF MailInv, CallsHonest
  <2>3. CASE client'[c] = client[c]
    BY <2>2, <2>3, Zenon
  <2>4. CASE client[c].at = "taken" /\ client'[c].at = "answered"
    BY <1>3, <2>2, <2>4 DEF Honest
  <2> QED BY <1>3, <2>3, <2>4
<1>7. AcceptedKept'
  BY <1>1, AcceptedUnchanged
<1>8. Indexed' /\ IndexMatchesStore'
  BY <1>1, IndexKept
<1>9. /\ DOMAIN statusMap' = DOMAIN statusMap \cup {posting} /\ statusMap'[posting] = "QUEUED"
      /\ \A t \in DOMAIN statusMap : t # posting /\ statusMap'[t] = statusMap[t]
  BY <1>1 DEF Put, MailInv, TasksOnce
<1>10. TypeOK'
  <2>1. DOMAIN statusMap' \subseteq 1 .. taskIdGenerator - 1
    BY <1>2, <1>9 DEF Tasks
  <2> QED BY <1>1, <1>4, <1>9, <2>1, MailTypes DEF MailInv, TypeOK, ClientRec, Msgs, Ids, Services,
       storageVars, lifeVars
<1>11. processing' = processing
  BY <1>1 DEF processing, lifeVars
<1>12. StatusTruthful'
  BY <1>1, <1>9, <1>11 DEF MailInv, StatusTruthful
<1>13. TasksOnce'
  <2>1. Tasks' = Tasks /\ WorkerStates' = WorkerStates
    BY <1>1 DEF WorkerStates, Tasks
  <2>2. posting' \in 0 .. taskIdGenerator' - 1 /\ posting' \notin DOMAIN statusMap'
    <3>1. 0 \notin Tasks /\ 0 \in 0 .. taskIdGenerator - 1
      BY <1>2 DEF Tasks
    <3>2. posting' = 0 /\ taskIdGenerator' = taskIdGenerator /\ DOMAIN statusMap' \subseteq Tasks
      BY <1>1, <1>2, <1>9
    <3> QED BY <3>1, <3>2
  <2>3. worker.at = "sending" =>
          IF worker.known THEN worker.task \in DOMAIN statusMap'
          ELSE worker.task \in DOMAIN statusMap' => statusMap'[worker.task] = "QUEUED"
    BY <1>9 DEF MailInv, TasksOnce
  <2>4. (\E t \in DOMAIN statusMap' : statusMap'[t] = "FAILED") => worker.at = "exited" /\ ~processing
    BY <1>9 DEF MailInv, TasksOnce
  <2> QED BY <1>1, <1>11, <2>1, <2>2, <2>3, <2>4 DEF MailInv, TasksOnce
<1> QED BY <1>5, <1>6, <1>7, <1>8, <1>10, <1>12, <1>13 DEF MailInv

\* What the steps of the worker leave alone.
LEMMA WorkerFrame ==
  ASSUME MailInv, UNCHANGED <<callVars, authVars, storageVars, taskIdGenerator, lifeVars, accepted>>,
         DOMAIN statusMap' \subseteq Tasks,
         \A t \in DOMAIN statusMap' : statusMap'[t] \in {"QUEUED", "SENDING", "SENT", "FAILED"}
  PROVE  /\ TypeOK' /\ Indexed' /\ IndexMatchesStore' /\ RequestsSound' /\ CallsHonest' /\ AcceptedKept'
         /\ processing' = processing /\ Tasks' = Tasks /\ WorkerStates' = WorkerStates
<1> USE DEF callVars, storageVars, lifeVars
<1>1. TypeOK'
  BY MailTypes DEF MailInv, TypeOK, ClientRec, Msgs, Ids, Services, Tasks
<1>2. Indexed' /\ IndexMatchesStore'
  BY DEF MailInv, Indexed, IndexMatchesStore
<1>3. RequestsSound' /\ AcceptedKept'
  BY DEF MailInv, RequestsSound, RequestSound, AcceptedKept, KeptIn
<1>4. CallsHonest'
  BY DEF MailInv, CallsHonest, Honest, KeptIn, AuthRuns
<1>5. processing' = processing
  BY DEF processing
<1>6. Tasks' = Tasks /\ WorkerStates' = WorkerStates
  BY DEF Tasks, WorkerStates
<1> QED BY <1>1, <1>2, <1>3, <1>4, <1>5, <1>6

LEMMA StatusesOf ==
  ASSUME MailInv
  PROVE  \A t \in DOMAIN statusMap : statusMap[t] \in {"QUEUED", "SENDING", "SENT", "FAILED"}
BY MailTypes DEF MailInv

LEMMA PollInv ==
  ASSUME MailInv, Poll
  PROVE  MailInv'
<1>1. /\ worker = Polling /\ processing /\ sendQueue # << >>
      /\ worker' = [at |-> "status", task |-> Head(sendQueue)] /\ sendQueue' = Tail(sendQueue)
      /\ UNCHANGED <<callVars, authVars, storageVars, statusMap, taskIdGenerator,
                     posting, sent, lifeVars, accepted>>
  BY DEF Poll
<1>2. /\ TypeOK' /\ Indexed' /\ IndexMatchesStore' /\ RequestsSound' /\ CallsHonest' /\ AcceptedKept'
      /\ processing' = processing /\ Tasks' = Tasks /\ WorkerStates' = WorkerStates
  <2>1. /\ DOMAIN statusMap' \subseteq Tasks
        /\ \A t \in DOMAIN statusMap' : statusMap'[t] \in {"QUEUED", "SENDING", "SENT", "FAILED"}
    BY <1>1, TasksType, StatusesOf
  <2> QED BY <1>1, <2>1, WorkerFrame
<1>3. StatusTruthful'
  BY <1>1, <1>2 DEF MailInv, StatusTruthful
<1>4. TasksOnce'
  <2>1. sendQueue \in Seq(Tasks) /\ Len(sendQueue) \in Nat \ {0}
    BY <1>1, TasksType
  <2>2. /\ sendQueue' \in Seq(Tasks) /\ Len(sendQueue') = Len(sendQueue) - 1
        /\ \A k \in 1 .. Len(sendQueue) - 1 : sendQueue'[k] = sendQueue[k + 1]
        /\ Head(sendQueue) = sendQueue[1] /\ Head(sendQueue) \in Tasks
    BY <1>1, <2>1
  <2>3. worker' \in WorkerStates /\ worker'.at = "status" /\ worker'.task = sendQueue[1]
    BY <1>1, <2>2 DEF WorkerStates
  <2>4. \A j, k \in 1 .. Len(sendQueue) : sendQueue[j] = sendQueue[k] => j = k
    BY DEF MailInv, TasksOnce
  <2>5. \A k \in 1 .. Len(sendQueue) : sendQueue[k] \notin sent
    BY DEF MailInv, TasksOnce
  <2>6. \A j, k \in 1 .. Len(sendQueue') : sendQueue'[j] = sendQueue'[k] => j = k
    BY <2>1, <2>2, <2>4
  <2>7. \A k \in 1 .. Len(sendQueue') : sendQueue'[k] \notin sent /\ sendQueue'[k] # sendQueue[1]
    BY <2>1, <2>2, <2>4, <2>5
  <2>8. sendQueue[1] \notin sent
    BY <2>1, <2>5
  <2>9. worker.at = "poll"
    BY <1>1 DEF Polling
  <2>10. (\E t \in DOMAIN statusMap : statusMap[t] = "FAILED") => FALSE
    BY <2>9 DEF MailInv, TasksOnce
  <2>11. posting \in 0 .. taskIdGenerator - 1 /\ posting \notin DOMAIN statusMap /\ sent \subseteq Tasks
    BY DEF MailInv, TasksOnce
  <2>12. /\ worker'.at # "sending" /\ sent' = sent /\ statusMap' = statusMap
         /\ posting' = posting /\ taskIdGenerator' = taskIdGenerator
    BY <1>1, <2>3
  <2> QED BY <1>2, <2>2, <2>3, <2>6, <2>7, <2>8, <2>10, <2>11, <2>12 DEF TasksOnce
<1> QED BY <1>2, <1>3, <1>4 DEF MailInv

LEMMA GetStatusInv ==
  ASSUME MailInv, GetStatus
  PROVE  MailInv'
<1> DEFINE t == worker.task
           known == t \in DOMAIN statusMap
<1>1. /\ worker.at = "status" /\ worker' = [at |-> "sending", task |-> t, known |-> known]
      /\ statusMap' = IF known THEN [statusMap EXCEPT ![t] = "SENDING"] ELSE statusMap
      /\ UNCHANGED <<callVars, authVars, storageVars, sendQueue, taskIdGenerator,
                     posting, sent, lifeVars, accepted>>
  BY DEF GetStatus
<1>2. /\ DOMAIN statusMap' = DOMAIN statusMap
      /\ \A x \in DOMAIN statusMap : x # t => statusMap'[x] = statusMap[x]
      /\ known => statusMap'[t] = "SENDING"
  BY <1>1
<1>3. /\ TypeOK' /\ Indexed' /\ IndexMatchesStore' /\ RequestsSound' /\ CallsHonest' /\ AcceptedKept'
      /\ processing' = processing /\ Tasks' = Tasks /\ WorkerStates' = WorkerStates
  <2>1. /\ DOMAIN statusMap' \subseteq Tasks
        /\ \A x \in DOMAIN statusMap' : statusMap'[x] \in {"QUEUED", "SENDING", "SENT", "FAILED"}
    BY <1>2, TasksType, StatusesOf
  <2> QED BY <1>1, <2>1, WorkerFrame
<1>4. t \notin sent /\ t \in Tasks
  BY <1>1 DEF MailInv, TasksOnce, WorkerStates
<1>5. StatusTruthful'
  BY <1>1, <1>2, <1>3, <1>4 DEF MailInv, StatusTruthful
<1>6. known \in BOOLEAN
  OBVIOUS
<1>7. TasksOnce'
  <2>1. \A k \in 1 .. Len(sendQueue) : sendQueue[k] # t
    BY <1>1 DEF MailInv, TasksOnce
  <2>2. (\E x \in DOMAIN statusMap' : statusMap'[x] = "FAILED") => FALSE
    <3>1. (\E x \in DOMAIN statusMap : statusMap[x] = "FAILED") => FALSE
      BY <1>1 DEF MailInv, TasksOnce
    <3> QED BY <1>2, <3>1
  <2>3. worker'.at = "sending" /\ worker'.task = t /\ (worker'.known <=> known)
    BY <1>1
  <2>4. worker' \in WorkerStates
    <3> HIDE DEF known
    <3> QED BY <1>1, <1>4, <1>6 DEF WorkerStates
  <2>5. /\ posting \in 0 .. taskIdGenerator - 1 /\ posting \notin DOMAIN statusMap
        /\ sent \subseteq Tasks /\ sendQueue \in Seq(Tasks)
        /\ \A j, k \in 1 .. Len(sendQueue) : sendQueue[j] = sendQueue[k] => j = k
        /\ \A k \in 1 .. Len(sendQueue) : sendQueue[k] \notin sent
    BY DEF MailInv, TasksOnce
  <2> QED BY <1>1, <1>2, <1>3, <1>4, <2>1, <2>2, <2>3, <2>4, <2>5 DEF TasksOnce
<1> QED BY <1>3, <1>5, <1>7 DEF MailInv

\* A task is reported SENT when it was, and FAILED only as the server stops.
LEMMA SendMailInv ==
  ASSUME MailInv, SendMail
  PROVE  MailInv'
<1> DEFINE t == worker.task
<1>1. PICK result \in {"SENT", "FAILED"} :
        /\ statusMap' = IF worker.known THEN [statusMap EXCEPT ![t] = result] ELSE statusMap
        /\ sent' = IF result = "SENT" THEN sent \cup {t} ELSE sent
        /\ worker' = Polling \/ worker' = [at |-> "exited"]
        /\ result = "FAILED" => ~processing /\ worker' = [at |-> "exited"]
        /\ ~processing => worker' = [at |-> "exited"]
  BY DEF SendMail, Outcome
<1>2. /\ worker.at = "sending"
      /\ UNCHANGED <<callVars, authVars, storageVars, sendQueue, taskIdGenerator,
                     posting, lifeVars, accepted>>
  BY DEF SendMail
<1>3. /\ t \in Tasks /\ t \notin sent /\ (worker.known => t \in DOMAIN statusMap)
      /\ (~worker.known => (t \in DOMAIN statusMap => statusMap[t] = "QUEUED"))
  BY <1>2 DEF MailInv, TasksOnce, WorkerStates
<1>4. /\ DOMAIN statusMap' = DOMAIN statusMap
      /\ \A x \in DOMAIN statusMap : x # t => statusMap'[x] = statusMap[x]
      /\ t \in DOMAIN statusMap => statusMap'[t] = IF worker.known THEN result ELSE "QUEUED"
  BY <1>1, <1>3
<1>5. /\ TypeOK' /\ Indexed' /\ IndexMatchesStore' /\ RequestsSound' /\ CallsHonest' /\ AcceptedKept'
      /\ processing' = processing /\ Tasks' = Tasks /\ WorkerStates' = WorkerStates
  <2>1. /\ DOMAIN statusMap' \subseteq Tasks
        /\ \A x \in DOMAIN statusMap' : statusMap'[x] \in {"QUEUED", "SENDING", "SENT", "FAILED"}
    BY <1>1, <1>4, TasksType, StatusesOf
  <2> QED BY <1>2, <2>1, WorkerFrame
<1>6. StatusTruthful'
  BY <1>1, <1>3, <1>4, <1>5 DEF MailInv, StatusTruthful
<1>7. TasksOnce'
  <2>1. worker' \in WorkerStates /\ worker'.at \in {"poll", "exited"}
    BY <1>1 DEF WorkerStates, Polling
  <2>2. (\E x \in DOMAIN statusMap : statusMap[x] = "FAILED") => FALSE
    BY <1>2 DEF MailInv, TasksOnce
  <2>3. (\E x \in DOMAIN statusMap' : statusMap'[x] = "FAILED") => worker'.at = "exited" /\ ~processing'
    BY <1>1, <1>4, <1>5, <2>2
  <2>4. sent' \subseteq Tasks /\ \A k \in 1 .. Len(sendQueue) : sendQueue[k] \notin sent'
    BY <1>1, <1>2, <1>3 DEF MailInv, TasksOnce
  <2>5. /\ posting \in 0 .. taskIdGenerator - 1 /\ posting \notin DOMAIN statusMap
        /\ sendQueue \in Seq(Tasks)
        /\ \A j, k \in 1 .. Len(sendQueue) : sendQueue[j] = sendQueue[k] => j = k
    BY DEF MailInv, TasksOnce
  <2> QED BY <1>2, <1>4, <1>5, <2>1, <2>3, <2>4, <2>5 DEF TasksOnce
<1> QED BY <1>5, <1>6, <1>7 DEF MailInv

LEMMA WorkerExitsInv ==
  ASSUME MailInv, WorkerExits
  PROVE  MailInv'
<1>1. /\ worker = Polling /\ ~processing /\ worker' = [at |-> "exited"]
      /\ UNCHANGED <<callVars, authVars, storageVars, sendQueue, statusMap,
                     taskIdGenerator, posting, sent, lifeVars, accepted>>
  BY DEF WorkerExits
<1>2. /\ TypeOK' /\ Indexed' /\ IndexMatchesStore' /\ RequestsSound' /\ CallsHonest' /\ AcceptedKept'
      /\ processing' = processing /\ Tasks' = Tasks /\ WorkerStates' = WorkerStates
  <2>1. /\ DOMAIN statusMap' \subseteq Tasks
        /\ \A x \in DOMAIN statusMap' : statusMap'[x] \in {"QUEUED", "SENDING", "SENT", "FAILED"}
    BY <1>1, TasksType, StatusesOf
  <2> QED BY <1>1, <2>1, WorkerFrame
<1>3. StatusTruthful'
  BY <1>1, <1>2 DEF MailInv, StatusTruthful
<1>4. worker' \in WorkerStates /\ worker'.at = "exited"
  BY <1>1 DEF WorkerStates
<1>5. TasksOnce'
  BY <1>1, <1>2, <1>4 DEF MailInv, TasksOnce
<1> QED BY <1>2, <1>3, <1>5 DEF MailInv

----------------------------------------------------------------------------
(***************************************************************************)
(* Stopping                                                                *)
(***************************************************************************)
LEMMA StoppingInv ==
  ASSUME MailInv, shutdown \/ \E s \in Services : StopService(s)
  PROVE  MailInv'
<1>1. /\ UNCHANGED <<callVars, storageVars, transferVars, accepted>>
      /\ sessions' \subseteq sessions /\ (AuthRuns' => sessions' = sessions)
      /\ expired' \subseteq sessions'
      /\ (AuthRuns' => AuthRuns) /\ (processing' => processing)
      /\ service' \in [Services -> {"running", "stopping", "exited"}]
      /\ running' \in BOOLEAN
  <2>1. service \in [Services -> {"running", "stopping", "exited"}] /\ expired \subseteq sessions
    BY MailTypes DEF MailInv
  <2>2. CASE shutdown
    <3>1. running' \in BOOLEAN
      BY <2>2, Zenon DEF shutdown
    <3> QED BY <2>1, <2>2, <3>1 DEF shutdown, AuthRuns, processing
  <2>3. ASSUME NEW s \in Services, StopService(s)
        PROVE  /\ UNCHANGED <<callVars, storageVars, transferVars, accepted>>
               /\ sessions' \subseteq sessions /\ (AuthRuns' => sessions' = sessions)
               /\ expired' \subseteq sessions'
               /\ (AuthRuns' => AuthRuns) /\ (processing' => processing)
               /\ service' \in [Services -> {"running", "stopping", "exited"}]
               /\ running' \in BOOLEAN
    <3>1. running' \in BOOLEAN
      <4>1. running \in BOOLEAN
        BY MailTypes DEF MailInv
      <4>2. running' = running
        BY <2>3 DEF StopService
      <4> QED BY <4>1, <4>2, Zenon
    <3> QED BY <2>1, <2>3, <3>1 DEF StopService, AuthRuns, processing, Services
  <2> QED BY <2>2, <2>3
<1>2. TypeOK'
  BY <1>1, MailTypes DEF MailInv, TypeOK, ClientRec, Msgs, Ids, callVars, storageVars, transferVars
<1>3. Indexed' /\ IndexMatchesStore'
  BY <1>1, IndexKept
<1>4. RequestsSound' /\ AcceptedKept'
  BY <1>1, AcceptedUnchanged DEF MailInv, RequestsSound, RequestSound, callVars
<1>5. CallsHonest'
  BY <1>1 DEF MailInv, CallsHonest, Honest, KeptIn, callVars, storageVars
<1>6. StatusTruthful' /\ TasksOnce'
  BY <1>1 DEF MailInv, transferVars, StatusTruthful, TasksOnce, WorkerStates, Tasks
<1> QED BY <1>2, <1>3, <1>4, <1>5, <1>6 DEF MailInv

LEMMA SessionExpiresInv ==
  ASSUME MailInv, NEW u \in Users, SessionExpires(u)
  PROVE  MailInv'
<1>1. /\ UNCHANGED <<callVars, sessions, storageVars, transferVars, lifeVars, accepted>>
      /\ expired' = expired \cup {u} /\ u \in sessions
  BY DEF SessionExpires
<1>2. TypeOK'
  <2>1. TypeOK /\ expired' \subseteq sessions
    BY <1>1, MailTypes DEF MailInv
  <2> QED BY <1>1, <2>1 DEF TypeOK, callVars, storageVars, transferVars, lifeVars, Msgs, Ids
<1>3. RequestsSound' /\ CallsHonest'
  BY <1>1 DEF MailInv, RequestsSound, RequestSound, CallsHonest, Honest, KeptIn, callVars,
     storageVars, lifeVars, AuthRuns
<1>4. processing' <=> processing
  BY <1>1 DEF processing, lifeVars
<1> QED BY <1>1, <1>2, <1>3, <1>4, AcceptedUnchanged, IndexKept, TransferKept DEF MailInv

LEMMA MailStep == MailInv /\ [Next]_vars => MailInv'
<1> SUFFICES ASSUME MailInv, [Next]_vars PROVE MailInv'
  OBVIOUS
<1>1. ASSUME NEW c \in Clients, ClientStep(c) PROVE MailInv'
  BY <1>1, CommandInv, BackToCommandsInv, StoreAnsweredInv, CallReturnsInv DEF ClientStep
<1>2. ASSUME NEW src \in Clients \cup {Late}, NEW m, ServiceStep(src, m) PROVE MailInv'
  BY <1>2, AuthRequestInv, StoreRequestInv, ReadRequestInv, DeleteRequestInv, QueueTaskInv
     DEF ServiceStep
<1>3. CASE PutStatus \/ WorkerStep
  BY <1>3, PutStatusInv, PollInv, GetStatusInv, SendMailInv, WorkerExitsInv DEF WorkerStep
<1>4. CASE shutdown \/ \E s \in Services : StopService(s)
  BY <1>4, StoppingInv
<1>6. CASE \E u \in Users : SessionExpires(u)
  BY <1>6, SessionExpiresInv
<1>5. CASE UNCHANGED vars
  <2>1. /\ UNCHANGED <<callVars, storageVars, transferVars, accepted, running, service, authVars>>
    BY <1>5 DEF vars, lifeVars
  <2>2. TypeOK'
    BY <2>1 DEF MailInv, TypeOK, callVars, storageVars, transferVars, Msgs, Ids
  <2>3. RequestsSound' /\ CallsHonest'
    BY <2>1 DEF MailInv, RequestsSound, RequestSound, CallsHonest, Honest, KeptIn, callVars, storageVars,
       AuthRuns
  <2>4. processing' <=> processing
    BY <2>1 DEF processing
  <2> QED BY <2>1, <2>2, <2>3, <2>4, AcceptedUnchanged, IndexKept, TransferKept DEF MailInv
<1> QED BY <1>1, <1>2, <1>3, <1>4, <1>5, <1>6 DEF Next

----------------------------------------------------------------------------
(***************************************************************************)
(* Whose name a mail is stored in                                          *)
(***************************************************************************)
\* A MAIL_STORE on its way, and a mail stored, names a user with a session.
StoreNamed(m) == m.type = "STORE" => m.user \in sessions

NamesKnown ==
    AuthRuns => /\ \A c \in Clients : StoreNamed(client[c].msg)
                /\ \A m \in DOMAIN late : StoreNamed(m)
                /\ \A id \in DOMAIN mailStore : mailStore[id].from \in sessions

\* Nothing new comes up unless a user with a session asks for it.
LEMMA NamesStay ==
  ASSUME NamesKnown, AuthRuns' => AuthRuns /\ sessions \subseteq sessions',
         AuthRuns => \A c \in Clients : client'[c].msg = client[c].msg \/ StoreNamed(client'[c].msg),
         DOMAIN late' \subseteq DOMAIN late \cup {client[c].msg : c \in Clients},
         AuthRuns => \A id \in DOMAIN mailStore' :
                        \/ id \in DOMAIN mailStore /\ mailStore'[id] = mailStore[id]
                        \/ mailStore'[id].from \in sessions
  PROVE  NamesKnown'
<1> SUFFICES ASSUME AuthRuns'
             PROVE  /\ \A c \in Clients :
                          client'[c].msg.type = "STORE" => client'[c].msg.user \in sessions'
                    /\ \A m \in DOMAIN late' : m.type = "STORE" => m.user \in sessions'
                    /\ \A id \in DOMAIN mailStore' : mailStore'[id].from \in sessions'
  BY DEF NamesKnown, StoreNamed
<1>1. AuthRuns /\ sessions \subseteq sessions'
  OBVIOUS
<1>2. ASSUME NEW c \in Clients
      PROVE  client'[c].msg.type = "STORE" => client'[c].msg.user \in sessions'
  BY <1>1 DEF NamesKnown, StoreNamed
<1>3. ASSUME NEW m \in DOMAIN late', m.type = "STORE"
      PROVE  m.user \in sessions'
  <2>1. m \in DOMAIN late \/ \E c \in Clients : m = client[c].msg
    OBVIOUS
  <2> QED BY <1>1, <1>3, <2>1 DEF NamesKnown, StoreNamed
<1>4. ASSUME NEW id \in DOMAIN mailStore'
      PROVE  mailStore'[id].from \in sessions'
  BY <1>1 DEF NamesKnown
<1> QED BY <1>2, <1>3, <1>4

LEMMA NamesClientStep ==
  ASSUME MailInv, NamesKnown, NEW c \in Clients, ClientStep(c)
  PROVE  NamesKnown'
<1>1. client \in [Clients -> ClientRec] /\ IsABag(late)
  BY MailTypes DEF MailInv
<1>2. UNCHANGED <<sessions, mailStore, service>>
  BY DEF ClientStep, handleAuth, handleSend, handleRetr, handleDele, handleList, Quit, AuthAnswered,
     StoreAnswered, OtherAnswered, SendReturns, CallFails, CallRejected, OnlyClients, storageVars,
     lifeVars
<1>3. \A d \in Clients : d # c => client'[d] = client[d]
  BY <1>1 DEF ClientStep, handleAuth, handleSend, handleRetr, handleDele, handleList, Quit,
     AuthAnswered, StoreAnswered, OtherAnswered, SendReturns, CallFails, CallRejected, Ask, GiveUp
<1>4. AuthRuns => StoreNamed(client'[c].msg)
  <2>1. ASSUME NEW type, NEW user, NEW u, NEW id, Ask(c, type, user, u, id)
        PROVE  client'[c].msg = [type |-> type, user |-> user, to |-> u, id |-> id]
    <3>1. client'[c] = [client[c] EXCEPT !.at = "sent", !.answer = 0,
                          !.msg = [type |-> type, user |-> user, to |-> u, id |-> id]]
      BY <1>1, <2>1 DEF Ask
    <3> QED BY <1>1, <3>1 DEF ClientRec
  <2>2. Ready(c).msg.type = "none" /\ NoClient.msg.type = "none"
        /\ \A u : [Ready(c) EXCEPT !.user = u].msg.type = "none"
        /\ [NoClient EXCEPT !.at = "closed"].msg.type = "none"
    BY DEF Ready, NoClient, NoMsg
  <2>3. CASE \E u \in Users : handleSend(c, u)
    <3>1. PICK u \in Users : LoggedIn(c) /\ Ask(c, "STORE", client[c].user, u, 0)
      BY <2>3 DEF handleSend
    <3>2. client'[c].msg = [type |-> "STORE", user |-> client[c].user, to |-> u, id |-> 0]
      BY <2>1, <3>1
    <3> QED BY <3>1, <3>2 DEF LoggedIn, StoreNamed, MailInv, CallsHonest, Honest
  <2>4. CASE \/ \E u \in Users, right \in {0, 1} : handleAuth(c, u, right)
             \/ \E id \in 1 .. MaxMails : handleRetr(c, id) \/ handleDele(c, id)
             \/ handleList(c)
    <3>1. PICK type \in {"AUTH", "RETRIEVE", "DELETE", "LIST"} :
            \E user, u, id : Ask(c, type, user, u, id)
      BY <2>4 DEF handleAuth, handleRetr, handleDele, handleList
    <3>2. PICK user, u, id : Ask(c, type, user, u, id)
      BY <3>1
    <3>3. client'[c].msg = [type |-> type, user |-> user, to |-> u, id |-> id]
      BY <2>1, <3>2
    <3> QED BY <3>3 DEF StoreNamed
  <2>5. CASE StoreAnswered(c)
    <3>1. CASE running
      <4>1. PICK user, u, id : Ask(c, "SEND", user, u, id)
        BY <2>5, <3>1 DEF StoreAnswered
      <4>2. client'[c].msg = [type |-> "SEND", user |-> user, to |-> u, id |-> id]
        BY <2>1, <4>1
      <4> QED BY <4>2 DEF StoreNamed
    <3>2. CASE ~running
      BY <1>1, <2>2, <2>5, <3>2 DEF StoreAnswered, StoreNamed
    <3> QED BY <3>1, <3>2
  <2>6. CASE Quit(c) \/ AuthAnswered(c) \/ OtherAnswered(c) \/ SendReturns(c) \/ CallFails(c)
             \/ CallRejected(c)
    BY <1>1, <2>2, <2>6 DEF Quit, AuthAnswered, OtherAnswered, SendReturns, CallFails, CallRejected,
       GiveUp, StoreNamed
  <2> QED BY <2>3, <2>4, <2>5, <2>6 DEF ClientStep
<1>5. DOMAIN late' \subseteq DOMAIN late \cup {client[c].msg}
  <2>1. CASE SendReturns(c) \/ CallFails(c)
    <3>1. UNCHANGED late \/ late' = late (+) SetToBag({client[c].msg})
      BY <2>1, GaveUp DEF SendReturns, CallFails
    <3> QED BY <1>1, <3>1, BagPlus
  <2>2. CASE ~(SendReturns(c) \/ CallFails(c))
    BY <2>2 DEF ClientStep, handleAuth, handleSend, handleRetr, handleDele, handleList, Quit,
       AuthAnswered, StoreAnswered, OtherAnswered, CallRejected, OnlyClients
  <2> QED BY <2>1, <2>2
<1>6. AuthRuns' = AuthRuns
  BY <1>2 DEF AuthRuns
<1> QED BY <1>2, <1>3, <1>4, <1>5, <1>6, NamesStay

LEMMA NamesServiceStep ==
  ASSUME MailInv, NamesKnown, NEW src \in Clients \cup {Late}, NEW m, ServiceStep(src, m)
  PROVE  NamesKnown'
<1>1. PICK s, types : s \in Services /\ Take(s, src, m, types)
  BY DEF ServiceStep, handleAuthRequest, handleMailStore, handleMailRetrieve, handleMailList,
     handleMailDelete, QueueTask, Services
<1>2. Source(src, m)
  BY <1>1 DEF Take, Source
<1>3. AuthRuns' <=> AuthRuns
  BY <1>1, Taken
<1>4. \E at, a : Progress(src, m, at, a)
  BY DEF ServiceStep, handleAuthRequest, handleMailStore, handleMailRetrieve, handleMailList,
     handleMailDelete, QueueTask, Answer
<1>5. client \in [Clients -> ClientRec] /\ IsABag(late)
  BY MailTypes DEF MailInv
<1>6. \A c \in Clients : client'[c].msg = client[c].msg
  <2>1. PICK at, a : Progress(src, m, at, a)
    BY <1>4
  <2>2. CASE src = Late
    BY <2>1, <2>2 DEF Progress
  <2>3. CASE src # Late
    <3>1. client' = [client EXCEPT ![src].at = at, ![src].answer = a]
      BY <2>1, <2>3, Zenon DEF Progress
    <3>2. \A c \in Clients : c # src => client'[c] = client[c]
      BY <1>5, <3>1
    <3>3. src \in Clients /\ client[src] \in ClientRec
      BY <1>5, <2>3
    <3>4. client'[src] = [[client[src] EXCEPT !.at = at] EXCEPT !.answer = a]
      BY <1>5, <3>1, <3>3
    <3>5. client'[src].msg = client[src].msg
      BY <3>3, <3>4 DEF ClientRec
    <3> QED BY <3>2, <3>5
  <2> QED BY <2>2, <2>3
<1>7. DOMAIN late' \subseteq DOMAIN late
  <2>1. UNCHANGED late \/ late' = late (-) SetToBag({m})
    BY <1>4 DEF Progress
  <2> QED BY <1>5, <2>1, BagMinus
<1>8. AuthRuns => StoreNamed(m)
  <2>1. CASE src = Late
    BY <1>2, <2>1 DEF Source, BagIn, BagToSet, NamesKnown
  <2>2. CASE src # Late
    BY <1>2, <2>2 DEF Source, NamesKnown
  <2> QED BY <2>1, <2>2
<1>9. sessions \subseteq sessions'
  BY DEF ServiceStep, handleAuthRequest, handleMailStore, handleMailRetrieve, handleMailList,
     handleMailDelete, QueueTask
<1>10. AuthRuns => \A id \in DOMAIN mailStore' :
          \/ id \in DOMAIN mailStore /\ mailStore'[id] = mailStore[id]
          \/ mailStore'[id].from \in sessions
  <2>1. CASE handleMailStore(src, m)
    <3>1. m.type = "STORE"
          /\ mailStore' = Put(mailStore, NextMailId, [from |-> m.user, to |-> m.to])
      BY <2>1 DEF handleMailStore, Take
    <3> QED BY <1>8, <3>1 DEF Put, StoreNamed
  <2>2. CASE handleMailDelete(src, m)
    <3>1. mailStore' = mailStore \/ mailStore' = Restrict(mailStore, DOMAIN mailStore \ {m.id})
      BY <2>2 DEF handleMailDelete
    <3> QED BY <3>1 DEF Restrict
  <2>3. CASE handleAuthRequest(src, m) \/ handleMailRetrieve(src, m) \/ handleMailList(src, m)
             \/ QueueTask(src, m)
    BY <2>3 DEF handleAuthRequest, handleMailRetrieve, handleMailList, QueueTask, storageVars
  <2> QED BY <2>1, <2>2, <2>3 DEF ServiceStep
<1> QED BY <1>3, <1>6, <1>7, <1>9, <1>10, NamesStay

LEMMA NamesStep == MailInv /\ NamesKnown /\ [Next]_vars => NamesKnown'
<1> SUFFICES ASSUME MailInv, NamesKnown, [Next]_vars PROVE NamesKnown'
  OBVIOUS
<1>1. ASSUME NEW c \in Clients, ClientStep(c) PROVE NamesKnown'
  BY <1>1, NamesClientStep
<1>2. ASSUME NEW src \in Clients \cup {Late}, NEW m, ServiceStep(src, m) PROVE NamesKnown'
  BY <1>2, NamesServiceStep
<1>3. CASE PutStatus
  <2>1. UNCHANGED <<late, sessions, mailStore, service>>
    BY <1>3 DEF PutStatus, storageVars, lifeVars
  <2>2. ASSUME NEW c \in Clients PROVE client'[c].msg = client[c].msg
    <3>1. client[c] \in ClientRec
      BY MailTypes DEF MailInv
    <3>2. client'[c] = IF client[c].at = "taken"
                       THEN [client[c] EXCEPT !.at = "answered", !.answer = posting] ELSE client[c]
      BY <1>3 DEF PutStatus
    <3> QED BY <3>1, <3>2 DEF ClientRec
  <2>3. AuthRuns' = AuthRuns
    BY <2>1 DEF AuthRuns
  <2> QED BY <2>1, <2>2, <2>3, NamesStay
<1>4. CASE WorkerStep \/ UNCHANGED vars \/ \E u \in Users : SessionExpires(u)
  <2>1. UNCHANGED <<client, late, sessions, mailStore, service>>
    BY <1>4 DEF WorkerStep, Poll, GetStatus, SendMail, WorkerExits, vars, callVars, storageVars,
       lifeVars, SessionExpires
  <2>2. AuthRuns' = AuthRuns
    BY <2>1 DEF AuthRuns
  <2> QED BY <2>1, <2>2, NamesStay
<1>5. CASE shutdown \/ \E s \in Services : StopService(s)
  <2>1. UNCHANGED <<client, late, mailStore>>
    BY <1>5 DEF shutdown, StopService, callVars, storageVars
  <2>2. AuthRuns' => AuthRuns /\ sessions' = sessions
    <3>1. service \in [Services -> {"running", "stopping", "exited"}]
      BY MailTypes DEF MailInv
    <3> QED BY <1>5, <3>1 DEF shutdown, StopService, AuthRuns, Services
  <2> QED BY <2>1, <2>2, NamesStay
<1> QED BY <1>1, <1>2, <1>3, <1>4, <1>5 DEF Next

LEMMA MailInvariant == Spec => []MailInv
<1>1. MailInv /\ [Next]_vars => MailInv'
  BY MailStep
<1> QED BY MailInit, <1>1, PTL DEF Spec

\* A mail whose client was told "250 Mail accepted" (handleSend) stays in
\* mailStore, under the id and the names it was stored with, until a
\* MAIL_DELETE: for any number of clients, mails, lost answers and late requests.
THEOREM AcceptedMailIsKept == Spec => []AcceptedMailStays
<1>1. MailInv => AcceptedMailStays
  BY DEF MailInv, AcceptedKept, KeptIn, AcceptedMailStays
<1> QED BY MailInvariant, <1>1, PTL

\* A connection acts only for a user that AuthenticationService let in
\* (handleAuth, handleAuthRequest), and no mail is stored in another's name,
\* whatever answers and requests were lost or late and whichever sessions have
\* expired in between.
THEOREM LoginsAreJustified == Spec => []LoginJustified
<1>1. Init => NamesKnown
  BY DEF Init, NamesKnown, StoreNamed, NoClient, NoMsg, EmptyBag, SetToBag
<1>2. MailInv /\ NamesKnown => LoginJustified
  BY DEF MailInv, CallsHonest, Honest, AuthRuns, LoginJustified, NamesKnown
<1> QED BY MailInvariant, NamesStep, <1>1, <1>2, PTL DEF Spec

\* mailStore and userMailIndex list the same mails, in the order they came,
\* and statusMap tells the truth about the transfers.
THEOREM MailStaysConsistent == Spec => []MailConsistent
<1>1. MailInv => MailConsistent
  BY DEF MailInv, MailConsistent
<1> QED BY MailInvariant, <1>1, PTL
====
