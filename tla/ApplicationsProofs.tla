-------------------------- MODULE ApplicationsProofs --------------------------
(* The user of a wallet is asked one question at a time, no method runs that the user
   has not agreed to, and nothing is kept that should be gone, for any number of
   applications, methods and readers of the terminal.

   The permit of permission_handler_semaphore is what ties the questions together:
   whoever asks holds it, from the event in the channel to the handler until the
   answer. That an answer reaches the application it was given for needs that the
   application is still there: its session cannot close while it asks, because the
   task of the session is inside on_message. At the terminal the lock of
   read_input_receiver does the same: one reader at a time, and where it is tells whose
   prompt is shown, whether the input is masked and who gets the next line.        *)
EXTENDS Prompt, FiniteSetTheorems, TLAPS

Steps == {"rest", "insert", "refuse", "refused", "admit", "admission", "verify", "permission", "run"}
Tasks == {"none", "loop", "delete", "on_close", "cancelling", "listeners", "over"}
Decisions == {"none", "once", "always", "never", "deny", "cancelled"}
Names == Method \cup AppId \cup {Nobody}
Apps == [id : AppId, perms : [Method -> {"ask", "accept"}], requesting : BOOLEAN]
Events == [kind : {"application", "permission", "cancel"}, of : Session]

XswdTypes ==
    /\ doing \in [Session -> [at : Steps, method : Names]]
    /\ apps \in [Session -> Apps \cup {NoApp}]
    /\ toHandler \in Seq(Events)
    /\ questions \subseteq Session
    /\ task \in [Session -> Tasks]
    /\ consent \in [Session \X Method -> Decisions]

\* Whoever waits for the user, or is about to be asked, holds the permit.
Turns ==
    /\ \A s \in Session : doing[s].at \in {"admission", "permission"} => permit = s
    /\ \A s \in questions : permit = s
    /\ \A i \in 1..Len(toHandler) : toHandler[i].kind # "cancel" =>
          permit = toHandler[i].of /\ questions = {}

\* The channel holds at most one question and one cancel, and the session that sent
\* the cancel waits for the handler to receive it.
Waiting ==
    /\ \A i, j \in 1..Len(toHandler) :
          (toHandler[i].kind = "cancel" <=> toHandler[j].kind = "cancel") => i = j
    /\ \A i \in 1..Len(toHandler) : toHandler[i].kind = "cancel" =>
          appsLock = toHandler[i].of /\ task[toHandler[i].of] = "cancelling"

\* A session in the middle of a message is in its loop, and has its application and
\* the method it called.
Present ==
    \A s \in Session :
        /\ doing[s].at \notin {"rest", "refused"} => task[s] = "loop"
        /\ doing[s].at \in {"admit", "admission", "verify", "permission"} => apps[s] # NoApp
        /\ doing[s].at = "insert" => doing[s].method \in AppId
        /\ doing[s].at \in {"verify", "permission", "run"} => doing[s].method \in Method
        /\ doing[s].at = "permission" => apps[s].perms[doing[s].method] = "ask"

\* What is stored as accepted was decided for good by the user.
Agreed ==
    /\ \A s \in Session, m \in Method : apps[s] # NoApp =>
          (apps[s].perms[m] = "accept" => consent[<<s, m>>] \in {"always", "never"})
    /\ AskedFirst

XswdInv == XswdTypes /\ Turns /\ Waiting /\ Present /\ Agreed

-------------------------------------------------------------------------------
\* The channel to the handler after a send and after a receive.
LEMMA ChannelAppend ==
    ASSUME NEW q \in Seq(Events), NEW e \in Events
    PROVE  /\ Append(q, e) \in Seq(Events) /\ Len(q) \in Nat /\ Len(Append(q, e)) = Len(q) + 1
           /\ Append(q, e)[Len(q) + 1] = e
           /\ \A i \in 1..Len(q) : Append(q, e)[i] = q[i]
OBVIOUS

LEMMA ChannelTail ==
    ASSUME NEW q \in Seq(Events), q # <<>>
    PROVE  /\ Tail(q) \in Seq(Events) /\ Len(q) \in Nat \ {0} /\ Len(Tail(q)) = Len(q) - 1
           /\ Head(q) = q[1] /\ Head(q) \in Events
           /\ \A i \in 1..Len(Tail(q)) : Tail(q)[i] = q[i + 1] /\ i + 1 \in 1..Len(q)
OBVIOUS

\* An application that is there, and the same application once it starts or stops requesting.
LEMMA AppFacts ==
    ASSUME XswdTypes, NEW s \in Session, apps[s] # NoApp, NEW v \in BOOLEAN
    PROVE  /\ apps[s] \in Apps /\ [apps[s] EXCEPT !.requesting = v] \in Apps
           /\ [apps[s] EXCEPT !.requesting = v].perms = apps[s].perms
           /\ NoApp \notin Apps
BY XswdAssumption DEF XswdTypes, Apps, NoApp

\* Taking the permit and sending a question keeps the turns and the channel.
LEMMA AskKeeps ==
    ASSUME XswdInv, NEW s \in Session, NEW kind \in {"application", "permission"},
           permit = Nobody, permit' = s, Ask(s, kind),
           doing' = [doing EXCEPT ![s].at = IF kind = "application" THEN "admission" ELSE "permission"],
           UNCHANGED <<task, appsLock, questions>>
    PROVE  toHandler' \in Seq(Events) /\ Turns' /\ Waiting'
<1> DEFINE e == [kind |-> kind, of |-> s]
<1>1. toHandler \in Seq(Events) /\ e \in Events /\ toHandler' = Append(toHandler, e)
  BY DEF XswdInv, XswdTypes, Events, Ask
<1>2. /\ toHandler' \in Seq(Events) /\ Len(toHandler) \in Nat /\ Len(toHandler') = Len(toHandler) + 1
      /\ toHandler'[Len(toHandler) + 1] = e /\ \A i \in 1..Len(toHandler) : toHandler'[i] = toHandler[i]
  BY <1>1, ChannelAppend
<1>3. e.kind # "cancel" /\ e.of = s
  OBVIOUS
<1>4. \A i \in 1..Len(toHandler) : toHandler[i] \in Events
  BY <1>1
<1>5. /\ questions = {} /\ \A t \in Session : doing[t].at \notin {"admission", "permission"}
      /\ \A i \in 1..Len(toHandler) : toHandler[i].kind = "cancel"
  BY <1>4, XswdAssumption DEF XswdInv, XswdTypes, Turns, Events
<1> HIDE DEF e
<1>6. Turns'
  BY <1>2, <1>3, <1>5 DEF XswdInv, XswdTypes, Turns
<1>7. Waiting'
  <2>1. ASSUME NEW i \in 1..Len(toHandler'), NEW j \in 1..Len(toHandler'),
               toHandler'[i].kind = "cancel" <=> toHandler'[j].kind = "cancel"
        PROVE  i = j
    BY <1>2, <1>3, <1>5, <2>1 DEF XswdInv, Waiting
  <2>2. ASSUME NEW i \in 1..Len(toHandler'), toHandler'[i].kind = "cancel"
        PROVE  appsLock' = toHandler'[i].of /\ task'[toHandler'[i].of] = "cancelling"
    BY <1>2, <1>3, <2>2 DEF XswdInv, Waiting
  <2>3. QED
    BY <2>1, <2>2 DEF Waiting
<1>8. QED
  BY <1>2, <1>6, <1>7

\* The handler takes the first event out of its channel.
LEMMA ReceiveFacts ==
    ASSUME XswdInv, toHandler # <<>>, toHandler' = Tail(toHandler)
    PROVE  /\ toHandler' \in Seq(Events) /\ Head(toHandler) \in Events
           /\ \A i \in 1..Len(toHandler') : \E j \in 1..Len(toHandler) : j # 1 /\ toHandler'[i] = toHandler[j]
           /\ 1 \in 1..Len(toHandler) /\ Head(toHandler) = toHandler[1]
           /\ \A i, j \in 1..Len(toHandler') :
                 (toHandler'[i].kind = "cancel" <=> toHandler'[j].kind = "cancel") => i = j
<1>1. toHandler \in Seq(Events)
  BY DEF XswdInv, XswdTypes
<1>2. /\ toHandler' \in Seq(Events) /\ Len(toHandler) \in Nat \ {0} /\ Len(toHandler') = Len(toHandler) - 1
      /\ Head(toHandler) = toHandler[1] /\ Head(toHandler) \in Events
      /\ \A i \in 1..Len(toHandler') : toHandler'[i] = toHandler[i + 1] /\ i + 1 \in 1..Len(toHandler)
  BY <1>1, ChannelTail
<1>3. ASSUME NEW i \in 1..Len(toHandler'), NEW j \in 1..Len(toHandler'),
             toHandler'[i].kind = "cancel" <=> toHandler'[j].kind = "cancel"
      PROVE  i = j
  <2>1. i + 1 = j + 1
    BY <1>2, <1>3 DEF XswdInv, Waiting
  <2>2. QED
    BY <1>2, <2>1
<1>4. QED
  BY <1>2, <1>3

\* An answer gives the permit back, and nobody else was waiting for one.
LEMMA AnswersFacts ==
    ASSUME XswdInv, NEW s \in Session, NEW said, Answers(s, said)
    PROVE  /\ permit = s /\ permit' = Nobody /\ questions' = {} /\ toHandler' = toHandler /\ task' = task
           /\ \A i \in 1..Len(toHandler) : toHandler[i].kind = "cancel"
           /\ \A t \in Session : t # s => doing[t].at \notin {"admission", "permission"}
<1>1. /\ s \in questions /\ questions' = questions \ {s} /\ permit' = Nobody
      /\ toHandler' = toHandler /\ task' = task
  BY DEF Answers, PermitBack, socketVars
<1>2. permit = s /\ \A t \in questions : t = s
  BY <1>1 DEF XswdInv, Turns
<1>3. questions' = {}
  BY <1>1, <1>2
<1>4. QED
  BY <1>1, <1>2, <1>3 DEF XswdInv, Turns

-------------------------------------------------------------------------------
\* Each action keeps the invariant.
LEMMA AddApplicationKeeps ==
    ASSUME XswdInv, NEW s \in Session, NEW id \in AppId, NEW valid \in BOOLEAN, AddApplication(s, id, valid)
    PROVE  XswdInv'
<1> USE XswdAssumption DEF XswdInv
<1>1. XswdTypes'
  BY DEF AddApplication, Message, Resting, XswdTypes, Steps, Tasks, Decisions, Names, Apps, Events, socketVars, Present, NoApp
<1>2. Turns'
  BY DEF AddApplication, Message, Resting, XswdTypes, Turns, Present, Events, socketVars
<1>3. Waiting'
  BY DEF AddApplication, Message, Resting, XswdTypes, Waiting, Turns, Present, Events, socketVars
<1>4. Present'
  BY DEF AddApplication, Message, Resting, XswdTypes, Present, Steps, Apps, NoApp, Waiting, socketVars
<1>5. Agreed'
  BY DEF AddApplication, Message, Resting, XswdTypes, Present, Agreed, AskedFirst, Apps, NoApp, socketVars
<1>6. QED
  BY <1>1, <1>2, <1>3, <1>4, <1>5


LEMMA InsertApplicationKeeps ==
    ASSUME XswdInv, NEW s \in Session, InsertApplication(s)
    PROVE  XswdInv'
<1> USE XswdAssumption DEF XswdInv
<1>1. XswdTypes'
  BY DEF InsertApplication, DoingTo, NewApp, XswdTypes, Steps, Tasks, Decisions, Names, Apps, Events, socketVars, Present, NoApp
<1>2. Turns'
  BY DEF InsertApplication, DoingTo, NewApp, XswdTypes, Turns, Present, Events, socketVars
<1>3. Waiting'
  BY DEF InsertApplication, DoingTo, NewApp, XswdTypes, Waiting, Turns, Present, Events, socketVars
<1>4. Present'
  BY DEF InsertApplication, DoingTo, NewApp, XswdTypes, Present, Steps, Apps, NoApp, Waiting, socketVars
<1>5. Agreed'
  BY DEF InsertApplication, DoingTo, NewApp, XswdTypes, Present, Agreed, AskedFirst, Apps, NoApp, socketVars
<1>6. QED
  BY <1>1, <1>2, <1>3, <1>4, <1>5


LEMMA AskAdmissionKeeps ==
    ASSUME XswdInv, NEW s \in Session, AskAdmission(s)
    PROVE  XswdInv'
<1> USE XswdAssumption DEF XswdInv
<1>1. apps[s] # NoApp /\ doing[s].at = "admit"
  BY DEF AskAdmission, Present
<1>2. toHandler' \in Seq(Events) /\ Turns' /\ Waiting'
  BY AskKeeps DEF AskAdmission, DoingTo, socketVars
<1>3. /\ apps' = [apps EXCEPT ![s] = [apps[s] EXCEPT !.requesting = TRUE]]
      /\ [apps[s] EXCEPT !.requesting = TRUE] \in Apps
      /\ [apps[s] EXCEPT !.requesting = TRUE].perms = apps[s].perms /\ NoApp \notin Apps
  BY <1>1, AppFacts DEF AskAdmission, Requests
<1>4. XswdTypes'
  BY <1>2, <1>3 DEF AskAdmission, DoingTo, XswdTypes, Steps, socketVars
<1>5. Present'
  <2>1. /\ \A t \in Session : t # s => doing'[t] = doing[t] /\ apps'[t] = apps[t]
        /\ doing'[s].at = "admission" /\ apps'[s] \in Apps /\ task' = task
    BY <1>1, <1>3 DEF AskAdmission, DoingTo, XswdTypes, socketVars
  <2>2. apps'[s] # NoApp /\ task[s] = "loop"
    BY <1>1, <1>3, <2>1 DEF Present
  <2>3. QED
    BY <2>1, <2>2 DEF Present
<1>6. Agreed'
  BY <1>1, <1>3 DEF AskAdmission, DoingTo, XswdTypes, Agreed, AskedFirst, socketVars
<1>7. QED
  BY <1>2, <1>4, <1>5, <1>6


LEMMA RefuseKeeps ==
    ASSUME XswdInv, NEW s \in Session, Refuse(s)
    PROVE  XswdInv'
<1> USE XswdAssumption DEF XswdInv
<1>1. /\ doing[s].at = "refuse" /\ task[s] = "loop" /\ task'[s] \in {"on_close", "loop"}
      /\ task'[s] = "loop" => doing'[s].at = "rest"
      /\ \A t \in Session \ {s} : task'[t] = task[t] /\ doing'[t] = doing[t]
      /\ doing'[s].at \in {"refused", "rest"}
      /\ UNCHANGED <<apps, appsLock, permit, toHandler, questions, consent>>
  BY DEF Refuse, DeleteSession, TaskTo, DoingTo, Rests, Resting, XswdTypes, Present
<1>2. XswdTypes'
  <2>1. task' \in [Session -> Tasks]
    BY DEF Refuse, DeleteSession, TaskTo, XswdTypes, Tasks
  <2>2. Resting \in [at : Steps, method : Names] /\ [doing[s] EXCEPT !.at = "refused"] \in [at : Steps, method : Names]
    BY DEF Resting, Steps, Names, XswdTypes
  <2>3. doing' \in [Session -> [at : Steps, method : Names]]
    BY <2>2 DEF Refuse, DoingTo, Rests, XswdTypes
  <2>4. QED
    BY <1>1, <2>1, <2>3 DEF XswdTypes
<1>3. Turns'
  BY <1>1 DEF Turns
<1>4. Waiting'
  <2>1. \A i \in 1..Len(toHandler) : toHandler[i].kind = "cancel" => toHandler[i].of # s
    BY <1>1 DEF Waiting
  <2>2. \A i \in 1..Len(toHandler) : toHandler[i].of \in Session
    <3>1. \A i \in 1..Len(toHandler) : toHandler[i] \in Events
      BY DEF XswdTypes
    <3>2. QED
      BY <3>1 DEF Events
  <2>3. QED
    BY <1>1, <2>1, <2>2 DEF Waiting
<1>5. Present'
  BY <1>1 DEF Present
<1>6. Agreed'
  BY <1>1 DEF Agreed, AskedFirst
<1>7. QED
  BY <1>2, <1>3, <1>4, <1>5, <1>6


LEMMA CallKeeps ==
    ASSUME XswdInv, NEW s \in Session, NEW m \in Method, Call(s, m)
    PROVE  XswdInv'
<1> USE XswdAssumption DEF XswdInv
<1>1. apps[s] # NoApp
  BY DEF Call, Present
<1>2. /\ apps' = [apps EXCEPT ![s] = [apps[s] EXCEPT !.requesting = TRUE]]
      /\ [apps[s] EXCEPT !.requesting = TRUE] \in Apps
      /\ [apps[s] EXCEPT !.requesting = TRUE].perms = apps[s].perms /\ NoApp \notin Apps
  BY <1>1, AppFacts DEF Call, Requests
<1>3. XswdTypes'
  BY <1>2 DEF Call, Message, Resting, XswdTypes, Steps, Names, socketVars
<1>4. Turns'
  BY DEF Call, Message, Resting, XswdTypes, Turns, Present, Events, socketVars
<1>5. Waiting'
  BY DEF Call, Message, Resting, XswdTypes, Waiting, socketVars
<1>6. Present'
  <2>1. /\ \A t \in Session : t # s => doing'[t] = doing[t] /\ apps'[t] = apps[t]
        /\ doing'[s].at = "verify" /\ doing'[s].method = m /\ apps'[s] \in Apps
        /\ task' = task /\ task[s] = "loop"
    BY <1>1, <1>2 DEF Call, Message, XswdTypes, socketVars
  <2>2. apps'[s] # NoApp
    BY <1>2, <2>1
  <2>3. QED
    BY <2>1, <2>2 DEF Present
<1>7. Agreed'
  BY <1>1, <1>2 DEF Call, Message, Resting, XswdTypes, Present, Agreed, AskedFirst, socketVars
<1>8. QED
  BY <1>3, <1>4, <1>5, <1>6, <1>7


LEMMA KnownKeeps ==
    ASSUME XswdInv, NEW s \in Session, Known(s)
    PROVE  XswdInv'
<1> USE XswdAssumption DEF XswdInv
<1>1. apps[s] # NoApp
  BY DEF Known, Present
<1>0. HasApp(apps[s].id) /\ apps[s].perms[doing[s].method] = "accept"
  BY <1>1 DEF Known, HasApp, XswdTypes, Apps, Present
<1>2. /\ apps' = [apps EXCEPT ![s] = [apps[s] EXCEPT !.requesting = FALSE]]
      /\ [apps[s] EXCEPT !.requesting = FALSE] \in Apps
      /\ [apps[s] EXCEPT !.requesting = FALSE].perms = apps[s].perms /\ NoApp \notin Apps
      /\ doing' = [doing EXCEPT ![s].at = "run"]
  BY <1>0, <1>1, AppFacts DEF Known, Requests, DoingTo
<1>3. XswdTypes'
  BY <1>2 DEF Known, XswdTypes, Steps, Names, socketVars
<1>4. Turns'
  BY <1>2 DEF Known, XswdTypes, Turns, Present, Events, socketVars
<1>5. Waiting'
  BY <1>2 DEF Known, XswdTypes, Waiting, socketVars
<1>6. Present'
  BY <1>1, <1>2 DEF Known, XswdTypes, Present, socketVars
<1>7. Agreed'
  BY <1>0, <1>1, <1>2 DEF Known, XswdTypes, Present, Agreed, AskedFirst, socketVars
<1>8. QED
  BY <1>3, <1>4, <1>5, <1>6, <1>7


LEMMA AskPermissionKeeps ==
    ASSUME XswdInv, NEW s \in Session, AskPermission(s)
    PROVE  XswdInv'
<1> USE XswdAssumption DEF XswdInv
<1>1. toHandler' \in Seq(Events) /\ Turns' /\ Waiting'
  BY AskKeeps DEF AskPermission, PermitTaken, DoingTo, socketVars
<1>2. XswdTypes'
  BY <1>1 DEF AskPermission, DoingTo, XswdTypes, Steps, socketVars
<1>3. Present'
  BY DEF AskPermission, PermitTaken, Ask, DoingTo, XswdTypes, Present, Steps, Apps, NoApp, Waiting, socketVars
<1>4. Agreed'
  BY DEF AskPermission, PermitTaken, Ask, DoingTo, XswdTypes, Present, Agreed, AskedFirst, Apps, NoApp, socketVars
<1>5. QED
  BY <1>1, <1>2, <1>3, <1>4


LEMMA RunMethodKeeps ==
    ASSUME XswdInv, NEW s \in Session, RunMethod(s)
    PROVE  XswdInv'
<1> USE XswdAssumption DEF XswdInv
<1>1. XswdTypes'
  BY DEF RunMethod, Rests, Resting, XswdTypes, Steps, Tasks, Decisions, Names, Apps, Events, socketVars, Present, NoApp
<1>2. Turns'
  BY DEF RunMethod, Rests, Resting, XswdTypes, Turns, Present, Events, socketVars
<1>3. Waiting'
  BY DEF RunMethod, Rests, Resting, XswdTypes, Waiting, Turns, Present, Events, socketVars
<1>4. Present'
  BY DEF RunMethod, Rests, Resting, XswdTypes, Present, Steps, Apps, NoApp, Waiting, socketVars
<1>5. Agreed'
  BY DEF RunMethod, Rests, Resting, XswdTypes, Present, Agreed, AskedFirst, Apps, NoApp, socketVars
<1>6. QED
  BY <1>1, <1>2, <1>3, <1>4, <1>5


LEMMA HandlerAsksKeeps ==
    ASSUME XswdInv, HandlerAsks
    PROVE  XswdInv'
<1> DEFINE e == Head(toHandler)
<1>1. /\ toHandler # <<>> /\ toHandler' = Tail(toHandler) /\ e.kind # "cancel"
      /\ questions' = questions \cup {e.of}
      /\ UNCHANGED <<task, apps, appsLock, doing, permit, consent>>
  BY DEF HandlerAsks, socketVars
<1>2. /\ toHandler' \in Seq(Events) /\ e \in Events /\ 1 \in 1..Len(toHandler) /\ e = toHandler[1]
      /\ \A i \in 1..Len(toHandler') : \E j \in 1..Len(toHandler) : j # 1 /\ toHandler'[i] = toHandler[j]
      /\ \A i, j \in 1..Len(toHandler') :
            (toHandler'[i].kind = "cancel" <=> toHandler'[j].kind = "cancel") => i = j
  BY <1>1, ReceiveFacts
<1> HIDE DEF e
<1>3. e.of \in Session /\ permit = e.of
  BY <1>1, <1>2 DEF XswdInv, Turns, Events
<1>4. \A i \in 1..Len(toHandler') : toHandler'[i].kind = "cancel"
  BY <1>1, <1>2 DEF XswdInv, Waiting
<1>5. XswdTypes'
  BY <1>1, <1>2, <1>3 DEF XswdInv, XswdTypes
<1>6. Turns'
  BY <1>1, <1>3, <1>4 DEF XswdInv, XswdTypes, Turns
<1>7. Waiting'
  BY <1>1, <1>2 DEF XswdInv, Waiting
<1>8. Present' /\ Agreed'
  BY <1>1 DEF XswdInv, Present, Agreed, AskedFirst
<1>9. QED
  BY <1>5, <1>6, <1>7, <1>8 DEF XswdInv


LEMMA HandlerCancelsKeeps ==
    ASSUME XswdInv, HandlerCancels
    PROVE  XswdInv'
<1> DEFINE e == Head(toHandler)
<1>1. /\ toHandler # <<>> /\ toHandler' = Tail(toHandler) /\ e.kind = "cancel"
      /\ task' = [task EXCEPT ![e.of] = "listeners"]
      /\ UNCHANGED <<apps, appsLock, doing, permit, questions, consent>>
  BY DEF HandlerCancels, TaskTo
<1>2. /\ toHandler' \in Seq(Events) /\ e \in Events /\ 1 \in 1..Len(toHandler) /\ e = toHandler[1]
      /\ \A i \in 1..Len(toHandler') : \E j \in 1..Len(toHandler) : j # 1 /\ toHandler'[i] = toHandler[j]
      /\ \A i, j \in 1..Len(toHandler') :
            (toHandler'[i].kind = "cancel" <=> toHandler'[j].kind = "cancel") => i = j
  BY <1>1, ReceiveFacts
<1> HIDE DEF e
<1>3. e.of \in Session /\ task[e.of] = "cancelling"
  BY <1>1, <1>2 DEF XswdInv, Waiting, Events
<1>4. \A i \in 1..Len(toHandler') : toHandler'[i].kind # "cancel"
  BY <1>1, <1>2 DEF XswdInv, Waiting
<1>5. XswdTypes'
  BY <1>1, <1>2, <1>3 DEF XswdInv, XswdTypes, Tasks
<1>6. Turns'
  BY <1>1, <1>2 DEF XswdInv, XswdTypes, Turns
<1>7. Waiting'
  BY <1>1, <1>2, <1>4 DEF XswdInv, Waiting
<1>8. Present' /\ Agreed'
  BY <1>1, <1>3 DEF XswdInv, XswdTypes, Present, Agreed, AskedFirst
<1>9. QED
  BY <1>5, <1>6, <1>7, <1>8 DEF XswdInv


LEMMA OtherReadKeeps ==
    ASSUME XswdInv, OtherRead
    PROVE  XswdInv'
<1> USE XswdAssumption DEF XswdInv
<1>1. XswdTypes'
  BY DEF OtherRead, XswdTypes, Steps, Tasks, Decisions, Names, Apps, Events, socketVars, Present, NoApp
<1>2. Turns'
  BY DEF OtherRead, XswdTypes, Turns, Present, Events, socketVars
<1>3. Waiting'
  BY DEF OtherRead, XswdTypes, Waiting, Turns, Present, Events, socketVars
<1>4. Present'
  BY DEF OtherRead, XswdTypes, Present, Steps, Apps, NoApp, Waiting, socketVars
<1>5. Agreed'
  BY DEF OtherRead, XswdTypes, Present, Agreed, AskedFirst, Apps, NoApp, socketVars
<1>6. QED
  BY <1>1, <1>2, <1>3, <1>4, <1>5


LEMMA AdmissionKeeps ==
    ASSUME XswdInv, NEW s \in Session, NEW said \in {"allow", "deny", "cancelled"}, Admission(s, said)
    PROVE  XswdInv'
<1> USE XswdAssumption DEF XswdInv
<1>1. doing[s].at = "admission" /\ apps[s] # NoApp /\ task[s] = "loop" /\ UNCHANGED <<appsLock, consent>>
  BY DEF Admission, Present
<1>2. /\ permit' = Nobody /\ questions' = {} /\ toHandler' = toHandler /\ task' = task
      /\ \A i \in 1..Len(toHandler) : toHandler[i].kind = "cancel"
      /\ \A t \in Session : t # s => doing[t].at \notin {"admission", "permission"}
  BY AnswersFacts DEF Admission
<1>3. \/ /\ doing' = [doing EXCEPT ![s] = Resting]
         /\ apps' = [apps EXCEPT ![s] = [apps[s] EXCEPT !.requesting = FALSE]]
      \/ doing' = [doing EXCEPT ![s].at = "refuse"] /\ apps' = [apps EXCEPT ![s] = NoApp]
  BY DEF Admission, Rests, Requests, DoingTo
<1>4. /\ [apps[s] EXCEPT !.requesting = FALSE] \in Apps
      /\ [apps[s] EXCEPT !.requesting = FALSE].perms = apps[s].perms /\ NoApp \notin Apps
  BY <1>1, AppFacts
<1>5. Resting \in [at : Steps, method : Names] /\ Resting.at = "rest"
  BY DEF Resting, Steps, Names
<1>6. doing' \in [Session -> [at : Steps, method : Names]] /\ apps' \in [Session -> Apps \cup {NoApp}]
  <2>1. CASE /\ doing' = [doing EXCEPT ![s] = Resting]
             /\ apps' = [apps EXCEPT ![s] = [apps[s] EXCEPT !.requesting = FALSE]]
    BY <1>4, <1>5, <2>1 DEF XswdTypes
  <2>2. CASE doing' = [doing EXCEPT ![s].at = "refuse"] /\ apps' = [apps EXCEPT ![s] = NoApp]
    BY <2>2 DEF XswdTypes, Steps
  <2>3. QED
    BY <1>3, <2>1, <2>2
<1>7. /\ \A t \in Session : t # s => doing'[t] = doing[t] /\ apps'[t] = apps[t]
      /\ doing'[s].at \in {"rest", "refuse"} /\ (apps'[s] # NoApp => apps'[s].perms = apps[s].perms)
  <2>1. CASE /\ doing' = [doing EXCEPT ![s] = Resting]
             /\ apps' = [apps EXCEPT ![s] = [apps[s] EXCEPT !.requesting = FALSE]]
    BY <1>4, <1>5, <2>1 DEF XswdTypes
  <2>2. CASE doing' = [doing EXCEPT ![s].at = "refuse"] /\ apps' = [apps EXCEPT ![s] = NoApp]
    BY <2>2 DEF XswdTypes
  <2>3. QED
    BY <1>3, <2>1, <2>2
<1>8. XswdTypes'
  BY <1>1, <1>2, <1>6 DEF XswdTypes
<1>9. Turns'
  BY <1>2, <1>7 DEF Turns
<1>10. Waiting'
  BY <1>1, <1>2 DEF Waiting
<1>11. Present'
  BY <1>1, <1>2, <1>7 DEF Present
<1>12. Agreed'
  BY <1>1, <1>7 DEF Agreed, AskedFirst
<1>13. QED
  BY <1>8, <1>9, <1>10, <1>11, <1>12


LEMMA PermissionKeeps ==
    ASSUME XswdInv, NEW s \in Session,
           NEW said \in {"allow", "deny", "always", "never", "cancelled"}, Permission(s, said)
    PROVE  XswdInv'
<1> DEFINE m == doing[s].method
           app == Decided(apps[s], m, said)
           word == IF said = "allow" THEN "once" ELSE said
<1> USE XswdAssumption DEF XswdInv
<1>1. /\ doing[s].at = "permission" /\ apps[s] # NoApp /\ task[s] = "loop" /\ appsLock' = appsLock
      /\ m \in Method /\ apps[s].perms[m] = "ask"
  BY DEF Permission, Present
<1>2. /\ permit' = Nobody /\ questions' = {} /\ toHandler' = toHandler /\ task' = task
      /\ \A i \in 1..Len(toHandler) : toHandler[i].kind = "cancel"
      /\ \A t \in Session : t # s => doing[t].at \notin {"admission", "permission"}
  BY AnswersFacts DEF Permission
<1>3. /\ apps' = [apps EXCEPT ![s] = app] /\ consent' = [consent EXCEPT ![<<s, m>>] = word]
      /\ \/ said \in {"allow", "always"} /\ doing' = [doing EXCEPT ![s].at = "run"]
         \/ said \notin {"allow", "always"} /\ doing' = [doing EXCEPT ![s] = Resting]
  BY DEF Permission, Rests, DoingTo, Consents
<1>4. apps[s] \in Apps /\ NoApp \notin Apps
  BY <1>1, AppFacts
<1>5. /\ app \in Apps /\ app.perms = [apps[s].perms EXCEPT ![m] = IF said \in {"always", "never"} THEN "accept" ELSE @]
  BY <1>1, <1>4 DEF Decided, Apps
<1>6. Resting \in [at : Steps, method : Names] /\ Resting.at = "rest"
  BY DEF Resting, Steps, Names
<1>7. word \in Decisions
  BY DEF Decisions
<1> HIDE DEF app
<1>8. XswdTypes'
  <2>1. doing' \in [Session -> [at : Steps, method : Names]]
    BY <1>3, <1>6 DEF XswdTypes, Steps
  <2>2. apps' \in [Session -> Apps \cup {NoApp}]
    BY <1>3, <1>5 DEF XswdTypes
  <2>3. consent' \in [Session \X Method -> Decisions]
    BY <1>3, <1>7 DEF XswdTypes
  <2>4. QED
    BY <1>2, <2>1, <2>2, <2>3 DEF XswdTypes
<1>9. /\ doing'[s].at \in {"run", "rest"} /\ (doing'[s].at = "run" => doing'[s].method = m /\ said \in {"allow", "always"})
      /\ \A t \in Session : t # s => doing'[t] = doing[t] /\ apps'[t] = apps[t]
      /\ apps'[s] = app
  BY <1>3, <1>6 DEF XswdTypes
<1>10. Turns'
  BY <1>2, <1>9 DEF XswdTypes, Turns
<1>11. Waiting'
  BY <1>1, <1>2 DEF Waiting
<1>12. Present'
  <2>1. ASSUME NEW t \in Session, t # s
        PROVE  /\ doing'[t].at \notin {"rest", "refused"} => task'[t] = "loop"
               /\ doing'[t].at \in {"admit", "admission", "verify", "permission"} => apps'[t] # NoApp
               /\ doing'[t].at = "insert" => doing'[t].method \in AppId
               /\ doing'[t].at \in {"verify", "permission", "run"} => doing'[t].method \in Method
               /\ doing'[t].at = "permission" => apps'[t].perms[doing'[t].method] = "ask"
    BY <1>2, <1>9, <2>1 DEF Present
  <2>2. QED
    BY <1>1, <1>2, <1>9, <2>1 DEF Present
<1>13. Agreed'
  <2>1. /\ consent'[<<s, m>>] = word
        /\ \A t \in Session, k \in Method : t # s \/ k # m => consent'[<<t, k>>] = consent[<<t, k>>]
    BY <1>1, <1>3 DEF XswdTypes
  <2>2. ASSUME NEW t \in Session, NEW k \in Method, apps'[t] # NoApp, apps'[t].perms[k] = "accept"
        PROVE  consent'[<<t, k>>] \in {"always", "never"}
    <3>1. CASE t = s /\ k = m
      BY <1>1, <1>4, <1>5, <1>9, <2>1, <2>2, <3>1 DEF Apps
    <3>2. CASE t = s /\ k # m
      BY <1>1, <1>4, <1>5, <1>9, <2>1, <2>2, <3>2 DEF Apps, Agreed
    <3>3. CASE t # s
      BY <1>9, <2>1, <2>2, <3>3 DEF Agreed
    <3>4. QED
      BY <3>1, <3>2, <3>3
  <2>3. ASSUME NEW t \in Session, doing'[t].at = "run"
        PROVE  consent'[<<t, doing'[t].method>>] \in {"once", "always", "never"}
    <3>1. CASE t = s
      BY <1>9, <2>1, <2>3, <3>1
    <3>2. CASE t # s
      BY <1>9, <2>1, <2>3, <3>2 DEF Agreed, AskedFirst, Present
    <3>3. QED
      BY <3>1, <3>2
  <2>4. QED
    BY <2>2, <2>3 DEF Agreed, AskedFirst
<1>14. QED
  BY <1>8, <1>10, <1>11, <1>12, <1>13


LEMMA LeavesKeeps ==
    ASSUME XswdInv, NEW s \in Session, Leaves(s)
    PROVE  XswdInv'
<1> USE XswdAssumption DEF XswdInv
<1>1. XswdTypes'
  BY DEF Leaves, LoopEnds, TaskTo, Resting, appVars, XswdTypes, Steps, Tasks, Decisions, Names, Apps, Events, socketVars, Present, NoApp
<1>2. Turns'
  BY DEF Leaves, LoopEnds, TaskTo, Resting, appVars, XswdTypes, Turns, Present, Events, socketVars
<1>3. Waiting'
  BY DEF Leaves, LoopEnds, TaskTo, Resting, appVars, XswdTypes, Waiting, Turns, Present, Events, socketVars
<1>4. Present'
  BY DEF Leaves, LoopEnds, TaskTo, Resting, appVars, XswdTypes, Present, Steps, Apps, NoApp, Waiting, socketVars
<1>5. Agreed'
  BY DEF Leaves, LoopEnds, TaskTo, Resting, appVars, XswdTypes, Present, Agreed, AskedFirst, Apps, NoApp, socketVars
<1>6. QED
  BY <1>1, <1>2, <1>3, <1>4, <1>5


LEMMA DeleteAppKeeps ==
    ASSUME XswdInv, NEW s \in Session, DeleteApp(s)
    PROVE  XswdInv'
<1> USE XswdAssumption DEF XswdInv
<1>1. XswdTypes'
  BY DEF DeleteApp, DeleteSession, TaskTo, appVars, XswdTypes, Steps, Tasks, Decisions, Names, Apps, Events, socketVars, Present, NoApp
<1>2. Turns'
  BY DEF DeleteApp, DeleteSession, TaskTo, appVars, XswdTypes, Turns, Present, Events, socketVars
<1>3. Waiting'
  BY DEF DeleteApp, DeleteSession, TaskTo, appVars, XswdTypes, Waiting, Turns, Present, Events, socketVars
<1>4. Present'
  BY DEF DeleteApp, DeleteSession, TaskTo, appVars, XswdTypes, Present, Steps, Apps, NoApp, Waiting, socketVars
<1>5. Agreed'
  BY DEF DeleteApp, DeleteSession, TaskTo, appVars, XswdTypes, Present, Agreed, AskedFirst, Apps, NoApp, socketVars
<1>6. QED
  BY <1>1, <1>2, <1>3, <1>4, <1>5


LEMMA AppClosesKeeps ==
    ASSUME XswdInv, NEW s \in Session, AppCloses(s)
    PROVE  XswdInv'
<1> DEFINE e == [kind |-> "cancel", of |-> s]
<1> USE XswdAssumption DEF XswdInv
<1>1. /\ task[s] = "on_close" /\ appsLock = Nobody /\ apps' = [apps EXCEPT ![s] = NoApp]
      /\ UNCHANGED <<doing, permit, questions, consent>>
      /\ \/ /\ appsLock' = s /\ toHandler' = Append(toHandler, e)
            /\ task' = [task EXCEPT ![s] = "cancelling"]
         \/ appsLock' = appsLock /\ toHandler' = toHandler /\ task' = [task EXCEPT ![s] = "listeners"]
  BY DEF AppCloses, Ask, TaskTo
<1>2. toHandler \in Seq(Events) /\ e \in Events /\ e.kind = "cancel" /\ e.of = s
  BY DEF XswdTypes, Events
<1>3. \A i \in 1..Len(toHandler) : toHandler[i] \in Events /\ toHandler[i].kind # "cancel"
  <2>1. \A i \in 1..Len(toHandler) : toHandler[i] \in Events /\ toHandler[i].of \in Session
    <3>1. \A q \in Seq(Events) : \A i \in 1..Len(q) : q[i] \in Events
      OBVIOUS
    <3>2. \A x \in Events : x.of \in Session
      BY DEF Events
    <3>3. QED
      BY <1>2, <3>1, <3>2
  <2>2. QED
    BY <1>1, <2>1 DEF Waiting
<1>4. doing[s].at \in {"rest", "refused"}
  BY <1>1 DEF Present
<1> HIDE DEF e
<1>5. Present' /\ Agreed'
  BY <1>1, <1>4 DEF XswdTypes, Present, Agreed, AskedFirst
<1>6. CASE /\ appsLock' = s /\ toHandler' = Append(toHandler, e)
           /\ task' = [task EXCEPT ![s] = "cancelling"]
  <2>1. /\ toHandler' \in Seq(Events) /\ Len(toHandler) \in Nat /\ Len(toHandler') = Len(toHandler) + 1
        /\ toHandler'[Len(toHandler) + 1] = e /\ \A i \in 1..Len(toHandler) : toHandler'[i] = toHandler[i]
    BY <1>2, <1>6, ChannelAppend
  <2>2. XswdTypes'
    BY <1>1, <1>6, <2>1 DEF XswdTypes, Tasks
  <2>3. Turns'
    BY <1>1, <1>2, <2>1 DEF Turns
  <2>4. \A i, j \in 1..Len(toHandler') :
           (toHandler'[i].kind = "cancel" <=> toHandler'[j].kind = "cancel") => i = j
    BY <1>2, <1>3, <2>1 DEF Waiting
  <2>5. \A i \in 1..Len(toHandler') : toHandler'[i].kind = "cancel" => toHandler'[i].of = s
    BY <1>2, <1>3, <2>1
  <2>6. task'[s] = "cancelling"
    BY <1>6 DEF XswdTypes
  <2>7. Waiting'
    BY <1>6, <2>4, <2>5, <2>6 DEF Waiting
  <2>8. QED
    BY <1>5, <2>2, <2>3, <2>7
<1>7. CASE appsLock' = appsLock /\ toHandler' = toHandler /\ task' = [task EXCEPT ![s] = "listeners"]
  <2>1. XswdTypes'
    BY <1>1, <1>7 DEF XswdTypes, Tasks
  <2>2. Turns'
    BY <1>1, <1>7 DEF Turns
  <2>3. Waiting'
    BY <1>3, <1>7 DEF Waiting
  <2>4. QED
    BY <1>5, <2>1, <2>2, <2>3
<1>8. QED
  BY <1>1, <1>6, <1>7


LEMMA ListenerGoneKeeps ==
    ASSUME XswdInv, NEW s \in Session, ListenerGone(s)
    PROVE  XswdInv'
<1> USE XswdAssumption DEF XswdInv
<1>1. /\ task[s] = "listeners" /\ UNCHANGED <<apps, permit, toHandler, questions, consent>>
      /\ appsLock' = (IF appsLock = s THEN Nobody ELSE appsLock)
  BY DEF ListenerGone
<1>2. \/ /\ doing[s].at = "refused" /\ task' = [task EXCEPT ![s] = "loop"]
         /\ doing' = [doing EXCEPT ![s] = Resting]
      \/ doing[s].at # "refused" /\ task' = [task EXCEPT ![s] = "over"] /\ doing' = doing
  BY DEF ListenerGone, TaskTo, Rests
<1>3. Resting \in [at : Steps, method : Names] /\ Resting.at = "rest"
  BY DEF Resting, Steps, Names
<1>4. doing[s].at \in {"rest", "refused"}
  BY <1>1 DEF Present
<1>5. /\ \A t \in Session : t # s => task'[t] = task[t] /\ doing'[t] = doing[t]
      /\ task'[s] \in {"loop", "over"} /\ doing'[s].at = "rest"
  BY <1>2, <1>3, <1>4 DEF XswdTypes
<1>6. XswdTypes'
  BY <1>1, <1>2, <1>3 DEF XswdTypes, Tasks
<1>7. Turns'
  BY <1>1, <1>5 DEF Turns
<1>8. Waiting'
  <2>1. \A i \in 1..Len(toHandler) : toHandler[i] \in Events
    BY DEF XswdTypes
  <2>2. \A i \in 1..Len(toHandler) : toHandler[i].kind = "cancel" => toHandler[i].of # s
    BY <1>1 DEF Waiting
  <2>3. QED
    BY <1>1, <1>5, <2>1, <2>2 DEF Waiting, Events
<1>9. Present'
  BY <1>1, <1>5 DEF Present
<1>10. Agreed'
  BY <1>1, <1>5 DEF Agreed, AskedFirst
<1>11. QED
  BY <1>6, <1>7, <1>8, <1>9, <1>10


LEMMA HandleConnectionKeeps ==
    ASSUME XswdInv, NEW s \in Session, HandleConnection(s), UNCHANGED appVars
    PROVE  XswdInv'
<1> USE XswdAssumption DEF XswdInv
<1>1. XswdTypes'
  BY DEF HandleConnection, TaskTo, appVars, XswdTypes, Steps, Tasks, Decisions, Names, Apps, Events, socketVars, Present, NoApp
<1>2. Turns'
  BY DEF HandleConnection, TaskTo, appVars, XswdTypes, Turns, Present, Events, socketVars
<1>3. Waiting'
  BY DEF HandleConnection, TaskTo, appVars, XswdTypes, Waiting, Turns, Present, Events, socketVars
<1>4. Present'
  BY DEF HandleConnection, TaskTo, appVars, XswdTypes, Present, Steps, Apps, NoApp, Waiting, socketVars
<1>5. Agreed'
  BY DEF HandleConnection, TaskTo, appVars, XswdTypes, Present, Agreed, AskedFirst, Apps, NoApp, socketVars
<1>6. QED
  BY <1>1, <1>2, <1>3, <1>4, <1>5


LEMMA ClientLeavesKeeps ==
    ASSUME XswdInv, NEW s \in Session, NEW how \in {"closed", "silent"}, ClientLeaves(s, how), UNCHANGED appVars
    PROVE  XswdInv'
<1> USE XswdAssumption DEF XswdInv
<1>1. XswdTypes'
  BY DEF ClientLeaves, appVars, XswdTypes, Steps, Tasks, Decisions, Names, Apps, Events, socketVars, Present, NoApp
<1>2. Turns'
  BY DEF ClientLeaves, appVars, XswdTypes, Turns, Present, Events, socketVars
<1>3. Waiting'
  BY DEF ClientLeaves, appVars, XswdTypes, Waiting, Turns, Present, Events, socketVars
<1>4. Present'
  BY DEF ClientLeaves, appVars, XswdTypes, Present, Steps, Apps, NoApp, Waiting, socketVars
<1>5. Agreed'
  BY DEF ClientLeaves, appVars, XswdTypes, Present, Agreed, AskedFirst, Apps, NoApp, socketVars
<1>6. QED
  BY <1>1, <1>2, <1>3, <1>4, <1>5

\* Every step of the server keeps the invariant.
LEMMA XswdStep ==
    ASSUME XswdInv, [NextXswd]_xswdVars
    PROVE  XswdInv'
<1>1. CASE HandlerAsks
  BY <1>1, HandlerAsksKeeps
<1>2. CASE HandlerCancels
  BY <1>2, HandlerCancelsKeeps
<1>3. CASE OtherRead
  BY <1>3, OtherReadKeeps
<1>4. CASE UserAnswers
  <2>1. PICK s \in questions :
            \/ \E said \in {"allow", "deny", "cancelled"} : Admission(s, said)
            \/ \E said \in {"allow", "deny", "always", "never", "cancelled"} : Permission(s, said)
    BY <1>4 DEF UserAnswers
  <2>2. s \in Session
    BY DEF XswdInv, XswdTypes
  <2>3. QED
    BY <2>1, <2>2, AdmissionKeeps, PermissionKeeps
<1>5. ASSUME NEW s \in Session, Runs(s)
      PROVE  XswdInv'
  BY <1>5, InsertApplicationKeeps, RefuseKeeps, AskAdmissionKeeps, KnownKeeps, AskPermissionKeeps,
     RunMethodKeeps, LeavesKeeps, DeleteAppKeeps, AppClosesKeeps, ListenerGoneKeeps DEF Runs, TakesTurn
<1>6. ASSUME NEW s \in Session, NEW id \in AppId, NEW valid \in BOOLEAN, AddApplication(s, id, valid)
      PROVE  XswdInv'
  BY <1>6, AddApplicationKeeps
<1>7. ASSUME NEW s \in Session, NEW m \in Method, Call(s, m)
      PROVE  XswdInv'
  BY <1>7, CallKeeps
<1>8. ASSUME NEW s \in Session, HandleConnection(s), UNCHANGED appVars
      PROVE  XswdInv'
  BY <1>8, HandleConnectionKeeps
<1>9. ASSUME NEW s \in Session, NEW how \in {"closed", "silent"}, ClientLeaves(s, how), UNCHANGED appVars
      PROVE  XswdInv'
  BY <1>9, ClientLeavesKeeps
<1>10. CASE UNCHANGED xswdVars
  <2>1. UNCHANGED <<apps, appsLock, doing, permit, toHandler, questions, consent, task>>
    BY <1>10 DEF xswdVars, appVars, socketVars
  <2>2. QED
    BY <2>1 DEF XswdInv, XswdTypes, Turns, Waiting, Present, Agreed, AskedFirst
<1>11. QED
  BY <1>1, <1>2, <1>3, <1>4, <1>5, <1>6, <1>7, <1>8, <1>9, <1>10 DEF NextXswd

LEMMA XswdInitially == InitXswd => XswdInv
<1>1. SUFFICES ASSUME InitXswd PROVE XswdInv
  OBVIOUS
<1>2. Resting \in [at : Steps, method : Names] /\ Resting.at = "rest"
  BY DEF Resting, Steps, Names
<1>3. XswdTypes
  BY <1>1, <1>2 DEF InitXswd, InitSockets, XswdTypes, Tasks, Decisions
<1>4. \A s \in Session : doing[s].at = "rest" /\ apps[s] = NoApp
  BY <1>1, <1>2 DEF InitXswd
<1>5. Turns /\ Waiting
  <2>1. toHandler = <<>> /\ Len(toHandler) = 0 /\ questions = {}
    BY <1>1 DEF InitXswd
  <2>2. QED
    BY <1>4, <2>1 DEF Turns, Waiting
<1>6. Present /\ Agreed
  BY <1>4 DEF Present, Agreed, AskedFirst
<1>7. QED
  BY <1>3, <1>5, <1>6 DEF XswdInv

\* The permit, the channel to the handler and the applications fit together, always.
THEOREM XswdInvariant == XswdSpec => []XswdInv
<1>1. XswdInv /\ [NextXswd]_xswdVars => XswdInv'
  BY XswdStep
<1>2. QED
  BY <1>1, XswdInitially, PTL DEF XswdSpec

\* permission_handler_semaphore does what it is for: at most one question, of one session,
\* is before the user or waits for the answer.
THEOREM XswdOneQuestion == XswdSpec => []OneQuestion
<1>1. XswdInv => OneQuestion
  <2>1. SUFFICES ASSUME XswdInv PROVE OneQuestion
    OBVIOUS
  <2> DEFINE S == questions \cup {s \in Session : doing[s].at \in {"admission", "permission"}}
  <2>2. S \subseteq {permit}
    BY <2>1 DEF XswdInv, Turns
  <2>3. Cardinality({permit}) = 1 /\ IsFiniteSet({permit})
    BY FS_Singleton
  <2>4. Cardinality(S) <= 1
    BY <2>2, <2>3, FS_Subset
  <2>5. QED
    BY <2>4 DEF OneQuestion
<1>2. QED
  BY <1>1, XswdInvariant, PTL

\* verify_permission_for_request lets no method run that the user was not asked about: a no, a
\* cancelled question and an answer to anything else let nothing through, whatever was asked,
\* cancelled or closed in between. The user's last word may have been always deny.
THEOREM XswdAskedFirst == XswdSpec => []AskedFirst
<1>1. XswdInv => AskedFirst
  BY DEF XswdInv, Agreed
<1>2. QED
  BY <1>1, XswdInvariant, PTL

-------------------------------------------------------------------------------
(* Sessions that are over *)

\* A session is registered only while its task is in its loop or about to delete it; one
\* that is not any more has no application and no listener, unless it was revived, or
\* on_close is at work on it. A method runs for an application that is there.
ClosedWell(s) ==
    /\ s \in registered => task[s] \in {"loop", "delete"}
    /\ task[s] = "none" => apps[s] = NoApp /\ s \notin listeners
    /\ task[s] \in {"cancelling", "listeners"} => apps[s] = NoApp
    /\ task[s] \in {"loop", "delete", "over"} /\ s \notin registered =>
          s \in revived \/ (apps[s] = NoApp /\ s \notin listeners)
    /\ doing[s].at = "run" => apps[s] # NoApp

Closed == \A s \in Session : ClosedWell(s)

\* The step leaves alone what ClosedWell says of t.
LeftAlone(t) ==
    /\ t \in registered' <=> t \in registered
    /\ task'[t] = task[t] /\ apps'[t] = apps[t] /\ doing'[t] = doing[t]
    /\ t \in listeners' <=> t \in listeners
    /\ revived \subseteq revived'

LEMMA ClosedRest ==
    ASSUME Closed, NEW s, \A t \in Session \ {s} : LeftAlone(t), s \in Session => ClosedWell(s)'
    PROVE  Closed'
<1>1. \A t \in Session \ {s} : ClosedWell(t)'
  BY DEF LeftAlone, Closed, ClosedWell
<1>2. QED
  BY <1>1 DEF Closed

\* An application comes, starts to ask or stops asking.
LEMMA AppStepsClosed ==
    ASSUME XswdInv, Closed, NEW s \in Session,
           \/ InsertApplication(s) \/ AskAdmission(s) \/ Known(s) \/ \E m \in Method : Call(s, m)
    PROVE  Closed'
<1> USE DEF XswdInv, XswdTypes
<1>1. CASE InsertApplication(s)
  <2>1. /\ task[s] = "loop" /\ task' = task /\ registered' = registered /\ listeners' = listeners
        /\ revived' = revived \cup ({s} \ registered)
    BY <1>1 DEF InsertApplication, Present, socketVars
  <2>2. doing'[s].at = "admit" /\ \A t \in Session \ {s} : doing'[t] = doing[t] /\ apps'[t] = apps[t]
    BY <1>1 DEF InsertApplication, DoingTo
  <2>3. \A t \in Session \ {s} : LeftAlone(t)
    BY <2>1, <2>2 DEF LeftAlone
  <2>4. ClosedWell(s)'
    BY <2>1, <2>2 DEF ClosedWell, Closed
  <2>5. QED
    BY <2>3, <2>4, ClosedRest
<1>2. CASE AskAdmission(s) \/ Known(s) \/ \E m \in Method : Call(s, m)
  <2>2. apps[s] # NoApp /\ task[s] = "loop"
    BY <1>2 DEF AskAdmission, Known, Call, Message, Present
  <2>0. Known(s) => HasApp(apps[s].id) /\ apps[s].perms[doing[s].method] = "accept"
    BY <2>2 DEF Known, HasApp, Apps, Present
  <2>1. PICK v \in BOOLEAN : apps' = [apps EXCEPT ![s] = [apps[s] EXCEPT !.requesting = v]]
    BY <1>2, <2>0 DEF AskAdmission, Known, Call, Requests
  <2>3. apps'[s] # NoApp /\ \A t \in Session \ {s} : apps'[t] = apps[t]
    BY <2>1, <2>2, AppFacts
  <2>4. task' = task /\ registered' = registered /\ listeners' = listeners /\ revived' = revived
    BY <1>2 DEF AskAdmission, Known, Call, socketVars
  <2>5. \A t \in Session \ {s} : doing'[t] = doing[t]
    BY <1>2 DEF AskAdmission, Known, Call, DoingTo, Rests
  <2>6. \A t \in Session \ {s} : LeftAlone(t)
    BY <2>3, <2>4, <2>5 DEF LeftAlone
  <2>7. ClosedWell(s)'
    BY <2>2, <2>3, <2>4 DEF ClosedWell, Closed
  <2>8. QED
    BY <2>6, <2>7, ClosedRest
<1>3. QED
  BY <1>1, <1>2

\* Steps of on_message that leave the applications alone.
LEMMA MessageStepsClosed ==
    ASSUME XswdInv, Closed, NEW s \in Session,
           \/ RunMethod(s) \/ AskPermission(s)
           \/ \E id \in AppId, valid \in BOOLEAN : AddApplication(s, id, valid)
    PROVE  Closed'
<1> USE DEF XswdInv, XswdTypes
<1>1. task' = task /\ registered' = registered /\ apps' = apps /\ revived' = revived
  BY DEF RunMethod, AskPermission, AddApplication, socketVars
<1>2. /\ doing'[s].at # "run" /\ \A t \in Session \ {s} : doing'[t] = doing[t]
  BY DEF RunMethod, AskPermission, AddApplication, DoingTo, Rests, Resting
<1>3. /\ \A t \in Session \ {s} : t \in listeners' <=> t \in listeners
      /\ s \in listeners' => s \in listeners \/ doing[s].at = "run"
  BY DEF RunMethod, AskPermission, AddApplication
<1>4. doing[s].at = "run" => task[s] = "loop" /\ apps[s] # NoApp
  BY DEF Present, Closed, ClosedWell
<1>5. ClosedWell(s)'
  BY <1>1, <1>2, <1>3, <1>4 DEF ClosedWell, Closed
<1>6. \A t \in Session \ {s} : LeftAlone(t)
  BY <1>1, <1>2, <1>3 DEF LeftAlone
<1>7. QED
  BY <1>5, <1>6, ClosedRest

\* The user answers.
LEMMA AnswersClosed ==
    ASSUME XswdInv, Closed, NEW s \in Session,
           \/ \E said \in {"allow", "deny", "cancelled"} : Admission(s, said)
           \/ \E said \in {"allow", "deny", "always", "never", "cancelled"} : Permission(s, said)
    PROVE  Closed'
<1> USE DEF XswdInv, XswdTypes
<1>1. task' = task /\ registered' = registered /\ listeners' = listeners /\ revived' = revived
  BY DEF Admission, Permission, Answers, socketVars
<1>2. apps[s] # NoApp /\ task[s] = "loop"
  BY DEF Admission, Permission, Present
<1>3. \A t \in Session \ {s} : doing'[t] = doing[t] /\ apps'[t] = apps[t]
  BY DEF Admission, Permission, DoingTo, Rests, Requests
<1>4. doing'[s].at = "run" => apps'[s] # NoApp
  <2>1. CASE \E said \in {"allow", "deny", "cancelled"} : Admission(s, said)
    <3>1. \/ doing' = [doing EXCEPT ![s] = Resting]
          \/ doing' = [doing EXCEPT ![s] = [doing[s] EXCEPT !.at = "refuse"]]
      BY <2>1 DEF Admission, DoingTo, Rests
    <3>2. doing[s] \in [at : Steps, method : Names] /\ Resting.at = "rest"
      BY DEF Resting
    <3>3. doing'[s].at \in {"rest", "refuse"}
      BY <3>1, <3>2
    <3>4. QED
      BY <3>3
  <2>2. ASSUME NEW said \in {"allow", "deny", "always", "never", "cancelled"}, Permission(s, said)
        PROVE  apps'[s] # NoApp
    <3>1. apps[s] \in Apps /\ NoApp \notin Apps
      BY <1>2, AppFacts
    <3>2. Decided(apps[s], doing[s].method, said) \in Apps
      BY <2>2, <3>1 DEF Decided, Apps, Permission, Present
    <3>3. QED
      BY <2>2, <3>1, <3>2 DEF Permission
  <2>3. QED
    BY <2>1, <2>2
<1>5. ClosedWell(s)'
  BY <1>1, <1>2, <1>4 DEF ClosedWell, Closed
<1>6. \A t \in Session \ {s} : LeftAlone(t)
  BY <1>1, <1>3 DEF LeftAlone
<1>7. QED
  BY <1>5, <1>6, ClosedRest

\* The session is taken out of the server, by its task or after a refusal, and closed.
LEMMA EndStepsClosed ==
    ASSUME XswdInv, Closed, NEW s \in Session,
           Refuse(s) \/ Leaves(s) \/ DeleteApp(s) \/ AppCloses(s) \/ ListenerGone(s)
    PROVE  Closed'
<1> USE DEF XswdInv, XswdTypes
<1>1. revived' = revived
  BY DEF Refuse, Leaves, DeleteApp, AppCloses, ListenerGone, appVars
<1>2. \A t \in Session \ {s} : LeftAlone(t)
  BY <1>1 DEF LeftAlone, Refuse, Leaves, DeleteApp, AppCloses, ListenerGone, appVars, TaskTo, DeleteSession,
       LoopEnds, DoingTo, Rests
<1>3. ClosedWell(s)'
  <2>1. CASE Refuse(s)
    BY <1>1, <2>1 DEF Refuse, DeleteSession, TaskTo, DoingTo, Rests, Resting, Present, ClosedWell, Closed
  <2>2. CASE Leaves(s)
    BY <1>1, <2>2 DEF Leaves, LoopEnds, TaskTo, appVars, ClosedWell, Closed
  <2>3. CASE DeleteApp(s)
    BY <1>1, <2>3 DEF DeleteApp, DeleteSession, TaskTo, appVars, ClosedWell, Closed
  <2>4. CASE AppCloses(s)
    BY <1>1, <2>4 DEF AppCloses, TaskTo, Present, ClosedWell, Closed
  <2>5. CASE ListenerGone(s)
    BY <1>1, <2>5 DEF ListenerGone, TaskTo, Rests, Resting, ClosedWell, Closed
  <2>6. QED
    BY <2>1, <2>2, <2>3, <2>4, <2>5
<1>4. QED
  BY <1>2, <1>3, ClosedRest

\* The handler, the terminal and the clients.
LEMMA OtherStepsClosed ==
    ASSUME XswdInv, Closed,
           \/ HandlerAsks \/ HandlerCancels \/ OtherRead
           \/ \E s \in Session : HandleConnection(s) /\ UNCHANGED appVars
           \/ \E s \in Session : \E how \in {"closed", "silent"} : ClientLeaves(s, how) /\ UNCHANGED appVars
    PROVE  Closed'
<1> USE DEF XswdInv, XswdTypes
<1>1. CASE \/ HandlerAsks \/ OtherRead
           \/ \E s \in Session : \E how \in {"closed", "silent"} : ClientLeaves(s, how) /\ UNCHANGED appVars
  BY <1>1 DEF HandlerAsks, OtherRead, ClientLeaves, socketVars, appVars, Closed, ClosedWell
<1>2. CASE HandlerCancels
  <2>1. PICK s \in Session : s = Head(toHandler).of /\ task[s] = "cancelling"
    <3>1. toHandler # <<>> /\ Head(toHandler) = toHandler[1] /\ 1 \in 1..Len(toHandler)
          /\ Head(toHandler) \in Events /\ Head(toHandler).kind = "cancel"
      BY <1>2, ChannelTail DEF HandlerCancels
    <3>2. QED
      BY <3>1 DEF Events, Waiting
  <2>2. \A t \in Session \ {s} : LeftAlone(t)
    BY <1>2, <2>1 DEF HandlerCancels, TaskTo, LeftAlone
  <2>3. ClosedWell(s)'
    BY <1>2, <2>1 DEF HandlerCancels, TaskTo, Closed, ClosedWell, Present
  <2>4. QED
    BY <2>2, <2>3, ClosedRest
<1>3. ASSUME NEW s \in Session, HandleConnection(s), UNCHANGED appVars
      PROVE  Closed'
  <2>1. \A t \in Session \ {s} : LeftAlone(t)
    BY <1>3 DEF HandleConnection, TaskTo, appVars, LeftAlone
  <2>2. ClosedWell(s)'
    BY <1>3 DEF HandleConnection, TaskTo, appVars, Closed, ClosedWell
  <2>3. QED
    BY <2>1, <2>2, ClosedRest
<1>4. QED
  BY <1>1, <1>2, <1>3

LEMMA ClosedStep ==
    ASSUME XswdInv, Closed, [NextXswd]_xswdVars
    PROVE  Closed'
<1>1. CASE UNCHANGED xswdVars
  BY <1>1 DEF xswdVars, socketVars, appVars, Closed, ClosedWell
<1>2. CASE NextXswd
  <2>1. questions \subseteq Session
    BY DEF XswdInv, XswdTypes
  <2>2. CASE UserAnswers
    BY <2>1, <2>2, AnswersClosed DEF UserAnswers
  <2>3. CASE HandlerAsks \/ HandlerCancels \/ OtherRead
    BY <2>3, OtherStepsClosed
  <2>4. ASSUME NEW s \in Session,
               \/ Runs(s)
               \/ \E id \in AppId, valid \in BOOLEAN : AddApplication(s, id, valid)
               \/ \E m \in Method : Call(s, m)
               \/ HandleConnection(s) /\ UNCHANGED appVars
               \/ \E how \in {"closed", "silent"} : ClientLeaves(s, how) /\ UNCHANGED appVars
        PROVE  Closed'
    BY <2>4, AppStepsClosed, MessageStepsClosed, EndStepsClosed, OtherStepsClosed DEF Runs, TakesTurn
  <2>5. QED
    BY <1>2, <2>2, <2>3, <2>4 DEF NextXswd
<1>3. QED
  BY <1>1, <1>2

-------------------------------------------------------------------------------
(* The terminal *)

Texts == Reader \cup {"cmd"}
Stops == {"idle", "register", "save", "show", "wait", "cancelled", "unmask", "restore", "unlock"}

PromptTypes ==
    /\ line \subseteq Texts /\ history \subseteq Texts /\ shownPrompt \in Texts /\ masked \in BOOLEAN
    /\ promptSender \in Reader \cup {Noone} /\ canceller \in Reader \cup {Noone}
    /\ reads \in [Reader -> [at : Stops, line : SUBSET Texts]]
    /\ answer \in [Reader -> {"none", "given"}]
    /\ ioThread \in {"reads", "exiting", "releasing", "over"} /\ cutShort \subseteq Reader

\* One reader at a time: it holds read_input_receiver from the first step to the last.
OneReader == \A q \in Reader : reads[q].at # "idle" <=> canceller = q

\* Where the reader is tells who gets the next line, whose prompt it may be and whether
\* the input is masked.
Screen ==
    \A q \in Reader :
        /\ promptSender = q => reads[q].at \in {"save", "show", "wait", "cancelled"} /\ answer[q] = "none"
        /\ reads[q].at \in {"idle", "register"} => answer[q] = "none"
        /\ shownPrompt = q => reads[q].at \in {"wait", "cancelled", "unmask", "restore"}
        /\ reads[q].at \in {"wait", "cancelled"} => (masked <=> q \in Secret)
        /\ reads[q].at \notin {"wait", "cancelled", "unmask"} /\ canceller = q => ~masked
IdleScreen == canceller = Noone => ~masked

\* The characters of a secret are in the line while its question is open, or its read was
\* cut short, or the keyboard is gone; a line that was saved holds none but remembered ones.
\* A read that was cut short is either not restored yet, or its text remembered.
Typed ==
    /\ \A q \in line \cap Secret :
          q \in cutShort \/ ioThread = "over" \/ (promptSender = q /\ reads[q].at \in {"wait", "cancelled"})
    /\ \A q \in Reader : reads[q].line \cap Secret \subseteq history \/ ioThread = "over"
    /\ \A q \in cutShort : q \in history \/ reads[q].at \in {"unmask", "restore"}

PromptInv == PromptTypes /\ OneReader /\ Screen /\ IdleScreen /\ Typed /\ SecretsKept

LEMMA PromptStarts == InitPrompt => PromptInv
<1> SUFFICES ASSUME InitPrompt PROVE PromptInv
  OBVIOUS
<1>1. NotReading.at = "idle" /\ NotReading.line = {} /\ NotReading \in [at : Stops, line : SUBSET Texts]
  BY DEF NotReading, Stops
<1>2. \A q \in Reader : reads[q].at = "idle" /\ reads[q].line = {} /\ answer[q] = "none" /\ q # Noone /\ q # "cmd"
  BY <1>1, PromptAssumption DEF InitPrompt, Noone
<1>3. PromptTypes
  BY <1>1 DEF InitPrompt, PromptTypes, Texts, Noone
<1>4. OneReader /\ Screen /\ IdleScreen
  BY <1>2 DEF InitPrompt, OneReader, Screen, IdleScreen
<1>5. Typed /\ SecretsKept
  BY <1>2 DEF InitPrompt, Typed, SecretsKept
<1>6. QED
  BY <1>3, <1>4, <1>5 DEF PromptInv

\* The keyboard.
LEMMA KeysKeep ==
    ASSUME PromptInv, Type \/ Enter \/ CtrlC
    PROVE  PromptInv'
<1> USE PromptAssumption DEF PromptInv
<1>1. /\ ioThread = "reads" /\ ioThread' \in {"reads", "exiting"}
      /\ UNCHANGED <<shownPrompt, masked, canceller, cancels, reads, ticking, exited, running, tooLate, cutShort>>
  BY DEF Type, Enter, CtrlC, Key
<1>2. \A q \in Reader : q # Noone /\ q # "cmd"
  BY DEF Noone
<1>3. TypedFor \in Texts /\ (TypedFor \in Reader => promptSender = TypedFor /\ reads[TypedFor].at \in {"wait", "cancelled"})
  BY <1>2 DEF TypedFor, PromptTypes, Texts, Screen, Noone
<1>4. CASE Type
  <2>1. promptSender' = promptSender /\ answer' = answer /\ history' = history
    BY <1>4 DEF Type
  <2>2. /\ line' \subseteq Texts
        /\ \A q \in line' : q \in line \/ q = TypedFor \/ q \in history
    BY <1>3, <1>4 DEF Type, PromptTypes
  <2>3. PromptTypes'
    BY <1>1, <2>1, <2>2 DEF PromptTypes
  <2>4. OneReader' /\ Screen' /\ IdleScreen' /\ SecretsKept'
    BY <1>1, <2>1 DEF OneReader, Screen, IdleScreen, SecretsKept
  <2>5. Typed'
    BY <1>1, <1>3, <2>1, <2>2 DEF Typed, SecretsKept
  <2>6. QED
    BY <2>3, <2>4, <2>5
<1>5. CASE Enter
  <2>1. /\ line' = {} /\ promptSender' = Noone /\ history' = Remembered
        /\ answer' \in {answer, [answer EXCEPT ![promptSender] = "given"]}
    BY <1>5 DEF Enter, SentTo
  <2>2. history' \subseteq Texts /\ history \subseteq history' /\ history' \cap Secret \subseteq cutShort
    <3>1. CASE promptSender = Noone
      BY <1>1, <1>2, <2>1, <3>1 DEF Remembered, PromptTypes, Typed, SecretsKept
    <3>2. CASE promptSender # Noone
      BY <2>1, <3>2 DEF Remembered, PromptTypes, SecretsKept
    <3>3. QED
      BY <3>1, <3>2
  <2>3. /\ answer' \in [Reader -> {"none", "given"}]
        /\ \A q \in Reader : q # promptSender => answer'[q] = answer[q]
    BY <2>1 DEF PromptTypes
  <2>4. PromptTypes'
    BY <1>1, <2>1, <2>2, <2>3 DEF PromptTypes
  <2>5. OneReader' /\ Screen' /\ IdleScreen'
    BY <1>1, <1>2, <2>1, <2>3 DEF OneReader, Screen, IdleScreen, PromptTypes
  <2>6. Typed' /\ SecretsKept'
    BY <1>1, <2>1, <2>2 DEF Typed, SecretsKept
  <2>7. QED
    BY <2>4, <2>5, <2>6
<1>6. CASE CtrlC
  BY <1>1, <1>6 DEF CtrlC, PromptTypes, OneReader, Screen, IdleScreen, Typed, SecretsKept
<1>7. QED
  BY <1>4, <1>5, <1>6

\* The end of the keyboard, the main loop and cancel_read_input.
LEMMA LoopsKeep ==
    ASSUME PromptInv, IoExits \/ IoReleases \/ Tick \/ UpdatePrompt \/ StartEnds \/ cancel_read_input
    PROVE  PromptInv'
<1> USE PromptAssumption DEF PromptInv
<1>1. \A q \in Reader : q # Noone /\ q # "cmd"
  BY DEF Noone
<1>2. UNCHANGED <<line, masked, canceller, reads, history, cutShort>>
  BY DEF IoExits, IoReleases, Tick, UpdatePrompt, StartEnds, cancel_read_input, screenVars, loopVars
<1>3. CASE IoExits \/ Tick \/ UpdatePrompt \/ StartEnds \/ cancel_read_input
  <2>1. /\ promptSender' = promptSender /\ answer' = answer /\ shownPrompt' \in {shownPrompt, "cmd"}
        /\ ioThread' = "over" <=> ioThread = "over"
        /\ ioThread' \in {"reads", "exiting", "releasing", "over"}
    BY <1>3 DEF IoExits, Tick, UpdatePrompt, StartEnds, cancel_read_input, screenVars, loopVars, PromptTypes
  <2>2. PromptTypes'
    BY <1>2, <2>1 DEF PromptTypes, Texts
  <2>3. OneReader' /\ Screen' /\ IdleScreen' /\ Typed' /\ SecretsKept'
    BY <1>1, <1>2, <2>1 DEF OneReader, Screen, IdleScreen, Typed, SecretsKept
  <2>4. QED
    BY <2>2, <2>3
<1>4. CASE IoReleases
  <2>1. /\ ioThread = "releasing" /\ ioThread' = "over" /\ promptSender' = Noone /\ shownPrompt' = shownPrompt
        /\ answer' \in {answer, [answer EXCEPT ![promptSender] = "given"]}
    BY <1>4 DEF IoReleases, SentTo, screenVars
  <2>2. /\ answer' \in [Reader -> {"none", "given"}]
        /\ \A q \in Reader : q # promptSender => answer'[q] = answer[q]
    BY <2>1 DEF PromptTypes
  <2>3. PromptTypes'
    BY <1>2, <2>1, <2>2 DEF PromptTypes
  <2>4. OneReader' /\ Screen' /\ IdleScreen'
    BY <1>1, <1>2, <2>1, <2>2 DEF OneReader, Screen, IdleScreen, PromptTypes
  <2>5. Typed' /\ SecretsKept'
    BY <1>2, <2>1 DEF Typed, SecretsKept
  <2>6. QED
    BY <2>3, <2>4, <2>5
<1>5. QED
  BY <1>3, <1>4

\* The step moves the reader r from one stop to another; the line it saved stays.
LEMMA ReadToFacts ==
    ASSUME PromptInv, NEW r \in Reader, NEW at \in Stops, ReadTo(r, at)
    PROVE  /\ reads' \in [Reader -> [at : Stops, line : SUBSET Texts]]
           /\ reads'[r].at = at /\ reads'[r].line = reads[r].line
           /\ \A q \in Reader \ {r} : reads'[q] = reads[q]
<1>1. reads[r] \in [at : Stops, line : SUBSET Texts] /\ reads' = [reads EXCEPT ![r] = [reads[r] EXCEPT !.at = at]]
  BY DEF PromptInv, PromptTypes, ReadTo
<1>2. [reads[r] EXCEPT !.at = at] \in [at : Stops, line : SUBSET Texts]
  BY <1>1
<1>3. QED
  BY <1>1, <1>2 DEF PromptInv, PromptTypes

\* A reader that is not idle is alone.
LEMMA Alone ==
    ASSUME PromptInv, NEW r \in Reader, reads[r].at # "idle"
    PROVE  /\ canceller = r /\ \A q \in Reader \ {r} : reads[q].at = "idle"
           /\ promptSender \in {r, Noone} /\ shownPrompt \in {r, "cmd"}
<1>1. canceller = r /\ \A q \in Reader \ {r} : reads[q].at = "idle"
  BY DEF PromptInv, OneReader
<1>2. QED
  BY <1>1 DEF PromptInv, Screen, PromptTypes, Texts

\* Asking: the reader locks, registers, saves the line and shows its question.
LEMMA AsksKeep ==
    ASSUME PromptInv, NEW r \in Reader, Lock(r) \/ Register(r) \/ Save(r) \/ ShowQuestion(r)
    PROVE  PromptInv'
<1> USE PromptAssumption DEF PromptInv
<1>1. \A q \in Reader : q # Noone /\ q # "cmd"
  BY DEF Noone
<1>2. CASE Lock(r)
  <2>1. /\ canceller = Noone /\ canceller' = r /\ ReadTo(r, "register") /\ reads[r].at = "idle" /\ reads[r].line = {}
        /\ UNCHANGED <<line, shownPrompt, masked, promptSender, answer, history, ioThread, exited, cutShort>>
    BY <1>2 DEF Lock, screenVars, loopVars, NotReading
  <2>2. /\ reads' \in [Reader -> [at : Stops, line : SUBSET Texts]] /\ reads'[r].at = "register"
        /\ reads'[r].line = reads[r].line /\ \A q \in Reader \ {r} : reads'[q] = reads[q]
    BY <2>1, ReadToFacts DEF Stops
  <2>3. \A q \in Reader : reads[q].at = "idle" /\ shownPrompt # q /\ promptSender # q /\ answer[q] = "none"
    BY <1>1, <2>1 DEF OneReader, Screen
  <2>4. PromptTypes'
    BY <2>1, <2>2 DEF PromptTypes
  <2>5. OneReader' /\ Screen' /\ IdleScreen'
    BY <1>1, <2>1, <2>2, <2>3 DEF OneReader, Screen, IdleScreen
  <2>6. Typed' /\ SecretsKept'
    BY <2>1, <2>2, <2>3 DEF Typed, SecretsKept, PromptTypes
  <2>7. QED
    BY <2>4, <2>5, <2>6
<1>3. CASE Register(r)
  <2>1. /\ reads[r].at = "register" /\ ReadTo(r, "save") /\ promptSender' = r
        /\ UNCHANGED <<line, shownPrompt, masked, canceller, answer, history, ioThread, exited, cutShort>>
    BY <1>3 DEF Register, screenVars, loopVars
  <2>2. /\ reads' \in [Reader -> [at : Stops, line : SUBSET Texts]] /\ reads'[r].at = "save"
        /\ reads'[r].line = reads[r].line /\ \A q \in Reader \ {r} : reads'[q] = reads[q]
    BY <2>1, ReadToFacts DEF Stops
  <2>3. canceller = r /\ \A q \in Reader \ {r} : reads[q].at = "idle"
    BY <2>1, Alone
  <2>4. PromptTypes'
    BY <2>1, <2>2 DEF PromptTypes
  <2>5. OneReader' /\ Screen' /\ IdleScreen'
    BY <1>1, <2>1, <2>2, <2>3 DEF OneReader, Screen, IdleScreen
  <2>6. Typed' /\ SecretsKept'
    BY <2>1, <2>2, <2>3 DEF Typed, SecretsKept, Screen, PromptTypes
  <2>7. QED
    BY <2>4, <2>5, <2>6
<1>4. CASE Save(r)
  <2>1. /\ reads[r].at = "save" /\ reads' = [reads EXCEPT ![r] = [at |-> "show", line |-> line]] /\ line' = {}
        /\ UNCHANGED <<shownPrompt, masked, promptSender, canceller, answer, history, ioThread, exited, cutShort>>
    BY <1>4 DEF Save, loopVars
  <2>2. /\ reads' \in [Reader -> [at : Stops, line : SUBSET Texts]] /\ reads'[r].at = "show"
        /\ reads'[r].line = line /\ \A q \in Reader \ {r} : reads'[q] = reads[q]
    BY <2>1 DEF PromptTypes, Stops
  <2>3. canceller = r /\ \A q \in Reader \ {r} : reads[q].at = "idle"
    BY <2>1, Alone
  <2>4. PromptTypes'
    BY <2>1, <2>2 DEF PromptTypes
  <2>5. OneReader' /\ Screen' /\ IdleScreen'
    BY <1>1, <2>1, <2>2, <2>3 DEF OneReader, Screen, IdleScreen
  <2>6. Typed' /\ SecretsKept'
    <3>1. line \cap Secret \subseteq history \/ ioThread = "over"
      BY <2>1, <2>3 DEF Typed, PromptTypes
    <3>2. QED
      BY <2>1, <2>2, <3>1 DEF Typed, SecretsKept
  <2>7. QED
    BY <2>4, <2>5, <2>6
<1>5. CASE ShowQuestion(r)
  <2>1. /\ reads[r].at = "show" /\ ReadTo(r, "wait") /\ shownPrompt' = r /\ masked' = (r \in Secret)
        /\ UNCHANGED <<line, promptSender, canceller, answer, history, ioThread, exited, cutShort>>
    BY <1>5 DEF ShowQuestion, Show, loopVars
  <2>2. /\ reads' \in [Reader -> [at : Stops, line : SUBSET Texts]] /\ reads'[r].at = "wait"
        /\ reads'[r].line = reads[r].line /\ \A q \in Reader \ {r} : reads'[q] = reads[q]
    BY <2>1, ReadToFacts DEF Stops
  <2>3. canceller = r /\ \A q \in Reader \ {r} : reads[q].at = "idle"
    BY <2>1, Alone
  <2>4. PromptTypes'
    BY <2>1, <2>2 DEF PromptTypes, Texts
  <2>5. OneReader' /\ Screen' /\ IdleScreen'
    BY <1>1, <2>1, <2>2, <2>3 DEF OneReader, Screen, IdleScreen
  <2>6. Typed' /\ SecretsKept'
    BY <2>1, <2>2, <2>3 DEF Typed, SecretsKept, PromptTypes
  <2>7. QED
    BY <2>4, <2>5, <2>6
<1>6. QED
  BY <1>2, <1>3, <1>4, <1>5

\* The reader has its answer or is cancelled, gives the screen back and lets go.
LEMMA EndsKeep ==
    ASSUME PromptInv, NEW r \in Reader,
           TakeAnswer(r) \/ TakeCancel(r) \/ TakeSender(r) \/ Unmask(r) \/ RestoreLine(r) \/ Unlock(r)
    PROVE  PromptInv'
<1> USE PromptAssumption DEF PromptInv
<1>1. \A q \in Reader : q # Noone /\ q # "cmd"
  BY DEF Noone
<1>2. /\ reads[r].at # "idle" /\ reads[r].at \in {"wait", "cancelled", "unmask", "restore", "unlock"}
      /\ UNCHANGED <<history, ioThread>>
  BY DEF TakeAnswer, TakeCancel, TakeSender, Unmask, RestoreLine, Unlock, loopVars
<1>3. /\ canceller = r /\ \A q \in Reader \ {r} : reads[q].at = "idle"
      /\ promptSender \in {r, Noone} /\ shownPrompt \in {r, "cmd"}
  BY <1>2, Alone
<1>4. CASE TakeAnswer(r)
  <2>1. /\ reads[r].at = "wait" /\ answer[r] = "given" /\ ReadTo(r, "unmask")
        /\ UNCHANGED <<line, shownPrompt, masked, promptSender, canceller, answer, cutShort>>
    BY <1>4 DEF TakeAnswer, screenVars
  <2>2. /\ reads' \in [Reader -> [at : Stops, line : SUBSET Texts]] /\ reads'[r].at = "unmask"
        /\ reads'[r].line = reads[r].line /\ \A q \in Reader \ {r} : reads'[q] = reads[q]
    BY <2>1, ReadToFacts DEF Stops
  <2>3. promptSender = Noone
    BY <1>3, <2>1 DEF Screen
  <2>4. PromptTypes'
    BY <1>2, <2>1, <2>2 DEF PromptTypes
  <2>5. OneReader' /\ Screen' /\ IdleScreen'
    BY <1>1, <1>3, <2>1, <2>2, <2>3 DEF OneReader, Screen, IdleScreen
  <2>6. Typed' /\ SecretsKept'
    BY <1>1, <1>2, <2>1, <2>2, <2>3 DEF Typed, SecretsKept, PromptTypes
  <2>7. QED
    BY <2>4, <2>5, <2>6
<1>5. CASE TakeCancel(r)
  <2>1. /\ reads[r].at = "wait" /\ ReadTo(r, "cancelled")
        /\ UNCHANGED <<line, shownPrompt, masked, promptSender, canceller, answer, cutShort>>
    BY <1>5 DEF TakeCancel, screenVars
  <2>2. /\ reads' \in [Reader -> [at : Stops, line : SUBSET Texts]] /\ reads'[r].at = "cancelled"
        /\ reads'[r].line = reads[r].line /\ \A q \in Reader \ {r} : reads'[q] = reads[q]
    BY <2>1, ReadToFacts DEF Stops
  <2>4. PromptTypes'
    BY <1>2, <2>1, <2>2 DEF PromptTypes
  <2>5. OneReader' /\ Screen' /\ IdleScreen'
    BY <1>1, <1>3, <2>1, <2>2 DEF OneReader, Screen, IdleScreen
  <2>6. Typed' /\ SecretsKept'
    BY <1>1, <1>2, <2>1, <2>2 DEF Typed, SecretsKept, PromptTypes
  <2>7. QED
    BY <2>4, <2>5, <2>6
<1>9. CASE TakeSender(r)
  <2>1. /\ reads[r].at = "cancelled" /\ ReadTo(r, "unmask") /\ promptSender' = Noone
        /\ cutShort' = cutShort \cup ({r} \cap line)
        /\ UNCHANGED <<line, shownPrompt, masked, canceller, answer>>
    BY <1>9 DEF TakeSender, screenVars
  <2>2. /\ reads' \in [Reader -> [at : Stops, line : SUBSET Texts]] /\ reads'[r].at = "unmask"
        /\ reads'[r].line = reads[r].line /\ \A q \in Reader \ {r} : reads'[q] = reads[q]
    BY <2>1, ReadToFacts DEF Stops
  <2>4. PromptTypes'
    BY <1>2, <2>1, <2>2 DEF PromptTypes
  <2>5. OneReader' /\ Screen' /\ IdleScreen'
    BY <1>1, <1>3, <2>1, <2>2 DEF OneReader, Screen, IdleScreen
  <2>6. Typed' /\ SecretsKept'
    BY <1>1, <1>2, <1>3, <2>1, <2>2 DEF Typed, SecretsKept, PromptTypes
  <2>7. QED
    BY <2>4, <2>5, <2>6
<1>6. CASE Unmask(r) \/ RestoreLine(r)
  <2>1. promptSender = Noone
    BY <1>3, <1>6 DEF Screen, Unmask, RestoreLine
  <2>2. /\ UNCHANGED <<promptSender, canceller, answer>>
        /\ \/ line' = line /\ cutShort' = cutShort /\ reads[r].at = "unmask"
           \/ line' = reads[r].line /\ cutShort' = cutShort \cap history /\ reads[r].at = "restore"
        /\ shownPrompt' \in {shownPrompt, "cmd"}
        /\ \/ reads[r].at = "unmask" /\ ReadTo(r, "restore") /\ masked' = FALSE
           \/ reads[r].at = "restore" /\ ReadTo(r, "unlock") /\ masked' = masked /\ shownPrompt' = "cmd"
    BY <1>6 DEF Unmask, RestoreLine
  <2>3. /\ reads' \in [Reader -> [at : Stops, line : SUBSET Texts]]
        /\ reads'[r].line = reads[r].line /\ \A q \in Reader \ {r} : reads'[q] = reads[q]
        /\ \/ reads[r].at = "unmask" /\ reads'[r].at = "restore" /\ masked' = FALSE
           \/ reads[r].at = "restore" /\ reads'[r].at = "unlock" /\ masked' = masked /\ shownPrompt' = "cmd"
    BY <2>2, ReadToFacts DEF Stops
  <2>4. PromptTypes'
    BY <1>2, <2>2, <2>3 DEF PromptTypes, Texts
  <2>5. OneReader' /\ Screen' /\ IdleScreen'
    BY <1>1, <1>3, <2>1, <2>2, <2>3 DEF OneReader, Screen, IdleScreen
  <2>6. Typed' /\ SecretsKept'
    BY <1>1, <1>2, <2>1, <2>2, <2>3 DEF Typed, SecretsKept, PromptTypes
  <2>7. QED
    BY <2>4, <2>5, <2>6
<1>7. CASE Unlock(r)
  <2>1. /\ reads[r].at = "unlock" /\ reads' = [reads EXCEPT ![r] = NotReading] /\ canceller' = Noone
        /\ answer' = [answer EXCEPT ![r] = "none"]
        /\ UNCHANGED <<line, shownPrompt, masked, promptSender, cutShort>>
    BY <1>7 DEF Unlock, screenVars
  <2>2. NotReading.at = "idle" /\ NotReading.line = {} /\ NotReading \in [at : Stops, line : SUBSET Texts]
    BY DEF NotReading, Stops
  <2>3. /\ reads' \in [Reader -> [at : Stops, line : SUBSET Texts]] /\ reads'[r].at = "idle"
        /\ reads'[r].line = {} /\ \A q \in Reader \ {r} : reads'[q] = reads[q]
        /\ answer' \in [Reader -> {"none", "given"}]
        /\ answer'[r] = "none" /\ \A q \in Reader \ {r} : answer'[q] = answer[q]
    BY <2>1, <2>2 DEF PromptTypes
  <2>4. promptSender = Noone /\ shownPrompt = "cmd" /\ ~masked
    BY <1>3, <2>1 DEF Screen
  <2>5. PromptTypes'
    BY <1>2, <2>1, <2>3 DEF PromptTypes
  <2>6. OneReader' /\ Screen' /\ IdleScreen'
    BY <1>1, <1>3, <2>1, <2>3, <2>4 DEF OneReader, Screen, IdleScreen
  <2>7. Typed' /\ SecretsKept'
    BY <1>1, <1>2, <2>1, <2>3, <2>4 DEF Typed, SecretsKept
  <2>8. QED
    BY <2>5, <2>6, <2>7
<1>8. QED
  BY <1>4, <1>5, <1>6, <1>7, <1>9

LEMMA PromptStep ==
    ASSUME PromptInv, [NextPrompt]_promptVars
    PROVE  PromptInv'
<1>1. CASE UNCHANGED promptVars
  BY <1>1 DEF promptVars, PromptInv, PromptTypes, OneReader, Screen, IdleScreen, Typed, SecretsKept
<1>2. CASE NextPrompt
  BY <1>2, KeysKeep, LoopsKeep, AsksKeep, EndsKeep DEF NextPrompt, ReadStep
<1>3. QED
  BY <1>1, <1>2

-------------------------------------------------------------------------------
\* Nothing is kept that should be gone, whichever steps of sessions, handler, readers and
\* keyboard come between. on_close leaves no application and no listener behind, unless the
\* session registered again after it was deleted (revived). read_input leaves no secret in
\* the history or unmasked in the line, unless its read was cancelled while it was typed and
\* the line not restored yet (cutShort), and no prompt of a question that is over.
THEOREM ApplicationsNothingKept == Spec => []NothingKept
<1> DEFINE AppInv == XswdInv /\ Closed /\ PromptInv
<1>1. Init => AppInv
  <2>1. InitXswd => Closed
    <3>1. Resting.at = "rest"
      BY DEF Resting
    <3>2. QED
      BY <3>1 DEF InitXswd, InitSockets, Closed, ClosedWell
  <2>2. QED
    BY <2>1, XswdInitially, PromptStarts DEF Init
<1>2. AppInv /\ [Next]_vars => AppInv'
  <2> SUFFICES ASSUME AppInv, [Next]_vars PROVE AppInv'
    OBVIOUS
  <2>1. [NextXswd]_xswdVars /\ [NextPrompt]_promptVars
    BY DEF Next, vars
  <2>2. QED
    BY <2>1, XswdStep, ClosedStep, PromptStep
<1>3. AppInv => NothingKept
  <2> SUFFICES ASSUME AppInv PROVE NothingKept
    OBVIOUS
  <2>1. NoAppOver
    BY DEF NoAppOver, Closed, ClosedWell
  <2>2. SecretsKept
    BY DEF PromptInv
  <2>3. SecretsMasked
    BY PromptAssumption DEF SecretsMasked, PromptInv, Typed, PromptTypes, Screen
  <2>4. PromptRestored
    BY PromptAssumption DEF PromptRestored, PromptInv, PromptTypes, OneReader, Screen, IdleScreen, Texts, Noone
  <2>5. QED
    BY <2>1, <2>2, <2>3, <2>4 DEF NothingKept
<1> HIDE DEF AppInv
<1>4. QED
  BY <1>1, <1>2, <1>3, PTL DEF Spec
===============================================================================
