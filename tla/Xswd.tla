---------------------------------- MODULE Xswd ----------------------------------
(* XSWD: applications talk to the wallet over a websocket. The user admits each of
   them and decides on every method they call, one question at a time; the answer
   comes from the terminal through a channel and a handler task. A question can
   be cancelled: cancel_read_input leaves a token that ends the current read, or
   the next one.

   Methods of the node need no permission and change nothing here. What a method
   of the wallet does is not this module's concern.                              *)
EXTENDS SocketServer

CONSTANTS
    AppId,      \* ids the applications claim
    Method      \* methods of the wallet, subscriptions included

VARIABLES
    apps,       \* applications: the state of each session's application
    appsLock,   \* the session whose on_close holds applications for writing
    doing,      \* how far on_message of each session is
    permit,     \* who holds permission_handler_semaphore
    toHandler,  \* XSWDEvents not received yet
    handler,    \* what xswd_handler waits for
    questions,  \* sessions whose question the terminal reads an answer to
    tokens,     \* messages of cancel_read_input nobody has read
    listeners,  \* sessions with an entry in listeners
    consent,    \* what the user last said to each session and method
    revived     \* sessions whose application came after they were deleted

appVars == <<apps, appsLock, doing, permit, toHandler, handler, questions, tokens, listeners, consent,
             revived>>
xswdVars == <<socketVars, appVars>>

Nobody == "nobody"

ASSUME XswdAssumption == Nobody \notin Session \cup AppId

NoApp == [id |-> Nobody]
Resting == [at |-> "rest", method |-> Nobody]
NewApp(id) == [id |-> id, perms |-> [m \in Method |-> "ask"], requesting |-> FALSE]
HasApp(id) == \E s \in Session : apps[s].id = id
Ask(s, kind) == toHandler' = Append(toHandler, [kind |-> kind, of |-> s])
DoingTo(s, at) == doing' = [doing EXCEPT ![s].at = at]
Rests(s) == doing' = [doing EXCEPT ![s] = Resting]
Requests(s, value) == apps' = [apps EXCEPT ![s].requesting = value]
Consents(s, said) == consent' = [consent EXCEPT ![<<s, doing[s].method>>] = said]

InitXswd ==
    /\ InitSockets
    /\ apps = [s \in Session |-> NoApp] /\ appsLock = Nobody
    /\ doing = [s \in Session |-> Resting] /\ permit = Nobody
    /\ toHandler = <<>> /\ handler = Nobody /\ questions = {} /\ tokens = 0
    /\ listeners = {} /\ revived = {} /\ consent = [x \in Session \X Method |-> "none"]

(* A message arrives at a session at rest; applications must be free to read.    *)
Message(s) == task[s] = "loop" /\ doing[s] = Resting /\ client[s] = "there" /\ appsLock = Nobody

-------------------------------------------------------------------------------
(* add_application: the data is checked, then the id.                            *)
AddApplication(s, id, valid) ==
    /\ Message(s) /\ apps[s] = NoApp
    /\ doing' = [doing EXCEPT ![s] =
                  [at |-> IF valid /\ ~HasApp(id) THEN "insert" ELSE "refuse", method |-> id]]
    /\ UNCHANGED <<socketVars, apps, appsLock, permit, toHandler, handler, questions, tokens, listeners, consent, revived>>

InsertApplication(s) ==
    /\ doing[s].at = "insert" /\ appsLock = Nobody
    /\ apps' = [apps EXCEPT ![s] = NewApp(doing[s].method)]
    /\ DoingTo(s, "admit")
    /\ revived' = revived \cup ({s} \ registered)
    /\ UNCHANGED <<socketVars, appsLock, permit, toHandler, handler, questions, tokens, listeners, consent>>

AskAdmission(s) ==
    /\ doing[s].at = "admit" /\ permit = Nobody /\ permit' = s
    /\ Requests(s, TRUE) /\ Ask(s, "application") /\ DoingTo(s, "admission")
    /\ UNCHANGED <<socketVars, appsLock, handler, questions, tokens, listeners, consent, revived>>

(* The session of an application that is not admitted is deleted; its task goes on
   and finds the session closed.                                                 *)
Refuse(s) ==
    /\ doing[s].at = "refuse" /\ DeleteSession(s, "loop")
    /\ IF s \in registered THEN DoingTo(s, "refused") ELSE Rests(s)
    /\ UNCHANGED <<apps, appsLock, permit, toHandler, handler, questions, tokens, listeners, consent, revived>>

-------------------------------------------------------------------------------
(* A method of the wallet.                                                       *)
Call(s, m) ==
    /\ Message(s) /\ apps[s] # NoApp
    /\ Requests(s, TRUE)
    /\ doing' = [doing EXCEPT ![s] = [at |-> "verify", method |-> m]]
    /\ UNCHANGED <<socketVars, appsLock, permit, toHandler, handler, questions, tokens, listeners, consent, revived>>

(* Fault: questions do not wait for one another.                                 *)
PermitTakenAnyway(s) == permit' = s

PermitTaken(s) == permit = Nobody /\ permit' = s

(* verify_permission_for_request, when there is nothing to ask: the application is
   not registered any more, or the user decided before. After an error the
   application still counts as requesting.                                       *)
Known(s) ==
    LET permission == apps[s].perms[doing[s].method]
    IN  /\ doing[s].at = "verify" /\ appsLock = Nobody /\ permit = Nobody
        /\ HasApp(apps[s].id) => permission # "ask"
        /\ IF HasApp(apps[s].id) /\ permission = "accept"
           THEN Requests(s, FALSE) /\ DoingTo(s, "run")
           ELSE Rests(s) /\ UNCHANGED apps
        /\ UNCHANGED <<socketVars, appsLock, permit, toHandler, handler, questions, tokens, listeners, consent, revived>>

AskPermission(s) ==
    /\ doing[s].at = "verify" /\ appsLock = Nobody
    /\ HasApp(apps[s].id) /\ apps[s].perms[doing[s].method] = "ask"
    /\ PermitTaken(s)
    /\ Ask(s, "permission") /\ DoingTo(s, "permission")
    /\ UNCHANGED <<socketVars, apps, appsLock, handler, questions, tokens, listeners, consent, revived>>

(* The method runs; subscribe makes the session a listener.                      *)
RunMethod(s) ==
    /\ doing[s].at = "run" /\ Rests(s)
    /\ listeners' \in {listeners, listeners \cup {s}}
    /\ consent' = [consent EXCEPT ![<<s, doing[s].method>>] = IF @ = "once" THEN "none" ELSE @]
    /\ UNCHANGED <<socketVars, apps, appsLock, permit, toHandler, handler, questions, tokens, revived>>

-------------------------------------------------------------------------------
(* xswd_handler and the terminal. A request for an application is read by a task
   of its own, one for a method by the handler itself.                           *)
HandlerAsks ==
    /\ handler = Nobody /\ toHandler # <<>> /\ Head(toHandler).kind # "cancel"
    /\ LET e == Head(toHandler)
       IN  /\ handler' = IF e.kind = "permission" THEN e.of ELSE Nobody
           /\ questions' = questions \cup {e.of}
    /\ toHandler' = Tail(toHandler)
    /\ UNCHANGED <<socketVars, apps, appsLock, doing, permit, tokens, listeners, consent, revived>>

(* cancel_read_input waits while an earlier token is unread.                     *)
Jammed == handler = Nobody /\ toHandler # <<>> /\ Head(toHandler).kind = "cancel" /\ tokens = 1

HandlerCancels ==
    /\ handler = Nobody /\ toHandler # <<>> /\ Head(toHandler).kind = "cancel" /\ tokens = 0
    /\ tokens' = 1 /\ toHandler' = Tail(toHandler)
    /\ TaskTo(Head(toHandler).of, "listeners")
    /\ UNCHANGED <<registered, open, client, closeSent, drained, apps, appsLock, doing, permit,
                   handler, questions, listeners, consent, revived>>

(* Another command of the user reads a line: the token cancels it.               *)
OtherRead ==
    /\ tokens = 1 /\ questions = {} /\ tokens' = 0
    /\ UNCHANGED <<socketVars, apps, appsLock, doing, permit, toHandler, handler, questions, listeners, consent, revived>>

(* Fault: a refusal returns without giving the permit back.                      *)
PermitBackNot(said) == IF said = "deny" THEN permit ELSE Nobody

(* The permit is dropped when the function returns, with or without an error.    *)
PermitBack(said) == Nobody

(* An answer, or a token in its place.                                           *)
Answers(s, said) ==
    /\ s \in questions /\ questions' = questions \ {s}
    /\ IF tokens = 1 THEN said = "cancelled" /\ tokens' = 0 ELSE said # "cancelled" /\ UNCHANGED tokens
    /\ handler' = IF handler = s THEN Nobody ELSE handler
    /\ permit' = PermitBack(said)
    /\ UNCHANGED <<socketVars, toHandler, listeners, revived>>

(* A no, or a token, takes the application out again.                            *)
Admission(s, said) ==
    /\ doing[s].at = "admission" /\ Answers(s, said) /\ appsLock = Nobody
    /\ IF said = "allow" THEN Rests(s) /\ Requests(s, FALSE)
       ELSE DoingTo(s, "refuse") /\ apps' = [apps EXCEPT ![s] = NoApp]
    /\ UNCHANGED <<appsLock, consent>>

(* Fault: allowing one call allows them all.                                      *)
DecidedForAll(app, m, said) ==
    [app EXCEPT !.perms[m] = "accept", !.requesting = FALSE]

(* Always deny is stored like always allow. After a refusal the application still
   counts as requesting.                                                         *)
Decided(app, m, said) ==
    [app EXCEPT !.perms[m] = IF said \in {"always", "never"} THEN "accept" ELSE @,
                !.requesting = said \notin {"allow", "always"}]

Permission(s, said) ==
    /\ doing[s].at = "permission" /\ Answers(s, said)
    /\ apps' = [apps EXCEPT ![s] = Decided(@, doing[s].method, said)]
    /\ IF said \in {"allow", "always"} THEN DoingTo(s, "run") ELSE Rests(s)
    /\ Consents(s, IF said = "allow" THEN "once" ELSE said)
    /\ UNCHANGED appsLock

-------------------------------------------------------------------------------
(* The task of a session ends only between two messages.                         *)
Leaves(s) == doing[s] = Resting /\ LoopEnds(s) /\ UNCHANGED appVars

DeleteApp(s) ==
    /\ task[s] = "delete" /\ DeleteSession(s, "over")
    /\ UNCHANGED appVars

(* on_close: an application that counts as requesting has its question cancelled,
   and applications stay locked until the handler took note.                     *)
AppCloses(s) ==
    /\ task[s] = "on_close" /\ appsLock = Nobody
    /\ apps' = [apps EXCEPT ![s] = NoApp]
    /\ IF apps[s] # NoApp /\ apps[s].requesting
       THEN appsLock' = s /\ Ask(s, "cancel") /\ TaskTo(s, "cancelling")
       ELSE TaskTo(s, "listeners") /\ UNCHANGED <<appsLock, toHandler>>
    /\ UNCHANGED <<registered, open, client, closeSent, drained, doing, permit, handler, questions,
                   tokens, listeners, consent, revived>>

ListenerGone(s) ==
    /\ task[s] = "listeners"
    /\ IF doing[s].at = "refused" THEN TaskTo(s, "loop") /\ Rests(s) ELSE TaskTo(s, "over") /\ UNCHANGED doing
    /\ listeners' = listeners \ {s}
    /\ appsLock' = IF appsLock = s THEN Nobody ELSE appsLock
    /\ UNCHANGED <<registered, open, client, closeSent, drained, apps, permit, toHandler,
                   handler, questions, tokens, consent, revived>>

TakesTurn(s) == AskAdmission(s) \/ Known(s) \/ AskPermission(s)

Runs(s) ==
    \/ InsertApplication(s) \/ Refuse(s) \/ TakesTurn(s) \/ RunMethod(s)
    \/ Leaves(s) \/ DeleteApp(s) \/ AppCloses(s) \/ ListenerGone(s)

UserAnswers ==
    \E s \in questions :
        \/ \E said \in {"allow", "deny", "cancelled"} : Admission(s, said)
        \/ \E said \in {"allow", "deny", "always", "never", "cancelled"} : Permission(s, said)

NextXswd ==
    \/ HandlerAsks \/ HandlerCancels \/ OtherRead \/ UserAnswers
    \/ \E s \in Session :
         \/ Runs(s)
         \/ \E id \in AppId, valid \in BOOLEAN : AddApplication(s, id, valid)
         \/ \E m \in Method : Call(s, m)
         \/ HandleConnection(s) /\ UNCHANGED appVars
         \/ \E how \in {"closed", "silent"} : ClientLeaves(s, how) /\ UNCHANGED appVars

(* The server of the applications on its own.                                    *)
XswdSpec == InitXswd /\ [][NextXswd]_xswdVars

(* Tasks run, the semaphore is fair, and the user answers.                       *)
XswdFairness ==
    /\ WF_xswdVars(HandlerAsks) /\ WF_xswdVars(HandlerCancels) /\ WF_xswdVars(UserAnswers)
    /\ \A s \in Session : WF_xswdVars(Runs(s)) /\ SF_xswdVars(TakesTurn(s))

-------------------------------------------------------------------------------
(* The user is asked one question at a time, whichever applications want one.    *)
OneQuestion ==
    Cardinality(questions \cup {s \in Session : doing[s].at \in {"admission", "permission"}}) <= 1

(* No method runs that the user was not asked about: neither a no nor a cancelled
   question lets it through, nor a yes to another call, method or application,
   whatever comes and goes meanwhile. An answer for good counts as asked, and
   always deny is one: that it lets the method run later is the matter of
   ConsentFirst.                                                                 *)
AskedFirst ==
    \A s \in Session : doing[s].at = "run" =>
        consent[<<s, doing[s].method>>] \in {"once", "always", "never"}

(* A method runs only when the user allowed this call, or all calls of it by this
   application. It does not hold: always deny is stored as always accept.        *)
ConsentFirst ==
    \A s \in Session : doing[s].at = "run" =>
        consent[<<s, doing[s].method>>] \in {"once", "always"}

(* A session that is over has no application and listens to no event, or the id
   would stay in use and events be sent for ever. Excepted is a session whose
   first registration was refused, and which sent another one before its task
   noticed that it was closed: on_close is not called again.                     *)
NoAppOver == \A s \in Session : task[s] = "over" => s \in revived \/ (apps[s] = NoApp /\ s \notin listeners)

(* Every application that waits to ask gets its turn, whatever the others were
   answered and whoever left, unless the handler waits for somebody to read the
   token of an earlier cancel. That may be for ever: an application whose call was
   denied still counts as requesting, so its cancel finds no question to end, and
   the next one waits with applications locked.                                  *)
EveryoneAsked ==
    \A s \in Session : doing[s].at \in {"admit", "verify"} ~> doing[s].at \notin {"admit", "verify"} \/ Jammed
===============================================================================
