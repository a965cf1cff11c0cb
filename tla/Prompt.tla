--------------------------------- MODULE Prompt ---------------------------------
(* The terminal of the daemon, the wallet and the miner: a thread reads keys into
   a line, the main loop takes finished lines as commands, and tasks ask the user
   questions (read_input), some of them for secrets that are masked. A question
   borrows the line and the prompt and gives them back.

   Text is abstracted to what its characters were typed for: the reader of a secret
   whose question was on the screen and still open, or "cmd" for all the rest. How
   a line looks on the screen is left out.                                       *)
EXTENDS Xswd

CONSTANTS
    Reader,     \* tasks that ask a question
    Secret      \* those whose answer is masked

ASSUME PromptAssumption == Secret \subseteq Reader /\ {"noone", "cmd"} \cap Reader = {}

VARIABLES
    line,           \* user_input: what its characters were typed for
    shownPrompt,    \* prompt: whose text it is
    masked,         \* mask_input
    promptSender,   \* prompt_sender: who gets the next finished line
    canceller,      \* the reader that holds read_input_receiver
    cancels,        \* messages in the channel of cancel_read_input, at most 1
    reads,          \* how far each read_input is, and what it saved
    answer,         \* how each read in progress ended
    history,        \* what the lines of the command history were typed for
    ticking,        \* the main loop is about to update the prompt
    ioThread,       \* the thread of ioloop
    exited,         \* has_exited
    running,        \* the main loop of start runs
    tooLate,        \* readers that registered after ioloop had looked for them
    cutShort        \* readers whose text outlived their cancelled read: in the line, or remembered

promptVars == <<line, shownPrompt, masked, promptSender, canceller, cancels, reads, answer,
                history, ticking, ioThread, exited, running, tooLate, cutShort>>
screenVars == <<line, shownPrompt, masked>>
loopVars == <<ticking, ioThread, running>>

Noone == "noone"
NotReading == [at |-> "idle", line |-> {}]

InitPrompt ==
    /\ line = {} /\ shownPrompt = "cmd" /\ masked = FALSE
    /\ promptSender = Noone /\ canceller = Noone /\ cancels = 0
    /\ reads = [r \in Reader |-> NotReading] /\ answer = [r \in Reader |-> "none"]
    /\ history = {} /\ ticking = FALSE /\ ioThread = "reads" /\ exited = FALSE /\ running = TRUE
    /\ tooLate = {} /\ cutShort = {}

ReadTo(r, at) == reads' = [reads EXCEPT ![r].at = at]

-------------------------------------------------------------------------------
(* ioloop: one key after the other.                                              *)
TypedFor == IF promptSender = shownPrompt /\ shownPrompt \in Secret THEN shownPrompt ELSE "cmd"

Key ==
    /\ ioThread = "reads"
    /\ UNCHANGED <<shownPrompt, masked, canceller, cancels, reads, ticking, exited, running, tooLate, cutShort>>

(* A character or a paste; backspace; a line of the history.                     *)
Type ==
    /\ Key
    /\ \/ line' = line \cup {TypedFor}
       \/ line' = {}
       \/ line = {} /\ line' \in {{tag} : tag \in history}
    /\ UNCHANGED <<promptSender, answer, history, ioThread>>

(* Fault: every line is remembered.                                              *)
RememberedAll == history \cup line

(* A line is remembered when it is a command.                                    *)
Remembered == IF promptSender = Noone THEN history \cup line ELSE history

(* The one-shot channel of a reader that was cancelled has no receiver.          *)
HungUp == promptSender # Noone /\ reads[promptSender].at = "cancelled"

SentTo == IF promptSender = Noone \/ HungUp THEN answer ELSE [answer EXCEPT ![promptSender] = "given"]

(* A finished line goes to the reader, or becomes a command. The thread ends when
   the reader has hung up, or the main loop is no more there for the command.    *)
Enter ==
    /\ Key /\ line' = {} /\ promptSender' = Noone
    /\ history' = Remembered /\ answer' = SentTo
    /\ ioThread' = IF HungUp \/ (promptSender = Noone /\ line # {} /\ ~running) THEN "exiting" ELSE ioThread

(* CTRL+C, or an error of the terminal, ends the thread: has_exited, then whoever
   reads is let go, then stop.                                                   *)
CtrlC ==
    /\ Key /\ ioThread' = "exiting"
    /\ UNCHANGED <<line, promptSender, answer, history>>

IoExits ==
    /\ ioThread = "exiting" /\ ioThread' = "releasing"
    /\ exited' = TRUE
    /\ UNCHANGED <<screenVars, promptSender, canceller, cancels, reads, answer, history, ticking,
                   running, tooLate, cutShort>>

(* An empty line unblocks the reader; then the main loop is told to exit.        *)
IoReleases ==
    /\ ioThread = "releasing" /\ ioThread' = "over"
    /\ answer' = SentTo /\ promptSender' = Noone
    /\ UNCHANGED <<screenVars, canceller, cancels, reads, history, ticking, exited, running, tooLate, cutShort>>

-------------------------------------------------------------------------------
(* start: the prompt is renewed every now and then unless somebody reads. The new
   text is computed in between.                                                  *)
Tick ==
    /\ running /\ ~ticking /\ promptSender = Noone /\ ticking' = TRUE
    /\ UNCHANGED <<screenVars, promptSender, canceller, cancels, reads, answer, history, ioThread,
                   exited, running, tooLate, cutShort>>

UpdatePrompt ==
    /\ ticking /\ ticking' = FALSE /\ shownPrompt' = "cmd"
    /\ UNCHANGED <<line, masked, promptSender, canceller, cancels, reads, answer, history, ioThread,
                   exited, running, tooLate, cutShort>>

(* The exit signal, CTRL+C or the command exit ends the main loop. Whoever reads is
   left waiting for the keyboard.                                                *)
StartEnds ==
    /\ running /\ ~ticking /\ running' = FALSE /\ exited' = TRUE
    /\ UNCHANGED <<screenVars, promptSender, canceller, cancels, reads, answer, history, ticking, ioThread,
                   tooLate, cutShort>>

cancel_read_input ==
    /\ cancels = 0 /\ cancels' = 1
    /\ UNCHANGED <<screenVars, promptSender, canceller, reads, answer, history, loopVars, exited, tooLate, cutShort>>

-------------------------------------------------------------------------------
(* read_input, one reader at a time, each as often as its task asks. It fails at
   once when has_exited is set.                                                  *)
Lock(r) ==
    /\ reads[r] = NotReading /\ canceller = Noone /\ ~exited
    /\ canceller' = r /\ ReadTo(r, "register")
    /\ UNCHANGED <<screenVars, promptSender, cancels, answer, history, loopVars, exited, tooLate, cutShort>>

Register(r) ==
    /\ reads[r].at = "register" /\ ReadTo(r, "save")
    /\ promptSender' = r
    /\ tooLate' = IF ioThread = "over" THEN tooLate \cup {r} ELSE tooLate
    /\ UNCHANGED <<screenVars, canceller, cancels, answer, history, loopVars, exited, cutShort>>

(* The line so far is kept for later.                                            *)
Save(r) ==
    /\ reads[r].at = "save" /\ reads' = [reads EXCEPT ![r] = [at |-> "show", line |-> line]]
    /\ line' = {}
    /\ UNCHANGED <<shownPrompt, masked, promptSender, canceller, cancels, answer, history, loopVars,
                   exited, tooLate, cutShort>>

Show(r) == shownPrompt' = r /\ masked' = (r \in Secret)

ShowQuestion(r) ==
    /\ reads[r].at = "show" /\ ReadTo(r, "wait") /\ Show(r)
    /\ UNCHANGED <<line, promptSender, canceller, cancels, answer, history, loopVars, exited, tooLate, cutShort>>

TakeAnswer(r) ==
    /\ reads[r].at = "wait" /\ answer[r] = "given" /\ ReadTo(r, "unmask")
    /\ UNCHANGED <<screenVars, promptSender, canceller, cancels, answer, history, loopVars, exited, tooLate, cutShort>>

(* A cancel drops the receiver, and then takes the sender away.                  *)
TakeCancel(r) ==
    /\ reads[r].at = "wait" /\ cancels = 1 /\ cancels' = 0
    /\ ReadTo(r, "cancelled")
    /\ UNCHANGED <<screenVars, promptSender, canceller, answer, history, loopVars, exited, tooLate, cutShort>>

TakeSender(r) ==
    /\ reads[r].at = "cancelled" /\ ReadTo(r, "unmask")
    /\ promptSender' = Noone /\ cutShort' = cutShort \cup ({r} \cap line)
    /\ UNCHANGED <<screenVars, canceller, cancels, answer, history, loopVars, exited, tooLate>>

Unmask(r) ==
    /\ reads[r].at = "unmask" /\ ReadTo(r, "restore")
    /\ masked' = FALSE
    /\ UNCHANGED <<line, shownPrompt, promptSender, canceller, cancels, answer, history, loopVars,
                   exited, tooLate, cutShort>>

RestoreLine(r) ==
    /\ reads[r].at = "restore" /\ ReadTo(r, "unlock")
    /\ line' = reads[r].line /\ shownPrompt' = "cmd" /\ cutShort' = cutShort \cap history
    /\ UNCHANGED <<masked, promptSender, canceller, cancels, answer, history, loopVars, exited, tooLate>>

Unlock(r) ==
    /\ reads[r].at = "unlock" /\ reads' = [reads EXCEPT ![r] = NotReading]
    /\ canceller' = Noone /\ answer' = [answer EXCEPT ![r] = "none"]
    /\ UNCHANGED <<screenVars, promptSender, cancels, history, loopVars, exited, tooLate, cutShort>>

ReadStep(r) ==
    \/ Lock(r) \/ Register(r) \/ Save(r) \/ ShowQuestion(r) \/ TakeAnswer(r) \/ TakeCancel(r)
    \/ TakeSender(r) \/ Unmask(r) \/ RestoreLine(r) \/ Unlock(r)

NextPrompt ==
    \/ Type \/ Enter \/ CtrlC \/ IoExits \/ IoReleases \/ Tick \/ UpdatePrompt \/ StartEnds
    \/ cancel_read_input
    \/ \E r \in Reader : ReadStep(r)

(* Threads and tasks run; no key has to be pressed.                              *)
PromptFairness ==
    /\ WF_promptVars(IoExits \/ IoReleases) /\ WF_promptVars(UpdatePrompt)
    /\ \A r \in Reader : WF_promptVars(ReadStep(r) /\ reads[r] # NotReading)

-------------------------------------------------------------------------------
(* What is typed for a secret enters the history only between the cancel of its
   read and the restored line: until then a return makes a command of it. No other
   order of the keyboard, the main loop and the readers lets it through.         *)
SecretsKept == history \cap Secret \subseteq cutShort

(* The characters of a secret are masked as long as they are in the line, unless
   they entered it after such a cancel, or the keyboard is gone.                 *)
SecretsMasked == line \cap Secret # {} => masked \/ ioThread = "over" \/ line \cap Secret \subseteq cutShort

(* When nobody reads, the prompt of a question is gone and the input is shown.   *)
PromptRestored == canceller = Noone => shownPrompt = "cmd" /\ ~masked

(* Once the thread of the keyboard ends nobody waits for an answer any more, apart
   from a reader that had seen has_exited unset and registered too late. The end
   of the main loop alone lets nobody go.                                        *)
ReadersEnd ==
    \A r \in Reader : ioThread # "reads" ~> reads[r] = NotReading \/ canceller \in tooLate
-------------------------------------------------------------------------------
(* The applications of a wallet and its terminal, on which their questions are
   answered. They share no state: the first state chooses the one of Parts that
   moves, and what holds of each alone holds here.                               *)

CONSTANT Parts    \* "xswd", "prompt"

VARIABLE part

vars == <<part, xswdVars, promptVars>>

Init == part \in Parts /\ InitXswd /\ InitPrompt

Next ==
    /\ UNCHANGED part
    /\ \/ part = "xswd" /\ NextXswd /\ UNCHANGED promptVars
       \/ part = "prompt" /\ NextPrompt /\ UNCHANGED xswdVars

Fairness == XswdFairness /\ PromptFairness

Spec == Init /\ [][Next]_vars /\ Fairness

\* Nothing is kept that should be gone: no application of a closed session but a revived one, no secret in
\* the history or on the screen but one whose read was cancelled and its line not restored yet, no prompt
\* of a question that is over.
NothingKept == NoAppOver /\ SecretsKept /\ SecretsMasked /\ PromptRestored

\* Every application that waits for the user is asked about, and every read ends when the keyboard does.
EveryoneServed == EveryoneAsked /\ ReadersEnd
===============================================================================
