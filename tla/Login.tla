-------------------------------- MODULE Login --------------------------------
(***************************************************************************)
(* Signing in and out: the LockScreen image, the Shell image that brokers  *)
(* authentication, the User service behind it, and the session context     *)
(* that Shell hands to Flow and Atrium.                                     *)
(*                                                                         *)
(* Each service is a loop that polls its queues; an action is the handling *)
(* of one queue by one service.  A send to a full queue is either retried  *)
(* by the loop (a "pending" field) or lost, as the code has it.  The form  *)
(* of LockScreen and its surfaces at Display are machines with variables   *)
(* of their own, below.                                                    *)
(*                                                                         *)
(* Abstractions: credentials are right or wrong, a context is the session  *)
(* it carries (0 is the empty one).  "serial" numbers LockScreen's          *)
(* submissions, "dropped" and "ignored" remember a submission or a logout  *)
(* that was let fall, "abandoned" the sessions no one can name any more,   *)
(* "crossed" the answers LockScreen took for those of another submission.  *)
(*                                                                         *)
(* The form itself, a machine with variables of its own, follows below.    *)
(***************************************************************************)
EXTENDS Naturals, Sequences, FiniteSets

CONSTANTS MAX_LOGIN_RETRIES,
          Slots,          \* capacity of a queue
          MaxSubmits, MaxSessions, MaxRestarts

VARIABLES lock,      \* LockScreen
          shell,     \* Shell and its loop's pending sends
          atrium,    \* Atrium: authenticated
          flow,      \* the context Flow adopted
          user,      \* User: claimed, live sessions
          queue,     \* name -> sequence of messages
          restarts, abandoned, dropped, ignored, crossed

vars == <<lock, shell, atrium, flow, user, queue, restarts, abandoned, dropped,
          ignored, crossed>>

Queues == {"lock", "answer", "ask", "reply", "flow", "atrium", "control", "hook"}

NewLock == [mode |-> "Login", submitting |-> FALSE, auth |-> <<>>,
            visible |-> TRUE, serial |-> 0]

\* Shell starts with the probe that asks whether the system is claimed.
NewShell == [context |-> 0, request |-> 1, operation |-> "Login", logout |-> FALSE,
             next |-> 2, retries |-> 0, probe |-> 1,
             user |-> <<[id |-> 1, op |-> "Login", right |-> FALSE, session |-> 0]>>,
             lock |-> <<>>, answer |-> <<>>, flow |-> <<0>>, atrium |-> <<0>>]

Init ==
    /\ lock = NewLock /\ shell = NewShell
    /\ atrium = FALSE /\ flow = 0
    /\ user \in {[claimed |-> c, live |-> {}, next |-> 1] : c \in BOOLEAN}
    /\ queue = [q \in Queues |-> <<>>]
    /\ restarts = 0 /\ abandoned = {} /\ dropped = FALSE /\ ignored = FALSE
    /\ crossed = {}

Room(q) == Len(queue[q]) < Slots
Put(qs, q, m) == [qs EXCEPT ![q] = Append(@, m)]
Taken(q) == [queue EXCEPT ![q] = Tail(@)]
\* A send whose result the code ignores.
Offer(qs, q, m) == IF Len(qs[q]) < Slots THEN Put(qs, q, m) ELSE qs

------------------------------------------------------------------------------
(* LockScreen.                                                               *)

\* A valid form is submitted; the request waits for room in Shell's queue.
Submit(right) ==
    /\ lock.visible /\ ~lock.submitting /\ lock.auth = <<>>
    /\ lock.serial < MaxSubmits
    /\ lock' = [lock EXCEPT !.submitting = TRUE, !.serial = @ + 1,
                   !.auth = <<[op |-> lock.mode, right |-> right,
                               serial |-> lock.serial + 1]>>]
    /\ UNCHANGED <<shell, atrium, flow, user, queue, restarts, abandoned, dropped,
                   ignored, crossed>>

SendAuth ==
    /\ lock.auth # <<>> /\ Room("lock")
    /\ queue' = Put(queue, "lock", lock.auth[1])
    /\ lock' = [lock EXCEPT !.auth = <<>>]
    /\ UNCHANGED <<shell, atrium, flow, user, restarts, abandoned, dropped, ignored,
                   crossed>>

\* Every answer ends the submission under way, whichever it answers.
apply_status(l, status) ==
    [l EXCEPT !.submitting = FALSE,
              !.mode = CASE status = "Unclaimed" -> "Claim"
                         [] status = "Ok" -> "Login"
                         [] OTHER -> @]

LockAnswered ==
    /\ queue["answer"] # <<>>
    /\ LET m == queue["answer"][1] IN
       /\ lock' = apply_status(lock, m.status)
       /\ crossed' = IF ~lock.submitting \/ m.serial = lock.serial THEN crossed
                     ELSE crossed \cup {IF m.serial = 0 THEN "probe" ELSE "late"}
    /\ queue' = Taken("answer")
    /\ UNCHANGED <<shell, atrium, flow, user, restarts, abandoned, dropped, ignored>>

\* Hiding forgets a request that was not sent yet; the form stays submitting.
SectionHook ==
    /\ queue["hook"] # <<>>
    /\ LET show == queue["hook"][1] IN
       lock' = IF show = lock.visible THEN lock
               ELSE IF show THEN [lock EXCEPT !.visible = TRUE]
               ELSE [lock EXCEPT !.visible = FALSE, !.auth = <<>>]
    /\ dropped' = (dropped \/ (~queue["hook"][1] /\ lock.auth # <<>>))
    /\ queue' = Taken("hook")
    /\ UNCHANGED <<shell, atrium, flow, user, restarts, abandoned, ignored, crossed>>

------------------------------------------------------------------------------
(* Shell.                                                                    *)

FlushFlow ==
    /\ shell.flow # <<>> /\ Room("flow")
    /\ queue' = Put(queue, "flow", shell.flow[1])
    /\ shell' = [shell EXCEPT !.flow = <<>>]
    /\ UNCHANGED <<lock, atrium, flow, user, restarts, abandoned, dropped, ignored,
                   crossed>>

FlushAtrium ==
    /\ shell.atrium # <<>> /\ Room("atrium")
    /\ queue' = Put(queue, "atrium", shell.atrium[1])
    /\ shell' = [shell EXCEPT !.atrium = <<>>]
    /\ UNCHANGED <<lock, atrium, flow, user, restarts, abandoned, dropped, ignored,
                   crossed>>

FlushLock ==
    /\ shell.answer # <<>> /\ Room("answer")
    /\ queue' = Put(queue, "answer", shell.answer[1])
    /\ shell' = [shell EXCEPT !.answer = <<>>]
    /\ UNCHANGED <<lock, atrium, flow, user, restarts, abandoned, dropped, ignored,
                   crossed>>

\* Mutant: Flow is not told that the session ended.
logoutMutant(s) ==
    [s EXCEPT !.context = 0, !.request = s.next, !.operation = "Logout",
              !.logout = TRUE, !.next = @ + 1, !.atrium = <<0>>,
              !.user = <<[id |-> s.next, op |-> "Logout", right |-> TRUE,
                          session |-> s.context]>>]

\* The context goes at once; the request for User replaces the one pending.
logout(s) ==
    [s EXCEPT !.context = 0, !.request = s.next, !.operation = "Logout",
              !.logout = TRUE, !.next = @ + 1, !.flow = <<0>>, !.atrium = <<0>>,
              !.user = <<[id |-> s.next, op |-> "Logout", right |-> TRUE,
                          session |-> s.context]>>]

\* A Logout that finds a request still to be sent, or no session, is let fall.
Control ==
    /\ queue["control"] # <<>>
    /\ queue' = Taken("control")
    /\ IF shell.user = <<>> /\ shell.context # 0
       THEN shell' = logout(shell) /\ UNCHANGED ignored
       ELSE /\ UNCHANGED shell
            /\ ignored' = (ignored \/ shell.context # 0
                                   \/ (shell.request # 0 /\ shell.operation = "Login"))
    /\ UNCHANGED <<lock, atrium, flow, user, restarts, abandoned, dropped, crossed>>

CanBegin(op) ==
    shell.request = 0 /\ (op = "Login" => shell.retries < MAX_LOGIN_RETRIES)

\* A request Shell cannot begin is let fall without an answer.
LockRequest ==
    /\ shell.user = <<>> /\ shell.probe = 0 /\ shell.lock = <<>> /\ shell.answer = <<>>
    /\ queue["lock"] # <<>>
    /\ LET m == queue["lock"][1] IN
       IF CanBegin(m.op)
       THEN /\ shell' = [shell EXCEPT !.request = shell.next, !.next = @ + 1,
                  !.operation = m.op, !.logout = FALSE, !.lock = <<m>>,
                  !.user = <<[id |-> shell.next, op |-> m.op, right |-> m.right,
                              session |-> 0]>>]
            /\ UNCHANGED dropped
       ELSE /\ UNCHANGED shell
            /\ dropped' = TRUE
    /\ queue' = Taken("lock")
    /\ UNCHANGED <<lock, atrium, flow, user, restarts, abandoned, ignored, crossed>>

SendUser ==
    /\ shell.user # <<>> /\ Room("ask")
    /\ queue' = Put(queue, "ask", shell.user[1])
    /\ shell' = [shell EXCEPT !.user = <<>>]
    /\ UNCHANGED <<lock, atrium, flow, user, restarts, abandoned, dropped, ignored,
                   crossed>>

\* Only the answer to the request under way, for its operation, is applied.
Matches(s, m) == s.request # 0 /\ m.id = s.request /\ m.op = s.operation

\* Mutant: an answer is applied whatever request it belongs to.
apply_user_responseMutant(s, m) ==
    [s EXCEPT !.request = 0, !.logout = FALSE,
              !.context = IF m.status = "Ok" THEN m.session ELSE 0]

\* A claim carries no session and leaves Shell locked.
apply_user_response(s, m) ==
    IF ~Matches(s, m) THEN s
    ELSE [s EXCEPT !.request = 0, !.logout = FALSE,
             !.context = IF ~s.logout /\ m.status = "Ok" THEN m.session ELSE 0,
             !.retries = IF s.logout THEN @
                         ELSE IF m.status = "Ok" /\ m.session # 0 THEN 0
                         ELSE IF m.status = "BadCredentials" THEN @ + 1 ELSE @]

Answer(s, m, applied) ==
    IF s.probe = m.id /\ m.op = "Login"
    THEN [s EXCEPT !.probe = 0,
             !.answer = IF applied /\ m.status = "Unclaimed"
                        THEN <<[status |-> m.status, serial |-> 0]>> ELSE @]
    ELSE IF s.lock # <<>>
    THEN [s EXCEPT !.lock = <<>>,
             !.answer = <<[status |-> IF applied THEN m.status ELSE "Stale",
                           serial |-> s.lock[1].serial]>>]
    ELSE s

UserReply ==
    /\ queue["reply"] # <<>>
    /\ LET m == queue["reply"][1]
           applied == Matches(shell, m)
           after == Answer(apply_user_response(shell, m), m, applied)
       IN  /\ shell' = IF applied
                       THEN [after EXCEPT !.flow = <<after.context>>,
                                          !.atrium = <<after.context>>]
                       ELSE after
           /\ abandoned' = abandoned \cup
                 (({shell.context, m.session} \ {after.context, 0}) \cap user.live)
    /\ queue' = Taken("reply")
    /\ UNCHANGED <<lock, atrium, flow, user, restarts, dropped, ignored, crossed>>

------------------------------------------------------------------------------
(* User, Flow and Atrium.                                                    *)

Verdict(m) ==
    CASE m.op = "Claim" -> IF user.claimed THEN "AlreadyClaimed" ELSE "Ok"
      [] m.op = "Login" -> IF ~user.claimed THEN "Unclaimed"
                           ELSE IF m.right THEN "Ok" ELSE "BadCredentials"
      [] OTHER -> IF m.session \in user.live THEN "Ok" ELSE "Stale"

Serve ==
    /\ queue["ask"] # <<>> /\ Room("reply")
    /\ LET m == queue["ask"][1]
           opens == m.op = "Login" /\ Verdict(m) = "Ok"
       IN  /\ opens => user.next <= MaxSessions
           /\ user' = [claimed |-> user.claimed \/ m.op = "Claim",
                       live |-> IF opens THEN user.live \cup {user.next}
                                ELSE IF m.op = "Logout" THEN user.live \ {m.session}
                                ELSE user.live,
                       next |-> IF opens THEN user.next + 1 ELSE user.next]
           /\ queue' = Put(Taken("ask"), "reply",
                           [id |-> m.id, op |-> m.op, status |-> Verdict(m),
                            session |-> IF opens THEN user.next ELSE 0])
    /\ UNCHANGED <<lock, shell, atrium, flow, restarts, abandoned, dropped, ignored,
                   crossed>>

FlowAdopts ==
    /\ queue["flow"] # <<>>
    /\ flow' = queue["flow"][1]
    /\ queue' = Taken("flow")
    /\ UNCHANGED <<lock, shell, atrium, user, restarts, abandoned, dropped, ignored,
                   crossed>>

\* An empty context locks only an Atrium that was open.
AtriumContext ==
    /\ queue["atrium"] # <<>>
    /\ LET open == queue["atrium"][1] # 0 IN
       /\ atrium' = open
       /\ queue' = IF open \/ atrium THEN Offer(Taken("atrium"), "hook", ~open)
                   ELSE Taken("atrium")
       /\ ignored' = (ignored \/ ((open \/ atrium) /\ ~Room("hook")))
    /\ UNCHANGED <<lock, shell, flow, user, restarts, abandoned, dropped, crossed>>

\* Atrium locks itself first; hook and request are sent once, unchecked.
AtriumLogout ==
    /\ atrium
    /\ atrium' = FALSE
    /\ queue' = Offer(Offer(queue, "hook", TRUE), "control", "Logout")
    /\ ignored' = (ignored \/ ~Room("hook") \/ ~Room("control"))
    /\ UNCHANGED <<lock, shell, flow, user, restarts, abandoned, dropped, crossed>>

\* A fault of User restarts what depends on it: Shell, LockScreen, Atrium.
\* Flow goes on with the context it has.
Restart ==
    /\ restarts < MaxRestarts
    /\ restarts' = restarts + 1
    /\ lock' = [NewLock EXCEPT !.serial = lock.serial]
    /\ shell' = NewShell
    /\ atrium' = FALSE
    /\ user' = [user EXCEPT !.live = {}]
    /\ queue' = [q \in Queues |-> IF q = "flow" THEN queue[q] ELSE <<>>]
    /\ abandoned' = {} /\ dropped' = FALSE /\ ignored' = FALSE /\ crossed' = {}
    /\ UNCHANGED flow

Next ==
    \/ \E right \in BOOLEAN : Submit(right)
    \/ SendAuth \/ LockAnswered \/ SectionHook
    \/ FlushFlow \/ FlushAtrium \/ FlushLock \/ Control \/ LockRequest
    \/ SendUser \/ UserReply \/ Serve \/ FlowAdopts \/ AtriumContext
    \/ AtriumLogout \/ Restart

Spec == Init /\ [][Next]_vars

Fairness ==
    /\ WF_vars(SendAuth) /\ WF_vars(LockAnswered) /\ WF_vars(SectionHook)
    /\ WF_vars(FlushFlow) /\ WF_vars(FlushAtrium) /\ WF_vars(FlushLock)
    /\ WF_vars(Control) /\ WF_vars(LockRequest) /\ WF_vars(SendUser)
    /\ WF_vars(UserReply) /\ WF_vars(Serve) /\ WF_vars(FlowAdopts)
    /\ WF_vars(AtriumContext)

FairSpec == Spec /\ Fairness

------------------------------------------------------------------------------
TypeOK ==
    /\ lock.mode \in {"Login", "Claim"} /\ atrium \in BOOLEAN
    /\ \A q \in Queues : Len(queue[q]) <= Slots

Quiet(names) == \A q \in names : queue[q] = <<>>

\* Flow works under the context Shell has, once what Shell sent has arrived:
\* after a logout it no longer holds the session.
FlowFollowsShell ==
    shell.flow = <<>> /\ Quiet({"flow"}) => flow = shell.context

\* When the queues have drained and no logout was let fall, Shell has a
\* session exactly when the desktop is open, and LockScreen is up otherwise.
EveryoneAgrees ==
    (/\ Quiet(Queues) /\ shell.atrium = <<>> /\ shell.user = <<>> /\ ~ignored)
        => /\ atrium <=> shell.context # 0
           /\ lock.visible <=> ~atrium

\* Every live session is the one Shell has, one on its way to or from User,
\* or one of those a second login or an overtaken answer left behind.
SessionsAccounted ==
    user.live \subseteq {shell.context} \cup abandoned
        \cup {queue["reply"][i].session : i \in 1..Len(queue["reply"])}
        \cup {queue["ask"][i].session : i \in 1..Len(queue["ask"])}
        \cup {shell.user[i].session : i \in 1..Len(shell.user)}

\* The answer to one submission is taken for the answer to another only after
\* the answer to Shell's boot probe was taken for one.
AnswersTheSubmission == "late" \in crossed => "probe" \in crossed

\* A submission ends, unless Shell let it fall.
SubmissionAnswered == lock.submitting ~> (~lock.submitting \/ dropped)

\* LockScreen never waits for ever.
AlwaysAnswered == lock.submitting ~> ~lock.submitting

------------------------------------------------------------------------------
(***************************************************************************)
(* The login form of the lock screen: three text fields, each kept twice,  *)
(* as the value of a form control and as the text of the input component   *)
(* that edits it, with validation, submission and the clearing of          *)
(* passwords.                                                               *)
(*                                                                         *)
(* Characters are "a" (allowed everywhere), "P" (allowed in passwords      *)
(* only) and "_" (a blank or a character beyond ASCII: allowed nowhere).   *)
(* "asked" is history: the last credentials handed to the image, with the  *)
(* confirmation they had.                                                   *)
(***************************************************************************)
CONSTANTS MAX_FIELD_BYTES, MAX_UI_TEXT_BYTES, MAX_RETRIES

VARIABLES mode, field,
          controls,      \* field -> value of the form control
          components,    \* field -> text of the input component
          valid, submitting, retries, failure,
          auth,          \* pending_auth of the image
          asked

formVars == <<mode, field, controls, components, valid, submitting, retries, failure,
          auth, asked>>

Texts == {"Username", "Password", "ConfirmPassword"}
Chars == {"a", "P", "_"}
Empty == [f \in Texts |-> <<>>]

FormInit ==
    /\ mode = "Login" /\ field = "Username"
    /\ controls = Empty /\ components = Empty
    /\ valid = FALSE /\ submitting = FALSE /\ retries = 0 /\ failure = FALSE
    /\ auth = <<>> /\ asked = <<>>

\* Mutant: the confirmation need not match.
revalidateMutant(c, m) ==
    /\ c["Username"] # <<>> /\ c["Password"] # <<>>
    /\ m = "Claim" => c["ConfirmPassword"] # <<>>

revalidate(c, m) ==
    /\ c["Username"] # <<>> /\ c["Password"] # <<>>
    /\ m = "Claim" => /\ c["ConfirmPassword"] # <<>>
                      /\ c["ConfirmPassword"] = c["Password"]

Allowed(f, text) ==
    /\ Len(text) <= MAX_FIELD_BYTES
    /\ \A i \in 1..Len(text) : text[i] \in (IF f = "Username" THEN {"a"} ELSE {"a", "P"})

\* Mutant: a refused character stays in the component.
set_component_valueMutant(text) ==
    /\ components' = [components EXCEPT ![field] = text]
    /\ IF Allowed(field, text)
       THEN /\ controls' = [controls EXCEPT ![field] = text]
            /\ valid' = revalidate([controls EXCEPT ![field] = text], mode)
       ELSE UNCHANGED <<controls, valid>>

\* A value the form refuses is taken back out of the component.
set_component_value(text) ==
    IF Allowed(field, text)
    THEN /\ controls' = [controls EXCEPT ![field] = text]
         /\ components' = [components EXCEPT ![field] = text]
         /\ valid' = revalidate([controls EXCEPT ![field] = text], mode)
    ELSE /\ components' = [components EXCEPT ![field] = controls[field]]
         /\ UNCHANGED <<controls, valid>>

Open == ~submitting /\ auth = <<>>

\* component_event with TextInput.
TextInput(char) ==
    /\ Open /\ field \in Texts
    /\ Len(components[field]) < MAX_UI_TEXT_BYTES
    /\ set_component_value(Append(components[field], char))
    /\ UNCHANGED <<mode, field, submitting, retries, failure, auth, asked>>

Backspace ==
    /\ Open /\ field \in Texts /\ components[field] # <<>>
    /\ set_component_value(SubSeq(components[field], 1, Len(components[field]) - 1))
    /\ UNCHANGED <<mode, field, submitting, retries, failure, auth, asked>>

Order == IF mode = "Claim" THEN <<"Username", "Password", "ConfirmPassword", "Submit">>
         ELSE <<"Username", "Password", "Submit">>

move_field(forward) ==
    /\ Open
    /\ LET at == CHOOSE i \in 1..Len(Order) : Order[i] = field
           to == IF forward THEN at + 1 ELSE at - 1
       IN  field' = IF to \in 1..Len(Order) THEN Order[to] ELSE field
    /\ UNCHANGED <<mode, controls, components, valid, submitting, retries, failure,
                   auth, asked>>

\* Mutant: the passwords stay in the input components.
clear_passwordMutant(c) == c

clear_password(c) == [c EXCEPT !["Password"] = <<>>, !["ConfirmPassword"] = <<>>]

\* submit and what the image does with it: the request takes a copy of the
\* credentials, then the passwords are cleared.
submit ==
    LET able == revalidate(controls, mode) IN
    IF able
    THEN /\ submitting' = TRUE
         /\ auth' = <<[op |-> mode, name |-> controls["Username"],
                       password |-> controls["Password"]]>>
         /\ asked' = <<[op |-> mode, name |-> controls["Username"],
                        password |-> controls["Password"],
                        confirm |-> controls["ConfirmPassword"]]>>
         /\ controls' = [controls EXCEPT !["Password"] = <<>>,
                                         !["ConfirmPassword"] = <<>>]
         /\ components' = clear_password(components)
         /\ valid' = FALSE
    ELSE /\ valid' = able
         /\ UNCHANGED <<submitting, auth, asked, controls, components>>

Enter ==
    /\ Open /\ submit
    /\ UNCHANGED <<mode, field, retries, failure>>

\* A press on a field focuses it; a press on the button submits.
pointer_input(target) ==
    /\ Open
    /\ \E i \in 1..Len(Order) : Order[i] = target
    /\ field' = target
    /\ IF target = "Submit" THEN submit
       ELSE UNCHANGED <<submitting, auth, asked, controls, components, valid>>
    /\ UNCHANGED <<mode, retries, failure>>

\* The request has gone to Shell, or the section was hidden before it could.
SendForm ==
    /\ auth # <<>>
    /\ auth' = <<>>
    /\ UNCHANGED <<mode, field, controls, components, valid, submitting, retries,
                   failure, asked>>

reset_fields ==
    /\ controls' = Empty /\ components' = Empty /\ valid' = FALSE
    /\ retries' = 0 /\ failure' = FALSE /\ field' = "Username"

\* Any answer of Shell ends the submission, also one nothing was asked for.
form_status(status) ==
    /\ submitting' = FALSE
    /\ CASE status = "Unclaimed" -> mode' = "Claim" /\ reset_fields
         [] status = "Ok" -> mode' = "Login" /\ reset_fields
         [] OTHER ->
              /\ controls' = clear_password(controls)
              /\ components' = clear_password(components)
              /\ valid' = FALSE /\ failure' = TRUE
              /\ IF status = "BadCredentials"
                 THEN /\ retries' = IF retries = MAX_RETRIES THEN retries ELSE retries + 1
                      /\ field' = "Password"
                 ELSE UNCHANGED <<retries, field>>
              /\ UNCHANGED mode
    /\ UNCHANGED <<auth, asked>>

FormNext ==
    \/ \E char \in Chars : TextInput(char)
    \/ Backspace \/ Enter \/ SendForm
    \/ \E forward \in BOOLEAN : move_field(forward)
    \/ \E target \in Texts \cup {"Submit"} : pointer_input(target)
    \/ \E status \in {"Ok", "Unclaimed", "BadCredentials", "Stale"} : form_status(status)

FormSpec == FormInit /\ [][FormNext]_formVars

------------------------------------------------------------------------------
FormTypeOK ==
    /\ mode \in {"Login", "Claim"} /\ field \in Texts \cup {"Submit"}
    /\ valid \in BOOLEAN /\ submitting \in BOOLEAN /\ retries \in 0..MAX_RETRIES

\* What the user sees in a field is what the form will submit, and the form
\* says it is ready exactly when it is; the focus is on a field the mode has.
FieldsAgree ==
    /\ components = controls
    /\ \A f \in Texts : Allowed(f, controls[f])
    /\ valid = (revalidate(controls, mode))
    /\ \E i \in 1..Len(Order) : Order[i] = field

\* A request never leaves with an empty name or password, nor a claim with a
\* password that was not typed twice.
SubmitsConfirmed ==
    asked # <<>> =>
        /\ asked[1].name # <<>> /\ asked[1].password # <<>>
        /\ asked[1].op = "Claim" => asked[1].confirm = asked[1].password

\* While a submission is under way no field holds a password any more.
PasswordsCleared ==
    submitting => \A f \in {"Password", "ConfirmPassword"} :
                      controls[f] = <<>> /\ components[f] = <<>>

------------------------------------------------------------------------------
(***************************************************************************)
(* The surfaces of the LockScreen image: the form, the splash and the      *)
(* cursor, asked for, drawn and destroyed over Display's control queue as *)
(* Atrium's hooks show and hide the lock screen.                            *)
(*                                                                         *)
(* One iteration of the image's loop is cut where another service may run: *)
(* an action is one send, one received message or one step of the splash.  *)
(* A surface is a number Display never uses twice; a request is told by    *)
(* the number it has in "serial".  Pixels, styles and animation times are  *)
(* left out: a splash animation is over or it is not.                      *)
(* "orphans" remembers the surfaces LockScreen lost track of.              *)
(***************************************************************************)
CONSTANTS ControlSlots, ResponseSlots,   \* capacity of the two queues
          MAX_SURFACES,                  \* surfaces Display can hold
          MaxRequests, MaxHooks

VARIABLES visible,
          held,       \* part -> surface or 0
          pending,    \* part -> request serial or 0
          sent,       \* part -> pending_*_sent
          destroy,    \* pending_splash_destroy: the surface or 0
          cached,     \* static_cached: the form was drawn
          draw,       \* pending_draw
          splash,     \* "off", "intro", "loading": splash_started and phase
          serial, hooks,
          control, response,   \* the two queues
          surfaces,   \* live surfaces of LockScreen in Display
          made, orphans

surfacesVars == <<visible, held, pending, sent, destroy, cached, draw, splash, serial, hooks,
          control, response, surfaces, made, orphans>>

Parts == {"form", "splash", "cursor"}

SurfacesInit ==
    /\ visible = TRUE
    /\ held = [p \in Parts |-> 0]
    /\ pending = [p \in Parts |-> CASE p = "form" -> 1 [] p = "splash" -> 2 [] OTHER -> 0]
    /\ sent = [p \in Parts |-> FALSE]
    /\ destroy = 0 /\ cached = FALSE /\ draw = FALSE /\ splash = "off"
    /\ serial = 3 /\ hooks = 0
    /\ control = <<>> /\ response = <<>> /\ surfaces = {} /\ made = 0 /\ orphans = {}

ControlRoom == Len(control) < ControlSlots

------------------------------------------------------------------------------
(* Requests.                                                                 *)

\* Ok: the splash is forgotten once its destruction is on its way.
SendDestroy ==
    /\ destroy # 0 /\ ControlRoom
    /\ control' = Append(control, [op |-> "destroy", serial |-> 0, surface |-> destroy])
    /\ destroy' = 0
    /\ held' = [held EXCEPT !["splash"] = 0]
    /\ splash' = "off"
    /\ UNCHANGED <<visible, pending, sent, cached, draw, serial, hooks, response,
                   surfaces, made, orphans>>

SendCreate(p) ==
    /\ p \in {"form", "splash"} /\ pending[p] # 0 /\ ~sent[p] /\ ControlRoom
    /\ control' = Append(control, [op |-> "create", serial |-> pending[p], surface |-> 0])
    /\ sent' = [sent EXCEPT ![p] = TRUE]
    /\ UNCHANGED <<visible, held, pending, destroy, cached, draw, splash, serial, hooks,
                   response, surfaces, made, orphans>>

\* The cursor's request counts as pending only if it could be sent at once.
request_cursor_surface ==
    /\ visible /\ held["form"] # 0 /\ cached /\ held["cursor"] = 0
    /\ pending["cursor"] = 0 /\ serial <= MaxRequests
    /\ serial' = serial + 1
    /\ IF ControlRoom
       THEN /\ control' = Append(control, [op |-> "create", serial |-> serial, surface |-> 0])
            /\ pending' = [pending EXCEPT !["cursor"] = serial]
            /\ sent' = [sent EXCEPT !["cursor"] = TRUE]
       ELSE UNCHANGED <<control, pending, sent>>
    /\ UNCHANGED <<visible, held, destroy, cached, draw, splash, hooks, response,
                   surfaces, made, orphans>>

------------------------------------------------------------------------------
(* Hooks of Atrium.                                                          *)

Show ==
    /\ ~visible /\ hooks < MaxHooks /\ serial + 1 <= MaxRequests
    /\ visible' = TRUE /\ hooks' = hooks + 1
    /\ LET form == held["form"] = 0 /\ pending["form"] = 0
           asks == (IF form THEN {"form"} ELSE {})
                       \cup (IF destroy = 0 THEN {"splash"} ELSE {})
       IN  /\ pending' = [p \in Parts |->
                IF p \in asks THEN (IF p = "splash" /\ form THEN serial + 1 ELSE serial)
                ELSE pending[p]]
           /\ sent' = [p \in Parts |-> IF p \in asks THEN FALSE ELSE sent[p]]
           /\ serial' = serial + Cardinality(asks)
    /\ UNCHANGED <<held, destroy, cached, draw, splash, control, response, surfaces,
                   made, orphans>>

\* A request of which the answer is still out: its surface will be nobody's.
OutFor(p) ==
    IF pending[p] # 0 /\ sent[p] THEN {pending[p]} ELSE {}

\* destroy_surface: sent once, the result ignored.
Destroyed(line, surface) ==
    IF surface # 0 /\ Len(line) < ControlSlots
    THEN Append(line, [op |-> "destroy", serial |-> 0, surface |-> surface]) ELSE line

\* Mutant: hiding does not destroy the form's surface.
HideQueueMutant == Destroyed(control, held["cursor"])

HideQueue == Destroyed(Destroyed(control, held["cursor"]), held["form"])

Lost(line) ==
    {held[p] : p \in {"cursor", "form"}} \ ({0} \cup
        {line[i].surface : i \in {i \in 1..Len(line) : line[i].op = "destroy"}})

Hide ==
    /\ visible /\ hooks < MaxHooks
    /\ visible' = FALSE /\ hooks' = hooks + 1
    /\ pending' = [p \in Parts |-> 0]
    /\ sent' = [sent EXCEPT !["splash"] = FALSE, !["cursor"] = FALSE]
    /\ cached' = FALSE /\ draw' = FALSE /\ splash' = "off"
    /\ control' = HideQueue
    /\ held' = [held EXCEPT !["form"] = 0, !["cursor"] = 0]
    /\ destroy' = IF held["splash"] # 0 /\ destroy = 0 THEN held["splash"] ELSE destroy
    /\ orphans' = orphans
          \cup [kind : {"request"}, n : UNION {OutFor(p) : p \in Parts}]
          \cup [kind : {"surface"},
                n : Lost(Destroyed(Destroyed(control, held["cursor"]), held["form"]))]
    /\ UNCHANGED <<serial, response, surfaces, made>>

------------------------------------------------------------------------------
(* Answers of Display.                                                       *)

\* Mutant: an answer is taken for a part without a look at its number.
PartOfMutant(m) == {p \in Parts : pending[p] # 0 /\ sent[p]}

PartOf(m) == {p \in Parts : pending[p] # 0 /\ sent[p] /\ pending[p] = m.serial}

Answered ==
    /\ response # <<>>
    /\ response' = Tail(response)
    /\ LET m == Head(response) IN
       IF PartOf(m) = {}
       THEN UNCHANGED <<pending, sent, held, splash, draw>>
       ELSE LET p == IF "splash" \in PartOf(m) THEN "splash"
                     ELSE IF "cursor" \in PartOf(m) THEN "cursor" ELSE "form"
            IN  /\ pending' = [pending EXCEPT ![p] = 0]
                /\ sent' = [sent EXCEPT ![p] = FALSE]
                /\ held' = [held EXCEPT ![p] = IF m.surface = 0 THEN @ ELSE m.surface]
                /\ splash' = IF p = "splash" /\ m.surface # 0 THEN "intro" ELSE splash
                /\ draw' = (draw \/ (p = "form" /\ m.surface # 0))
    /\ UNCHANGED <<visible, destroy, cached, serial, hooks, control, surfaces, made,
                   orphans>>

ServeControl ==
    /\ control # <<>>
    /\ control' = Tail(control)
    /\ LET m == Head(control) IN
       IF m.op = "destroy"
       THEN /\ surfaces' = {s \in surfaces : s.surface # m.surface}
            /\ UNCHANGED <<made, response>>
       ELSE /\ Len(response) < ResponseSlots
            /\ IF Cardinality(surfaces) < MAX_SURFACES
               THEN /\ surfaces' = surfaces \cup
                           {[surface |-> made + 1, serial |-> m.serial]}
                    /\ made' = made + 1
                    /\ response' = Append(response,
                           [serial |-> m.serial, surface |-> made + 1])
               ELSE /\ response' = Append(response, [serial |-> m.serial, surface |-> 0])
                    /\ UNCHANGED <<surfaces, made>>
    /\ UNCHANGED <<visible, held, pending, sent, destroy, cached, draw, splash, serial,
                   hooks, orphans>>

------------------------------------------------------------------------------
(* Drawing the form and the phases of the splash.                            *)

\* Drawing a surface that Display does not know fails and is not repeated.
Draw ==
    /\ draw
    /\ draw' = FALSE
    /\ cached' = (held["form"] # 0)
    /\ UNCHANGED <<visible, held, pending, sent, destroy, splash, serial, hooks, control,
                   response, surfaces, made, orphans>>

\* Any accepted input asks for another frame.
Redraw ==
    /\ visible /\ held["form"] # 0 /\ ~draw
    /\ draw' = TRUE
    /\ UNCHANGED <<visible, held, pending, sent, destroy, cached, splash, serial, hooks,
                   control, response, surfaces, made, orphans>>

\* The intro is over: the loader follows if the form is not drawn yet,
\* otherwise, and when the loader saw the form drawn, the splash goes.
SplashStep ==
    /\ visible /\ splash # "off" /\ held["splash"] # 0 /\ destroy = 0
    /\ IF splash = "intro" /\ ~cached
       THEN splash' = "loading" /\ UNCHANGED destroy
       ELSE /\ splash = "loading" => cached
            /\ destroy' = held["splash"] /\ splash' = "off"
    /\ UNCHANGED <<visible, held, pending, sent, cached, draw, serial, hooks, control,
                   response, surfaces, made, orphans>>

SurfacesNext ==
    \/ SendDestroy \/ (\E p \in Parts : SendCreate(p)) \/ request_cursor_surface
    \/ Show \/ Hide \/ Answered \/ ServeControl \/ Draw \/ Redraw \/ SplashStep

SurfacesSpec == SurfacesInit /\ [][SurfacesNext]_surfacesVars

------------------------------------------------------------------------------
SurfacesTypeOK ==
    /\ visible \in BOOLEAN /\ cached \in BOOLEAN /\ draw \in BOOLEAN
    /\ Len(control) <= ControlSlots /\ Len(response) <= ResponseSlots

Orphan(s) ==
    \/ [kind |-> "request", n |-> s.serial] \in orphans
    \/ [kind |-> "surface", n |-> s.surface] \in orphans

\* Display keeps no surface that nobody will destroy: every one is held by
\* LockScreen, is in an answer it still waits for, or is about to be
\* destroyed; the exceptions are the surfaces that a hide left behind while
\* their request was out or the control queue was full.
SurfacesKnown ==
    \A s \in surfaces :
        \/ \E p \in Parts : held[p] = s.surface
        \/ \E p \in Parts : pending[p] = s.serial /\ sent[p]
        \/ destroy = s.surface
        \/ \E i \in 1..Len(control) : control[i].op = "destroy" /\ control[i].surface = s.surface
        \/ Orphan(s)

\* The form is drawn into, and the cursor shown over, a live surface of its own.
PartsDistinct ==
    /\ \A p, q \in Parts : p # q /\ held[p] # 0 => held[p] # held[q]
    /\ \A p \in Parts : held[p] # 0 => \E s \in surfaces : s.surface = held[p]
    /\ held["cursor"] # 0 => visible /\ held["form"] # 0
==============================================================================
