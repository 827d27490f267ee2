---------------------------- MODULE AuthSession ----------------------------
(***************************************************************************)
(* AuthSession (auth.rs): the login state machine of a client that talks   *)
(* to an authentication server by requests each of which may fail.  A call *)
(* runs to its end before the next one starts; within it every request is  *)
(* a step, so that each `?` leaves the state the calls before it made.     *)
(* Logins are numbered: an object starts with login 1, a login, an import  *)
(* or a prepared callback starts a new one, and a ticket, a sid, a cookie  *)
(* or a resource list is the number of the login it belongs to, 0 when     *)
(* there is none.                                                          *)
(***************************************************************************)
EXTENDS Naturals

CONSTANTS
    MaxChain,    \* 8: rounds of continue_auth
    MaxLogins    \* bound: logins, the one of a new object included

ASSUME AuthSessionAssumption == MaxChain \in Nat /\ MaxLogins \in Nat

Flows == {"none", "password", "smsLogin", "smsVerify", "authStep"}
Services == {"", "auth/authCheck", "auth/sms", "auth/sms+id", "auth/customSms", "other"}
Logins == 1..MaxLogins

VARIABLES
    id,              \* the current login: device_id, connection_id, sign key, env
    pending,         \* the flow of PendingFlow
    ticket, sid, username, resource,
    cookie, jar,     \* the sid cookie of `cookies` and of `cookie_jar`
    issued,          \* history: the login in which the server last set it
    pc, todo,        \* the request that is out, and what follows authConfig
    flow, captcha,   \* the flow that runs; a captcha was given
    service, rounds, \* the next service; rounds of continue_auth
    result,          \* what the last call returned
    challenge,       \* history: the last challenge of this login
    accepted         \* history: the server has said that no step is left

call == <<flow, captcha, service, rounds>>
identity == <<id, ticket, sid, username>>
cookies == <<cookie, jar, issued>>
history == <<challenge, accepted>>
vars == <<identity, pending, resource, cookies, pc, todo, call, result,
          history>>

Init ==
    /\ id = 1 /\ pending = "none"
    /\ ticket = 0 /\ sid = 0 /\ username = 0 /\ resource = 0 /\ cookie = 0 /\ jar = 0 /\ issued = 0
    /\ pc = "idle" /\ todo = "" /\ flow = "none" /\ captcha = FALSE
    /\ service = "" /\ rounds = 0
    /\ result = "none" /\ challenge = "none" /\ accepted = FALSE
-----------------------------------------------------------------------------
(* Parts of a call *)

Goto(label) == pc' = label /\ UNCHANGED result
Config(next) == Goto("config") /\ todo' = next
Return(r) ==
    /\ pc' = "idle" /\ result' = r
    /\ challenge' = IF r \in {"captcha", "sms"} THEN r
                    ELSE IF r = "done" THEN "none" ELSE challenge

\* capture_cookies: a response may set the session cookie.
Capture ==
    \/ cookie' = id /\ jar' = id /\ issued' = id
    \/ UNCHANGED cookies

\* sync_sid_from_cookies
Sync == sid' = IF cookie' # 0 THEN cookie' ELSE sid

\* Mutant: the ticket is kept.
ResetKeepsTicket ==
    /\ id < MaxLogins /\ id' = id + 1
    /\ sid' = 0 /\ username' = 0 /\ UNCHANGED ticket
    /\ challenge' = "none" /\ accepted' = FALSE

\* reset_identity, but for `pending`, which its callers set
Reset ==
    /\ id < MaxLogins /\ id' = id + 1
    /\ ticket' = 0 /\ sid' = 0 /\ username' = 0
    /\ challenge' = "none" /\ accepted' = FALSE

StartRun(f, given) ==
    flow' = f /\ captcha' = given /\ rounds' = 0 /\ service' = ""
-----------------------------------------------------------------------------
(* The calls *)

LoginPassword ==
    /\ pc = "idle" /\ Reset /\ pending' = "password"
    /\ StartRun("password", FALSE) /\ Config("password")
    /\ UNCHANGED <<resource, cookies>>

LoginSms ==
    /\ pc = "idle" /\ Reset /\ pending' = "smsLogin"
    /\ StartRun("smsLogin", FALSE) /\ Config("sendSms")
    /\ UNCHANGED <<resource, cookies>>

SubmitCaptcha ==
    /\ pc = "idle"
    /\ \/ pending = "password" /\ Config("password") /\ UNCHANGED challenge
       \/ pending = "smsLogin" /\ Config("sendSms") /\ UNCHANGED challenge
       \/ pending = "smsVerify" /\ Goto("verify") /\ UNCHANGED <<todo, challenge>>
       \/ pending \in {"none", "authStep"} /\ Return("refused") /\ UNCHANGED todo
    /\ StartRun(pending, TRUE)
    /\ UNCHANGED <<identity, pending, resource, cookies, accepted>>

SubmitSmsCode ==
    /\ pc = "idle"
    /\ \/ pending = "authStep" /\ Goto("step") /\ UNCHANGED <<pending, challenge>>
       \/ /\ pending \in {"smsLogin", "smsVerify"} /\ Goto("verify")
          /\ pending' = "smsVerify" /\ UNCHANGED <<challenge>>
       \/ /\ pending \in {"none", "password"}
          /\ Return("refused") /\ UNCHANGED pending
    /\ StartRun(IF pending = "authStep" THEN "authStep" ELSE "smsVerify", FALSE)
    /\ UNCHANGED <<identity, resource, cookies, todo, accepted>>

CompleteCallback(device) ==
    /\ pc = "idle" /\ StartRun("callback", FALSE) /\ Goto("callback")
    /\ \/ device /\ Reset /\ pending' = "none"
       \/ ~device /\ UNCHANGED <<identity, pending, history>>
    /\ UNCHANGED <<resource, cookies, todo>>

PrepareCallback ==
    /\ pc = "idle" /\ Reset /\ pending' = "none"
    /\ UNCHANGED <<resource, cookies, pc, todo, call, result>>

\* import_session: the material may or may not hold the session cookie; the
\* jar is not emptied and `pending` is not touched.
Import ==
    /\ id < MaxLogins /\ id' = id + 1
    /\ ticket' = 0 /\ sid' = id + 1 /\ username' = id + 1
    /\ \/ cookie' = id + 1 /\ jar' = id + 1 /\ issued' = id + 1
       \/ cookie' = 0 /\ UNCHANGED <<jar, issued>>
    /\ challenge' = "none" /\ accepted' = FALSE
    /\ UNCHANGED <<pending, resource>>

ImportSession ==
    /\ pc = "idle" /\ Import
    /\ UNCHANGED <<pc, todo, call, result>>

ResumeSession ==
    /\ pc = "idle" /\ Import /\ StartRun("resume", FALSE) /\ Config("online")

AvailableMethods ==
    /\ pc = "idle" /\ StartRun("methods", FALSE) /\ Config("methods")
    /\ UNCHANGED <<identity, pending, resource, cookies, history>>

ClientResource ==
    /\ pc = "idle" /\ StartRun("resource", FALSE)
    /\ \/ resource # 0 /\ Return("ok") /\ UNCHANGED todo
       \/ resource = 0 /\ ticket = 0 /\ Config("fetch") /\ UNCHANGED challenge
       \/ resource = 0 /\ ticket # 0 /\ Goto("fetch") /\ UNCHANGED <<todo, challenge>>
    /\ UNCHANGED <<identity, pending, resource, cookies, accepted>>
-----------------------------------------------------------------------------
(* The requests *)

\* Every request may fail, after its cookies were captured or before.
RequestFails ==
    /\ pc \in {"config", "password", "sendSms", "verify", "captcha", "report", "check",
               "trigger", "custom", "step", "callback", "online", "fetch"}
    /\ Capture /\ Return("failed")
    /\ UNCHANGED <<identity, pending, resource, todo, call, accepted>>

\* auth_config_impl; a resumed or imported session must be logged in.
ConfigOk ==
    /\ pc = "config" /\ Capture
    /\ \/ todo # "methods" /\ Goto(todo) /\ UNCHANGED challenge
       \/ todo \in {"online", "fetch"} /\ Return("failed")
       \/ todo = "methods" /\ Return("ok")
    /\ UNCHANGED <<identity, pending, resource, todo, call, accepted>>

\* The ticket may be missing, which report_env finds out.
TicketFrom(next) ==
    /\ ticket' \in {0, id} /\ Sync /\ Goto(next)
    /\ UNCHANGED <<id, username, challenge>>

PasswordOk ==
    /\ pc = "password" /\ Capture
    /\ \/ Goto("captcha") /\ UNCHANGED <<identity, challenge>>
       \/ TicketFrom("report")
    /\ UNCHANGED <<pending, resource, todo, call, accepted>>

SendSmsOk ==
    /\ pc = "sendSms" /\ Capture
    /\ \/ ~captcha /\ Goto("captcha")
       \/ Goto("check")
    /\ UNCHANGED <<identity, pending, resource, todo, call, history>>

\* post_sms_verify looks at no code: a refusal shows in the missing ticket.
VerifyOk ==
    /\ pc = "verify" /\ Capture
    /\ \/ ~captcha /\ Goto("captcha") /\ UNCHANGED <<identity, challenge>>
       \/ TicketFrom("report")
    /\ UNCHANGED <<pending, resource, todo, call, accepted>>

\* Mutant: the challenge is returned, but what it answers is forgotten.
CaptchaForgets ==
    /\ pc = "captcha" /\ Capture
    /\ pending' = "none" /\ Return("captcha")
    /\ UNCHANGED <<identity, resource, todo, call, accepted>>

CaptchaOk ==
    /\ pc = "captcha" /\ Capture
    /\ pending' = flow /\ Return("captcha")
    /\ UNCHANGED <<identity, resource, todo, call, accepted>>

CallbackOk ==
    /\ pc = "callback" /\ Capture
    /\ ticket' = id /\ Config("report")
    /\ UNCHANGED <<id, sid, username, pending, resource, call, history>>

ReportOk ==
    /\ pc = "report"
    /\ \/ ticket = 0 /\ Return("failed") /\ UNCHANGED cookies
       \/ ticket # 0 /\ Capture /\ Goto("check") /\ UNCHANGED challenge
    /\ UNCHANGED <<identity, pending, resource, todo, call, accepted>>

Answer(s) == service' = s /\ accepted' = (accepted \/ s = "") /\ Goto("loop")

CheckOk ==
    /\ pc = "check" /\ Capture
    /\ \E s \in Services : Answer(s)
    /\ UNCHANGED <<identity, pending, resource, todo, flow, captcha, rounds,
                   challenge>>

\* complete_auth_step: the code of a second factor is checked.
StepOk ==
    /\ pc = "step" /\ Capture
    /\ \E s \in Services : Answer(s)
    /\ UNCHANGED <<identity, pending, resource, todo, flow, captcha, rounds,
                   challenge>>

\* Mutant: the loop of continue_auth has no limit.
RoundUncounted == UNCHANGED rounds

\* The loop of continue_auth.
RoundLeft == rounds < MaxChain /\ rounds' = rounds + 1

\* complete_login clears `pending` before it asks for the user's name.
LoggedIn ==
    /\ service = "" /\ pending' = "none" /\ Goto("online")
    /\ UNCHANGED <<todo, challenge>>

NextStep ==
    /\ \/ service = "auth/authCheck" /\ Goto("check") /\ UNCHANGED <<todo, challenge>>
       \/ service = "auth/sms+id" /\ Config("trigger") /\ UNCHANGED challenge
       \/ service = "auth/sms" /\ Goto("trigger") /\ UNCHANGED <<todo, challenge>>
       \/ service = "auth/customSms" /\ Goto("custom") /\ UNCHANGED <<todo, challenge>>
       \/ service = "other" /\ Return("failed") /\ UNCHANGED todo
    /\ UNCHANGED pending

Round ==
    /\ pc = "loop"
    /\ \/ RoundLeft /\ (LoggedIn \/ NextStep)
       \/ /\ rounds = MaxChain /\ Return("failed")
          /\ UNCHANGED <<todo, rounds, pending>>
    /\ UNCHANGED <<identity, resource, cookies, flow, captcha, service, accepted>>

\* begin_sms: an SMS is sent, and authConfig is refreshed before or after it.
TriggerOk ==
    /\ pc = "trigger" /\ Capture
    /\ IF service = "auth/sms" THEN Config("pend") ELSE Goto("pend") /\ UNCHANGED todo
    /\ UNCHANGED <<identity, pending, resource, call, history>>

CustomOk ==
    /\ pc = "custom" /\ Capture /\ Goto("pend")
    /\ UNCHANGED <<identity, pending, resource, todo, call, history>>

PendStep ==
    /\ pc = "pend" /\ pending' = "authStep" /\ Return("sms")
    /\ UNCHANGED <<identity, resource, cookies, todo, call, accepted>>

\* complete_login after `pending` is cleared, and resume_session
OnlineOk ==
    /\ pc = "online" /\ Capture /\ Sync /\ username' = id
    /\ Return(IF flow = "resume" THEN "ok" ELSE "done")
    /\ UNCHANGED <<id, ticket, pending, resource, todo, call, accepted>>

FetchOk ==
    /\ pc = "fetch" /\ Capture /\ resource' = id /\ Return("ok")
    /\ UNCHANGED <<identity, pending, todo, call, accepted>>
-----------------------------------------------------------------------------
Calls ==
    \/ LoginPassword \/ LoginSms \/ SubmitCaptcha \/ SubmitSmsCode
    \/ \E device \in BOOLEAN : CompleteCallback(device)
    \/ PrepareCallback \/ ImportSession \/ ResumeSession \/ AvailableMethods \/ ClientResource

Steps ==
    \/ RequestFails \/ ConfigOk \/ PasswordOk \/ SendSmsOk \/ VerifyOk \/ CaptchaOk
    \/ CallbackOk \/ ReportOk \/ CheckOk \/ StepOk \/ Round \/ TriggerOk \/ CustomOk
    \/ PendStep \/ OnlineOk \/ FetchOk

Next == Calls \/ Steps

Spec == Init /\ [][Next]_vars

\* Every request ends by the timeout of the HTTP client.
FairSpec == Spec /\ WF_vars(Steps)
-----------------------------------------------------------------------------
(* Properties *)

\* A challenge the caller was given stays answerable, through failed requests,
\* wrong answers and calls that do not fit, until the login is over or another
\* one begins: submit_captcha or submit_sms_code does not refuse the answer.
\* Once a login is done nothing is left to answer.
Answerable ==
    pc = "idle" =>
        /\ ~accepted /\ challenge = "captcha" =>
              pending \in {"password", "smsLogin", "smsVerify"}
        /\ ~accepted /\ challenge = "sms" => pending = "authStep"
        /\ result = "done" => pending = "none"

\* A login does not present or export what was issued to an earlier one: the
\* ticket that report_env presents was issued in the current login, and if the
\* server has set the session cookie in it, with whichever response, a login that
\* ends in Done exports that sid and that cookie, and its requests carry it.
\* (When the server sets none, reset_identity having kept the recorded cookies
\* and the jar, the sid exported is that of an earlier login.)
OwnCredentials ==
    /\ ticket # 0 => ticket = id
    /\ result = "done" /\ pc = "idle" /\ issued = id => sid = id /\ cookie = id /\ jar = id

\* Every call returns, whatever chain of steps the server asks for: an answer
\* that leads to another check is followed at most MaxChain times.
LoginCallsEnd == pc # "idle" ~> pc = "idle"

=============================================================================
