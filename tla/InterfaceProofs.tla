--------------------------- MODULE InterfaceProofs ---------------------------
(***************************************************************************)
(* What a caller of the library relies on: that a login session keeps its  *)
(* challenges answerable and its credentials its own (AuthSession), that a *)
(* C program gets back what it releases, and that the events of a proxy    *)
(* service reach its listener and no other (CAbi with ProxyEvents); for    *)
(* any number of logins, threads, calls and items.  And what the callers   *)
(* of an L3 remote rely on: that its I/O loop (L3Worker) keeps to the      *)
(* clock, for any intervals and batch size, and with no bound on time.     *)
(***************************************************************************)
EXTENDS AuthSession, CAbi, L3Worker, TLAPS
-----------------------------------------------------------------------------
(* The login session *)

\* The session cookie was last set in this login or in an earlier one; if in this
\* one, it is the cookie that is recorded and the one that is sent.
Dated ==
    /\ id \in Nat \ {0} /\ issued \in Nat /\ issued <= id
    /\ issued = id => cookie = id /\ jar = id

\* What a request that is out says of the flow that runs: submit_captcha and the
\* captcha step put the flow back into `pending`, so it must be one that an
\* answer fits; only resume_session asks for the user's name with a flow pending.
FlowFits ==
    /\ pc = "config" =>
          todo \in {"password", "sendSms", "online", "methods", "fetch", "report", "trigger", "pend"}
    /\ pc = "password" \/ (pc = "config" /\ todo = "password") => flow = "password"
    /\ pc = "sendSms" \/ (pc = "config" /\ todo = "sendSms") => flow = "smsLogin"
    /\ pc = "verify" => flow = "smsVerify"
    /\ pc = "captcha" => flow \in {"password", "smsLogin", "smsVerify"}
    /\ pc = "config" /\ todo = "online" => flow = "resume"
    /\ pc = "online" /\ flow # "resume" => pending = "none"
    /\ pc = "loop" /\ service = "" => accepted

\* Answerable at every step of a call, not only between calls.
StillPending ==
    /\ ~accepted /\ challenge = "captcha" => pending \in {"password", "smsLogin", "smsVerify"}
    /\ ~accepted /\ challenge = "sms" => pending = "authStep"
    /\ pc = "idle" /\ result = "done" => pending = "none"
-----------------------------------------------------------------------------
\* A call begins: it has no request out yet, and it may begin a new login.
LEMMA CallFits ==
    ASSUME FlowFits, StillPending, Calls
    PROVE  FlowFits' /\ StillPending'
<1> USE DEF FlowFits, StillPending, StartRun, Config, Goto, Return, Reset, identity, history, call
<1>1. CASE LoginPassword
  BY <1>1, Zenon DEF LoginPassword
<1>2. CASE LoginSms
  BY <1>2, Zenon DEF LoginSms
<1>3. CASE SubmitCaptcha
  BY <1>3, Zenon DEF SubmitCaptcha
<1>4. CASE SubmitSmsCode
  BY <1>4, Zenon DEF SubmitSmsCode
<1>5. ASSUME NEW device \in BOOLEAN, CompleteCallback(device)
      PROVE  FlowFits' /\ StillPending'
  BY <1>5, Zenon DEF CompleteCallback
<1>6. CASE PrepareCallback
  BY <1>6, Zenon DEF PrepareCallback
<1>7. CASE ImportSession
  BY <1>7, Zenon DEF ImportSession, Import
<1>8. CASE ResumeSession
  BY <1>8, Zenon DEF ResumeSession, Import
<1>9. CASE AvailableMethods
  BY <1>9, Zenon DEF AvailableMethods
<1>10. CASE ClientResource
  BY <1>10, Zenon DEF ClientResource
<1> QED
  BY <1>1, <1>2, <1>3, <1>4, <1>5, <1>6, <1>7, <1>8, <1>9, <1>10, Zenon DEF Calls

\* A request returns, or fails: `pending` changes only together with the challenge,
\* or once the server has accepted the login.
LEMMA StepFits ==
    ASSUME FlowFits, StillPending, Steps
    PROVE  FlowFits' /\ StillPending'
<1> USE DEF FlowFits, StillPending, Config, Goto, Return, identity, history, call
<1>1. CASE RequestFails
  BY <1>1, Zenon DEF RequestFails
<1>2. CASE ConfigOk
  BY <1>2, Zenon DEF ConfigOk
<1>3. CASE PasswordOk
  BY <1>3, Zenon DEF PasswordOk, TicketFrom
<1>4. CASE SendSmsOk
  BY <1>4, Zenon DEF SendSmsOk
<1>5. CASE VerifyOk
  BY <1>5, Zenon DEF VerifyOk, TicketFrom
<1>6. CASE CaptchaOk
  BY <1>6, Zenon DEF CaptchaOk
<1>7. CASE CallbackOk
  BY <1>7, Zenon DEF CallbackOk
<1>8. CASE ReportOk
  BY <1>8, Zenon DEF ReportOk
<1>9. CASE CheckOk \/ StepOk
  BY <1>9, Zenon DEF CheckOk, StepOk, Answer
<1>10. CASE Round
  <2>1. CASE LoggedIn
    BY <1>10, <2>1, Zenon DEF Round, LoggedIn
  <2>2. CASE NextStep
    BY <1>10, <2>2, Zenon DEF Round, NextStep
  <2>3. CASE rounds = MaxChain /\ Return("failed") /\ UNCHANGED <<todo, rounds, pending>>
    BY <1>10, <2>3, Zenon DEF Round
  <2> QED
    BY <1>10, <2>1, <2>2, <2>3, Zenon DEF Round
<1>11. CASE TriggerOk
  BY <1>11, Zenon DEF TriggerOk
<1>12. CASE CustomOk
  BY <1>12, Zenon DEF CustomOk
<1>13. CASE PendStep
  BY <1>13, Zenon DEF PendStep
<1>14. CASE OnlineOk
  BY <1>14, Zenon DEF OnlineOk
<1>15. CASE FetchOk
  BY <1>15, Zenon DEF FetchOk
<1> QED
  BY Zenon, <1>1, <1>2, <1>3, <1>4, <1>5, <1>6, <1>7, <1>8, <1>9, <1>10, <1>11, <1>12, <1>13,
     <1>14, <1>15 DEF Steps

\* Both hold at every step of every call of a session.
LEMMA FlowsFit == Spec => [](FlowFits /\ StillPending)
<1>1. Init => FlowFits /\ StillPending
  BY Zenon DEF Init, FlowFits, StillPending
<1>2. FlowFits /\ StillPending /\ [Next]_vars => FlowFits' /\ StillPending'
  <2> SUFFICES ASSUME FlowFits, StillPending, [Next]_vars PROVE FlowFits' /\ StillPending'
    OBVIOUS
  <2>1. CASE UNCHANGED vars
    <3>1. UNCHANGED <<pending, pc, todo, flow, service, result, challenge, accepted>>
      BY <2>1, Zenon DEF vars, call, history
    <3>2. FlowFits'
      BY <3>1, Zenon DEF FlowFits
    <3>3. StillPending'
      BY <3>1, Zenon DEF StillPending
    <3> QED
      BY <3>2, <3>3
  <2> QED
    BY <2>1, CallFits, StepFits, Zenon DEF Next
<1> QED
  BY <1>1, <1>2, PTL DEF Spec

\* A challenge the caller was given stays answerable until the login is over or
\* another one begins, whatever calls and failures come between.
THEOREM ChallengesStayAnswerable == Spec => []Answerable
<1>1. FlowFits /\ StillPending => Answerable
  BY Zenon DEF StillPending, Answerable
<1> QED
  BY <1>1, FlowsFit, PTL
-----------------------------------------------------------------------------
\* A response may set the session cookie, and the sid may be taken from it.
LEMMA CaptureDated ==
    ASSUME Dated, Capture, id' = id
    PROVE  /\ Dated'
           /\ Sync /\ issued' = id => sid' = id
BY DEF Dated, Capture, Sync, cookies

\* A call keeps what belongs to the login, or drops it with the login.
LEMMA CallOwns ==
    ASSUME Dated, OwnCredentials, Calls
    PROVE  Dated' /\ OwnCredentials'
<1> USE DEF Dated, OwnCredentials, Config, Goto, Return, Reset, identity, cookies
<1>1. CASE LoginPassword \/ LoginSms
  <2>1. id' = id + 1 /\ ticket' = 0 /\ UNCHANGED cookies /\ pc' = "config"
    BY <1>1, Zenon DEF LoginPassword, LoginSms
  <2> QED
    BY <2>1
<1>2. CASE SubmitCaptcha \/ SubmitSmsCode
  BY <1>2, Zenon DEF SubmitCaptcha, SubmitSmsCode
<1>3. ASSUME NEW device \in BOOLEAN, CompleteCallback(device)
      PROVE  Dated' /\ OwnCredentials'
  BY <1>3 DEF CompleteCallback
<1>4. CASE PrepareCallback
  BY <1>4 DEF PrepareCallback
<1>5. CASE ImportSession
  BY <1>5 DEF ImportSession, Import
<1>6. CASE ResumeSession
  BY <1>6 DEF ResumeSession, Import
<1>7. CASE AvailableMethods \/ ClientResource
  BY <1>7, Zenon DEF AvailableMethods, ClientResource
<1> QED
  BY <1>1, <1>2, <1>3, <1>4, <1>5, <1>6, <1>7, Zenon DEF Calls

\* A response gives the login a ticket or a cookie of its own, and a login that
\* ends takes its sid from the cookie.
LEMMA StepOwns ==
    ASSUME FlowFits, Dated, OwnCredentials, Steps
    PROVE  Dated' /\ OwnCredentials'
<1> USE DEF OwnCredentials, Config, Goto, Return, identity
<1>1. CASE RequestFails \/ ConfigOk \/ SendSmsOk \/ CaptchaOk \/ FetchOk
  <2>1. Capture /\ id' = id /\ sid' = sid /\ ticket' = ticket
    BY <1>1, Zenon DEF RequestFails, ConfigOk, SendSmsOk, CaptchaOk, FetchOk
  <2>2. pc' # "idle" \/ result' # "done"
    BY <1>1, Zenon DEF RequestFails, ConfigOk, SendSmsOk, CaptchaOk, FetchOk, FlowFits
  <2> QED
    BY <2>1, <2>2, CaptureDated, Zenon
<1>2. CASE PasswordOk \/ VerifyOk
  <2>1. Capture /\ id' = id /\ (sid' = sid \/ Sync) /\ ticket' \in {0, id, ticket}
    BY <1>2, Zenon DEF PasswordOk, VerifyOk, TicketFrom
  <2>2. pc' # "idle"
    BY <1>2, Zenon DEF PasswordOk, VerifyOk, TicketFrom
  <2> QED
    BY <2>1, <2>2, CaptureDated, Zenon
<1>3. CASE CallbackOk
  BY <1>3, CaptureDated, Zenon DEF CallbackOk
<1>4. CASE ReportOk
  BY <1>4, CaptureDated, Zenon DEF ReportOk, Dated, cookies
<1>5. CASE CheckOk \/ StepOk \/ TriggerOk \/ CustomOk
  BY <1>5, CaptureDated, Zenon DEF CheckOk, StepOk, TriggerOk, CustomOk, Answer
<1>6. CASE Round \/ PendStep
  BY <1>6, Zenon DEF Round, LoggedIn, NextStep, PendStep, Dated, cookies
<1>7. CASE OnlineOk
  <2>1. Capture /\ Sync /\ UNCHANGED <<id, ticket>>
    BY <1>7, Zenon DEF OnlineOk
  <2>2. Dated' /\ (issued' = id => sid' = id)
    BY <2>1, CaptureDated
  <2> QED
    BY <2>1, <2>2 DEF Dated
<1> QED
  BY <1>1, <1>2, <1>3, <1>4, <1>5, <1>6, <1>7, Zenon DEF Steps

\* However many logins there are, the ticket presented was issued in the current
\* one, and one that is done exports the sid and carries the cookie the server has
\* set in it, if it has set one.
THEOREM CredentialsAreOwn == Spec => []OwnCredentials
<1>1. Init => Dated /\ OwnCredentials
  <2>1. Init => id = 1 /\ issued = 0 /\ ticket = 0
    BY Zenon DEF Init
  <2> QED
    BY <2>1 DEF Dated, OwnCredentials
<1>2. FlowFits /\ Dated /\ OwnCredentials /\ [Next]_vars => Dated' /\ OwnCredentials'
  <2> SUFFICES ASSUME FlowFits, Dated, OwnCredentials, [Next]_vars PROVE Dated' /\ OwnCredentials'
    OBVIOUS
  <2>1. CASE UNCHANGED vars
    BY <2>1, Zenon DEF Dated, OwnCredentials, vars, identity, cookies
  <2> QED
    BY <2>1, CallOwns, StepOwns, Zenon DEF Next
<1> QED
  BY <1>1, <1>2, FlowsFit, PTL DEF Spec
-----------------------------------------------------------------------------
(* The events of a proxy service *)

\* The mutex of the listener's slot, and what each recorder has called so far:
\* one that is in a call is in a call of the listener that is registered.
SlotGuarded ==
    /\ rec \in [Recorders -> {"idle", "store", "notify", "calling", "done"}]
    /\ due \in [Recorders -> {slot, None}]
    /\ None \notin retired /\ slot \notin retired
    /\ setter = "lock" => next = None \/ next \notin retired \cup {slot}
    /\ \A r \in Recorders : rec[r] \in {"idle", "store"} => due[r] = None
    /\ \A r \in Recorders : rec[r] \in {"idle", "store", "notify"} => \A l : <<r, l>> \notin calls
    /\ \A r \in Recorders : rec[r] = "calling" =>
          /\ holder = r /\ slot # None
          /\ \A l : <<r, l>> \in calls <=> l = slot

\* A step of a recorder.
LEMMA RecorderKeeps ==
    ASSUME SlotGuarded, EveryEventHeard, NEW r \in Recorders,
           RecordError(r) \/ StoreEvent(r) \/ Notify(r) \/ CallReturns(r)
    PROVE  SlotGuarded' /\ EveryEventHeard'
<1> USE ProxyEventsAssumption DEF SlotGuarded, EveryEventHeard
<1>1. CASE RecordError(r)
  BY <1>1 DEF RecordError, slotVars
<1>2. CASE StoreEvent(r)
  BY <1>2 DEF StoreEvent, slotVars
<1>3. CASE Notify(r)
  <2>1. CASE slot # None
    BY <1>3, <2>1 DEF Notify
  <2>2. CASE slot = None
    BY <1>3, <2>2, Zenon DEF Notify
  <2> QED
    BY <2>1, <2>2, Zenon
<1>4. CASE CallReturns(r)
  BY <1>4, Zenon DEF CallReturns
<1> QED
  BY <1>1, <1>2, <1>3, <1>4, Zenon

\* A listener is replaced while nobody is in a call of it.
LEMMA SetterKeeps ==
    ASSUME SlotGuarded, EveryEventHeard, SetBegin \/ Set \/ TakeEvent
    PROVE  SlotGuarded' /\ EveryEventHeard'
<1> USE ProxyEventsAssumption DEF SlotGuarded, EveryEventHeard
<1>1. CASE SetBegin
  BY <1>1, Zenon DEF SetBegin
<1>2. CASE Set
  BY <1>2, Zenon DEF Set
<1>3. CASE TakeEvent
  BY <1>3, Zenon DEF TakeEvent, slotVars
<1> QED
  BY <1>1, <1>2, <1>3, Zenon

\* The mutex keeps the two together, whatever the C program does meanwhile.
LEMMA EventsGuarded == CSpec => [](SlotGuarded /\ EveryEventHeard)
<1>1. CInit => SlotGuarded /\ EveryEventHeard
  BY Zenon DEF CInit, EventsInit, SlotGuarded, EveryEventHeard
<1>2. SlotGuarded /\ EveryEventHeard /\ [CNext]_allVars => SlotGuarded' /\ EveryEventHeard'
  <2> SUFFICES ASSUME SlotGuarded, EveryEventHeard, [CNext]_allVars
               PROVE  SlotGuarded' /\ EveryEventHeard'
    OBVIOUS
  <2>1. CASE UNCHANGED eventVars
    BY <2>1 DEF SlotGuarded, EveryEventHeard, eventVars, slotVars
  <2>2. CASE TakeEvent \/ Events
    BY <2>2, RecorderKeeps, SetterKeeps, Zenon DEF Events
  <2>3. UNCHANGED eventVars \/ TakeEvent \/ Events
    BY Zenon DEF CNext, Succeed, Fail, Free, atr_proxy_service_take_event, allVars
  <2> QED
    BY <2>1, <2>2, <2>3, Zenon
<1> QED
  BY <1>1, <1>2, PTL DEF CSpec

\* set_event_listener returns only when the listener it replaced is not running,
\* and no thread calls that listener again.
THEOREM ReplacedListenersRest == CSpec => []RetiredIsQuiet
<1>1. SlotGuarded => RetiredIsQuiet
  BY DEF SlotGuarded, RetiredIsQuiet
<1> QED
  BY <1>1, EventsGuarded, PTL

\* No event is skipped because the listener is busy with another one.
THEOREM ListenersHearAll == CSpec => []EveryEventHeard
BY EventsGuarded, PTL
-----------------------------------------------------------------------------
(* The memory handed to a C caller *)

Size ==
    [bytes : Nat, strings : Nat, methods : Nat, cookies : Nat, ips : Nat, domains : Nat,
     dns : Nat, groups : Nat, addresses : Nat, excluded : Nat,
     present : SUBSET {"dns_server", "last_event_message", "last_error"}]

\* An empty list has no items.
LEMMA NoItems == ASSUME NEW p, NEW n \in Nat, ~(n > 0) PROVE Items(p, n) = {}
BY DEF Items

\* Every pointer that a copy_* function makes is visited by the matching free_*
\* function, whatever the sizes of the lists.
LEMMA CopiedIsVisited ==
    ASSUME NEW k \in Kinds, NEW s \in Size
    PROVE  Copied(k, s) \subseteq Visited(k, s)
<1> USE DEF Kinds, Challenges, Size, Copied, Visited
<1>1. \A p : copy_session_material(p, s) \subseteq free_session_material(p, s)
  <2> TAKE p
  <2> DEFINE c == Append(p, "cookies")
  <2>1. s.cookies \in Nat /\ (~(s.cookies > 0) => Items(c, s.cookies) = {})
    BY NoItems, Zenon
  <2>2. \A q : copy_cookie_record(q) = free_cookie_record(q)
    BY Zenon DEF copy_cookie_record, free_cookie_record
  <2>3. Slice(c, s.cookies) \cup UNION {copy_cookie_record(q) : q \in Items(c, s.cookies)}
           \subseteq free_cookie_list(c, s.cookies)
    BY <2>1, <2>2, Zenon DEF free_cookie_list, Slice
  <2> QED
    BY <2>3, Zenon DEF copy_session_material, free_session_material
<1>2. \A p : \A n \in Nat : set_string_list_out(p, n) \subseteq free_string_list(p, n)
  BY NoItems, Zenon DEF set_string_list_out, free_string_list, Slice
<1>3. CASE k \in {"handle", "string", "endpoint", "stats"}
  BY <1>3, Zenon DEF copy_stats
<1>4. CASE k = "blob"
  BY <1>4, Zenon DEF copy_blob
<1>5. CASE k = "strings"
  BY <1>5, <1>2, Zenon
<1>6. CASE k = "methods"
  BY <1>6, NoItems, Zenon DEF copy_methods, atr_auth_method_list_free, Slice
<1>7. CASE k = "session"
  BY <1>7, <1>1, Zenon
<1>8. CASE k \in Challenges
  BY <1>8, <1>1, Zenon DEF challenge_to_ffi, free_challenge, copy_blob
<1>9. CASE k = "snapshot"
  <2>1. Slice(<<"ip_resources">>, s.ips)
           \cup UNION {copy_ip_resource(q) : q \in Items(<<"ip_resources">>, s.ips)}
           \subseteq free_ip_resource_list(<<"ip_resources">>, s.ips)
    BY NoItems, Zenon DEF copy_ip_resource, free_ip_resource_list, Slice
  <2>2. Slice(<<"domain_resources">>, s.domains)
           \cup UNION {copy_domain_resource(q) : q \in Items(<<"domain_resources">>, s.domains)}
           \subseteq free_domain_resource_list(<<"domain_resources">>, s.domains)
    BY NoItems, Zenon DEF copy_domain_resource, free_domain_resource_list, Slice
  <2>3. Slice(<<"dns_resources">>, s.dns)
           \cup UNION {copy_dns_resource(q) : q \in Items(<<"dns_resources">>, s.dns)}
           \subseteq free_dns_resource_list(<<"dns_resources">>, s.dns)
    BY NoItems, Zenon DEF copy_dns_resource, free_dns_resource_list, Slice
  <2>4. copy_node_groups(<<"node_groups">>, s) \subseteq free_node_group_list(<<"node_groups">>, s)
    <3>1. \A q : set_string_list_out(Append(q, "addresses"), s.addresses)
                   \subseteq free_string_list(Append(q, "addresses"), s.addresses)
      BY <1>2, Zenon
    <3>2. \A q : Fields(q, {"group_id"}) = {Append(q, "group_id")}
      BY Zenon DEF Fields
    <3>3. ~(s.groups > 0) => Items(<<"node_groups">>, s.groups) = {}
      BY NoItems, Zenon
    <3> QED
      BY <3>1, <3>2, <3>3 DEF copy_node_groups, free_node_group_list, Slice
  <2>5. set_string_list_out(<<"excluded_ips">>, s.excluded)
           \subseteq free_string_list(<<"excluded_ips">>, s.excluded)
    BY <1>2, Zenon
  <2>6. copy_resource_snapshot(s) \subseteq free_resource_snapshot(s)
    BY <2>1, <2>2, <2>3, <2>4, <2>5 DEF copy_resource_snapshot, free_resource_snapshot, copy_blob
  <2> QED
    BY <1>9, <2>6, Zenon
<1> QED
  BY <1>3, <1>4, <1>5, <1>6, <1>7, <1>8, <1>9, Zenon

\* The first element of a path names the field that a *_free leaves null.
Rooted(p, a) == \E S : p \in Seq(S) /\ p # <<>> /\ p[1] = a

\* A longer path keeps its first element: the fields and items below a pointer
\* belong to the field that leads to it.
LEMMA RootedPaths ==
    ASSUME NEW a, NEW p, Rooted(p, a)
    PROVE  /\ p[1] = a
           /\ \A x : Rooted(Append(p, x), a)
           /\ \A F : \A q \in Fields(p, F) : Rooted(q, a)
           /\ \A n : \A q \in Items(p, n) : Rooted(q, a)
           /\ \A n : \A q \in Slice(p, n) : Rooted(q, a)
<1>1. ASSUME NEW x PROVE Rooted(Append(p, x), a)
  <2>1. PICK S : p \in Seq(S) /\ p # <<>> /\ p[1] = a
    BY Zenon DEF Rooted
  <2>2. p \in Seq(S \cup {x})
    BY <2>1
  <2>3. Append(p, x) \in Seq(S \cup {x}) /\ Append(p, x) # <<>> /\ Append(p, x)[1] = a
    BY <2>1, <2>2
  <2> QED
    BY <2>3, Zenon DEF Rooted
<1> QED
  BY <1>1, Zenon DEF Rooted, Fields, Items, Slice

\* No pointer of what a *_free was given is left in the structure.
LEMMA CopiedIsNulled ==
    ASSUME NEW k \in Kinds \ {"handle", "string"}, NEW s \in Size
    PROVE  \A p \in Copied(k, s) : p[1] \in Nulled(k)
<1> USE DEF Kinds, Challenges, Copied, Nulled
<1>1. \A a : Rooted(<<a>>, a)
  <2> TAKE a
  <2>1. <<a>> \in Seq({a}) /\ <<a>> # <<>> /\ <<a>>[1] = a
    OBVIOUS
  <2> QED
    BY <2>1, Zenon DEF Rooted
<1>2. ASSUME NEW a, NEW q, Rooted(q, a), NEW n, NEW p \in set_string_list_out(q, n)
      PROVE  Rooted(p, a)
  BY <1>2, RootedPaths, Zenon DEF set_string_list_out
<1>3. ASSUME NEW a, NEW q, Rooted(q, a), NEW n, NEW F, NEW p \in UNION {Fields(r, F) : r \in Items(q, n)}
      PROVE  Rooted(p, a)
  BY <1>3, RootedPaths
<1>4. CASE k \in {"endpoint", "stats"}
  BY <1>4 DEF copy_stats
<1>5. CASE k \in {"blob", "strings"}
  BY <1>5, <1>1, <1>2, RootedPaths, Zenon DEF copy_blob
<1>6. CASE k = "methods"
  BY <1>6, <1>1, <1>3, RootedPaths DEF copy_methods
<1>7. CASE k = "session"
  <2>1. \A x : Append(<<>>, x) = <<x>>
    OBVIOUS
  <2>2. ASSUME NEW F, NEW p \in Fields(<<>>, F) PROVE p[1] \in F
    BY <2>1 DEF Fields
  <2> QED
    BY <1>7, <1>1, <1>3, <2>1, <2>2, RootedPaths DEF copy_session_material, copy_cookie_record
<1>8. CASE k \in {"captcha", "sms", "callback"}
  BY <1>8, <1>1, RootedPaths DEF challenge_to_ffi, copy_blob
<1>9. CASE k = "done"
  <2> DEFINE c == Append(<<"session">>, "cookies")
  <2>1. Rooted(<<"session">>, "session") /\ Rooted(c, "session")
    BY <1>1, RootedPaths, Zenon
  <2> HIDE DEF c
  <2>2. \A p \in UNION {copy_cookie_record(r) : r \in Items(c, s.cookies)} : Rooted(p, "session")
    BY <1>3, <2>1 DEF copy_cookie_record
  <2>3. \A p \in copy_session_material(<<"session">>, s) : Rooted(p, "session")
    BY <2>1, <2>2, RootedPaths DEF copy_session_material, c
  <2> QED
    BY <1>9, <2>3, RootedPaths, Zenon DEF challenge_to_ffi
<1>10. CASE k = "snapshot"
  <2>1. ASSUME NEW p \in copy_node_groups(<<"node_groups">>, s) PROVE Rooted(p, "node_groups")
    <3>1. \A q \in Items(<<"node_groups">>, s.groups) :
              Rooted(q, "node_groups") /\ Rooted(Append(q, "addresses"), "node_groups")
      BY <1>1, RootedPaths, Zenon
    <3> QED
      BY <2>1, <3>1, <1>1, <1>2, RootedPaths DEF copy_node_groups
  <2>2. ASSUME NEW p \in copy_resource_snapshot(s) PROVE \E a \in Nulled("snapshot") : Rooted(p, a)
    BY <2>1, <2>2, <1>1, <1>2, <1>3, RootedPaths DEF copy_resource_snapshot, copy_blob,
       copy_ip_resource, copy_domain_resource, copy_dns_resource
  <2> QED
    BY <1>10, <2>2, RootedPaths
<1> QED
  BY <1>4, <1>5, <1>6, <1>7, <1>8, <1>9, <1>10, Zenon

\* What a call may return has the fields of a size.
LEMMA SizesFit == Empty \in Size /\ \A k : SizesOf(k) \subseteq Size
<1>1. Empty \in Size
  BY Zenon DEF Empty, Size
<1>2. Sizes \subseteq Size
  BY CAbiAssumption, Zenon DEF Size
<1> QED
  BY <1>1, <1>2, Zenon DEF SizesOf

Pointers == UNION {Copied(k, s) : k \in Kinds, s \in Size}

\* What a thread's structure holds: all that a call handed out, or nothing.
Held ==
    /\ value \in [Threads -> [kind : Kinds \cup {"none"}, size : Size, ptr : SUBSET Pointers]]
    /\ \A t \in Threads : value[t].ptr # {} =>
          value[t].kind \in Kinds /\ value[t].ptr = Copied(value[t].kind, value[t].size)

\* What is reachable, and held, after one thread's structure has been written.
LEMMA AfterWrite ==
    ASSUME Held, NEW t \in Threads, NEW w, value' = [value EXCEPT ![t] = w],
           w \in [kind : Kinds \cup {"none"}, size : Size, ptr : SUBSET Pointers],
           w.ptr # {} => w.kind \in Kinds /\ w.ptr = Copied(w.kind, w.size)
    PROVE  /\ Held'
           /\ Reachable' = (Reachable \ ({t} \X value[t].ptr)) \cup ({t} \X w.ptr)
<1>1. value'[t] = w /\ \A u \in Threads \ {t} : value'[u] = value[u]
  BY Zenon DEF Held
<1>2. value' \in [Threads -> [kind : Kinds \cup {"none"}, size : Size, ptr : SUBSET Pointers]]
  BY Zenon DEF Held
<1>3. Held'
  BY <1>1, <1>2, Zenon DEF Held
<1> QED
  BY <1>1, <1>3 DEF Reachable

\* A value is handed out.
LEMMA HandKeeps ==
    ASSUME Held, HeapIsReachable, NEW t \in Threads, NEW k \in Kinds, NEW s \in Size,
           value[t].ptr = {}, Hand(t, k, s), UNCHANGED invalid
    PROVE  Held' /\ HeapIsReachable'
<1> DEFINE w == [kind |-> k, size |-> s, ptr |-> Copied(k, s)]
<1>1. w \in [kind : Kinds \cup {"none"}, size : Size, ptr : SUBSET Pointers]
  BY DEF Pointers
<1>2. w.kind = k /\ w.size = s /\ w.ptr = Copied(k, s) /\ value' = [value EXCEPT ![t] = w]
  BY Zenon DEF Hand
<1> HIDE DEF w
<1>3. Held' /\ Reachable' = (Reachable \ ({t} \X value[t].ptr)) \cup ({t} \X w.ptr)
  BY <1>1, <1>2, AfterWrite, Zenon
<1> QED
  BY <1>2, <1>3, Zenon DEF Hand, HeapIsReachable

\* A value is released: all of it is visited, and nothing of it is left to release.
LEMMA FreeKeeps ==
    ASSUME Held, HeapIsReachable, NEW t \in Threads, Free(t)
    PROVE  Held' /\ HeapIsReachable'
<1> DEFINE v == value[t]
           w == IF v.kind \in {"handle", "string"} THEN Unset
                ELSE [v EXCEPT !.ptr = {p \in @ : p[1] \notin Nulled(v.kind)}, !.size = Empty]
           released == Visited(v.kind, v.size) \cap v.ptr
<1>1. /\ v \in [kind : Kinds \cup {"none"}, size : Size, ptr : SUBSET Pointers] /\ v.kind \in Kinds
      /\ value' = [value EXCEPT ![t] = w] /\ heap' = heap \ ({t} \X released)
      /\ invalid' = (invalid \/ ~(({t} \X released) \subseteq heap))
  BY Zenon DEF Held, Free
<1>2. released = v.ptr
  BY <1>1, CopiedIsVisited, Zenon DEF Held
<1>3. w.ptr = {} /\ w \in [kind : Kinds \cup {"none"}, size : Size, ptr : SUBSET Pointers]
  <2>1. CASE v.kind \in {"handle", "string"}
    BY <2>1, SizesFit, Zenon DEF Unset
  <2>2. CASE v.kind \notin {"handle", "string"}
    <3>1. {p \in v.ptr : p[1] \notin Nulled(v.kind)} = {}
      BY <1>1, <2>2, CopiedIsNulled, Zenon DEF Held
    <3>2. w = [v EXCEPT !.ptr = {}, !.size = Empty]
      BY <2>2, <3>1, Zenon
    <3> QED
      BY <1>1, <3>2, SizesFit, Zenon
  <2> QED
    BY <2>1, <2>2, Zenon
<1>4. {t} \X v.ptr \subseteq heap
  BY Zenon DEF HeapIsReachable, Reachable
<1> HIDE DEF v, w, released
<1>5. Held' /\ Reachable' = (Reachable \ ({t} \X v.ptr)) \cup ({t} \X w.ptr)
  BY <1>1, <1>3, AfterWrite, Zenon DEF v
<1> QED
  BY <1>1, <1>2, <1>3, <1>4, <1>5, Zenon DEF HeapIsReachable

\* For any number of threads, calls and items: what a call allocates is reachable
\* until the matching *_free, which releases all of it, once.
THEOREM NothingLeaks == CSpec => []HeapIsReachable
<1>1. CInit => Held /\ HeapIsReachable
  <2> SUFFICES ASSUME CInit PROVE Held /\ HeapIsReachable
    OBVIOUS
  <2>1. Unset \in [kind : Kinds \cup {"none"}, size : Size, ptr : SUBSET Pointers] /\ Unset.ptr = {}
    BY SizesFit, Zenon DEF Unset
  <2>2. heap = {} /\ invalid = FALSE /\ value = [t \in Threads |-> Unset]
    BY Zenon DEF CInit
  <2> QED
    BY <2>1, <2>2, Zenon DEF Held, HeapIsReachable, Reachable
<1>2. Held /\ HeapIsReachable /\ [CNext]_allVars => Held' /\ HeapIsReachable'
  <2> SUFFICES ASSUME Held, HeapIsReachable, [CNext]_allVars PROVE Held' /\ HeapIsReachable'
    OBVIOUS
  <2>1. CASE UNCHANGED <<value, heap, invalid>>
    BY <2>1 DEF Held, HeapIsReachable, Reachable
  <2>2. ASSUME NEW t \in Threads, NEW k \in Kinds, Succeed(t, k) PROVE Held' /\ HeapIsReachable'
    <3>1. PICK s \in SizesOf(k) : Hand(t, k, s)
      BY <2>2, Zenon DEF Succeed
    <3>2. s \in Size
      BY SizesFit, Zenon
    <3> QED
      BY <2>2, <3>1, <3>2, HandKeeps, Zenon DEF Succeed, Begin
  <2>3. ASSUME NEW t \in Threads, atr_proxy_service_take_event(t) PROVE Held' /\ HeapIsReachable'
    <3>1. "string" \in Kinds
      BY Zenon DEF Kinds
    <3> QED
      BY <2>1, <2>3, <3>1, SizesFit, HandKeeps, Zenon DEF atr_proxy_service_take_event, Begin
  <2>4. ASSUME NEW t \in Threads, Fail(t) \/ Free(t) PROVE Held' /\ HeapIsReachable'
    BY <2>1, <2>4, FreeKeeps, Zenon DEF Fail
  <2> QED
    BY <2>1, <2>2, <2>3, <2>4, Zenon DEF CNext, Events, cVars, allVars
<1> QED
  BY <1>1, <1>2, PTL DEF CSpec
-----------------------------------------------------------------------------
(* The I/O loop of an L3 remote. *)

\* What the proofs need to know of the variables.
LoopTyped ==
    /\ worker \in {"commands", "wakeCommands", "beat", "check", "wait", "frames", "mid", "stopped"}
    /\ now \in Nat /\ next_heartbeat \in Nat /\ deadline \in Nat /\ last_frame_at \in Nat
    /\ owed \subseteq Nat /\ ringing \in Nat
    /\ acknowledged \in BOOLEAN /\ lost \in BOOLEAN /\ answers \in BOOLEAN
    /\ wake \in BOOLEAN /\ ready \in BOOLEAN /\ socket_readable \in BOOLEAN /\ continue_reading \in BOOLEAN
    /\ queue \in Seq({"write", "close"})
    /\ buffered \in Seq(Frames) /\ kernel \in Seq(Frames)

\* Whoever stopped to read has left nothing behind that the poller will not report.
Awake ==
    /\ worker = "wait" => ~continue_reading
    /\ worker \notin {"frames", "mid", "stopped"} /\ ~continue_reading =>
          /\ buffered = <<>>
          /\ kernel # <<>> => ready \/ (worker = "wakeCommands" /\ socket_readable)
    /\ worker \notin {"commands", "wakeCommands", "stopped"} /\ queue # <<>> => wake \/ ringing > 0

\* The clock: a heartbeat is at most one interval away, the thread waits no longer
\* than to the next one, and is behind it only when a frame has just come.
Clocked ==
    /\ heard_at = last_frame_at /\ last_frame_at <= now
    /\ next_heartbeat <= now + HeartbeatInterval
    /\ worker = "check" => now < next_heartbeat
    /\ worker = "wait" => now <= deadline /\ deadline = next_heartbeat
    /\ worker \notin {"mid", "stopped"} => now <= next_heartbeat \/ last_frame_at = now
    /\ worker = "wait" /\ acknowledged => deadline < last_frame_at + LivenessTimeout + HeartbeatInterval

\* A reply has come that is not read yet.
Replies(s) == \E i \in DOMAIN s : s[i] = "reply"
HasReply == Replies(buffered) \/ Replies(kernel)

\* A node whose link is up owes nothing that is overdue; the first heartbeat
\* since the last frame is not due, or is being answered, or was answered.
Answering ==
    /\ acknowledged \/ owed # {} \/ HasReply => answers
    /\ ~lost => \A date \in owed : now <= date
    /\ ~lost /\ answers =>
          \/ next_heartbeat <= last_frame_at + HeartbeatInterval
          \/ \E date \in owed : date <= last_frame_at + HeartbeatInterval + Rtt
          \/ HasReply /\ now <= last_frame_at + HeartbeatInterval + Rtt

WorkerInv == LoopTyped /\ Awake /\ Clocked /\ Answering /\ SilenceNoticed /\ NoFalseAlarm
-----------------------------------------------------------------------------
(* The two ends of the stream.                                             *)

\* The first frame of a queue, and the rest of it.
LEMMA FirstFrame ==
    ASSUME NEW s \in Seq(Frames), s # <<>>
    PROVE  /\ Tail(s) \in Seq(Frames) /\ Head(s) \in Frames
           /\ Replies(s) <=> Head(s) = "reply" \/ Replies(Tail(s))
<1>1. /\ Tail(s) \in Seq(Frames) /\ Head(s) \in Frames /\ 1 \in DOMAIN s /\ Head(s) = s[1]
      /\ \A i \in DOMAIN Tail(s) : i + 1 \in DOMAIN s /\ Tail(s)[i] = s[i + 1]
      /\ \A i \in DOMAIN s \ {1} : i - 1 \in DOMAIN Tail(s) /\ Tail(s)[i - 1] = s[i]
  OBVIOUS
<1> QED
  BY <1>1, Zenon DEF Replies

\* A frame that arrives is reported by the poller.
LEMMA ArriveLeaves ==
    ASSUME LoopTyped, NEW frame \in Frames, Arrive(frame)
    PROVE  /\ kernel' \in Seq(Frames) /\ UNCHANGED buffered /\ ready' = TRUE
           /\ HasReply' <=> HasReply \/ frame = "reply"
<1>1. /\ kernel' = Append(kernel, frame) /\ UNCHANGED buffered /\ ready' = TRUE
      /\ kernel \in Seq(Frames)
  BY Zenon DEF Arrive, LoopTyped
<1>2. /\ kernel' \in Seq(Frames) /\ DOMAIN kernel' = DOMAIN kernel \cup {Len(kernel) + 1}
      /\ kernel'[Len(kernel) + 1] = frame /\ \A i \in DOMAIN kernel : kernel'[i] = kernel[i]
  BY <1>1
<1> QED
  BY <1>1, <1>2, Zenon DEF HasReply, Replies

\* Reading takes the first frame, and no other.
LEMMA TakeLeaves ==
    ASSUME LoopTyped, Stream # <<>>, TakeFrame
    PROVE  /\ buffered' \in Seq(Frames) /\ kernel' \in Seq(Frames) /\ UNCHANGED ready
           /\ Head(Stream) \in Frames
           /\ HasReply <=> Head(Stream) = "reply" \/ HasReply'
<1>1. buffered \in Seq(Frames) /\ kernel \in Seq(Frames)
  BY Zenon DEF LoopTyped
<1>2. CASE buffered # <<>>
  <2>1. Head(Stream) = Head(buffered) /\ buffered' = Tail(buffered) /\ kernel' = kernel /\ UNCHANGED ready
    BY <1>1, <1>2 DEF Stream, TakeFrame
  <2> QED
    BY <1>1, <1>2, <2>1, FirstFrame, Zenon DEF HasReply
<1>3. CASE buffered = <<>>
  <2>1. /\ Head(Stream) = Head(kernel) /\ buffered' = Tail(kernel) /\ kernel' = <<>> /\ UNCHANGED ready
        /\ kernel # <<>> /\ <<>> \in Seq(Frames)
    BY <1>1, <1>3 DEF Stream, TakeFrame
  <2>2. ~Replies(<<>>)
    BY DEF Replies
  <2> QED
    BY <1>1, <1>3, <2>1, <2>2, FirstFrame, Zenon DEF HasReply
<1> QED
  BY <1>2, <1>3, Zenon
-----------------------------------------------------------------------------
(* One lemma for each part of the invariant.                               *)

\* The steps of the thread that leave the stream alone, those that read from it,
\* and those of the others.
Turns == DrainCommand \/ CommandsDrained \/ Beat \/ Check \/ Wait \/ FramesDrained
Reads == ReadFrame \/ ReadRest
Requests == WakeWorker \/ \E command \in {"write", "close"} : Enqueue(command)
Sends == NodeSend \/ \E date \in owed : NodeReply(date)

\* The steps, by what they touch.
LEMMA NextCases == WorkerNext <=> worker # "stopped" /\ (Turns \/ Reads \/ Break \/ Requests \/ Sends \/ LinkDies \/ Tick)
  BY Zenon DEF WorkerNext, WorkerStep, Turns, Reads, Requests, Sends

\* What the node sends is a frame, and a reply only if it owes one.
LEMMA SendsFrame ==
    ASSUME Sends
    PROVE  \E frame \in Frames :
              /\ Arrive(frame)
              /\ \/ frame # "reply" /\ owed' = owed
                 \/ frame = "reply" /\ \E date \in owed : owed' = owed \ {date}
<1>1. CASE NodeSend
  BY <1>1, Zenon DEF NodeSend, Frames
<1>2. CASE \E date \in owed : NodeReply(date)
  BY <1>2, Zenon DEF NodeReply, Frames
<1> QED
  BY <1>1, <1>2, Zenon DEF Sends

\* Every step keeps the types of the worker, its clocks and the link.
LEMMA TypedStep == ASSUME LoopTyped, WorkerNext PROVE LoopTyped'
<1>0. /\ now \in Nat /\ next_heartbeat \in Nat /\ owed \subseteq Nat /\ ringing \in Nat
      /\ queue \in Seq({"write", "close"}) /\ HeartbeatInterval \in Nat /\ Rtt \in Nat
  BY L3WorkerAssumption, Zenon DEF LoopTyped
<1> USE DEF loopVars, livenessVars, drainVars, callerVars, streamVars, nodeVars, Proceed, Stop
<1>1. CASE DrainCommand
  BY <1>1 DEF DrainCommand, LoopTyped
<1>2. CASE CommandsDrained
  BY <1>2, Zenon DEF CommandsDrained, LoopTyped
<1>3. CASE Beat
  <2>1. now + HeartbeatInterval \in Nat /\ now + Rtt \in Nat
    BY <1>0
  <2> QED
    BY <1>3, <2>1, Zenon DEF Beat, LoopTyped
<1>4. CASE Check
  BY <1>4, Zenon DEF Check, LoopTyped
<1>5. CASE Wait
  BY <1>5, Zenon DEF Wait, LoopTyped
<1>6. CASE FramesDrained
  BY <1>6, Zenon DEF FramesDrained, LoopTyped
<1>7. CASE ReadFrame
  <2>1. buffered' \in Seq(Frames) /\ kernel' \in Seq(Frames) /\ UNCHANGED ready
    BY <1>7, TakeLeaves, Zenon DEF ReadFrame
  <2> QED
    BY <1>7, <2>1, Zenon DEF ReadFrame, RecordFrame, LoopTyped
<1>8. CASE ReadRest
  <2>1. buffered' \in Seq(Frames) /\ kernel' \in Seq(Frames) /\ UNCHANGED ready
    BY <1>8, TakeLeaves, Zenon DEF ReadRest
  <2> QED
    BY <1>8, <2>1, Zenon DEF ReadRest, RecordFrame, LoopTyped
<1>9. CASE Break \/ LinkDies
  BY <1>9, Zenon DEF Break, LinkDies, LoopTyped
<1>12. CASE Tick
  <2>1. now' \in Nat
    BY <1>0, <1>12 DEF Tick
  <2> QED
    BY <1>12, <2>1, Zenon DEF Tick, LoopTyped
<1>10. CASE WakeWorker
  <2>1. ringing' \in Nat
    BY <1>0, <1>10 DEF WakeWorker
  <2> QED
    BY <1>10, <2>1, Zenon DEF WakeWorker, LoopTyped
<1>13. ASSUME NEW command \in {"write", "close"}, Enqueue(command) PROVE LoopTyped'
  <2>1. queue' \in Seq({"write", "close"}) /\ ringing' \in Nat
    BY <1>0, <1>13 DEF Enqueue
  <2> QED
    BY <1>13, <2>1, Zenon DEF Enqueue, LoopTyped
<1>11. CASE Sends
  <2>1. PICK frame \in Frames : Arrive(frame) /\ owed' \subseteq owed
    BY <1>11, SendsFrame, Zenon
  <2>2. kernel' \in Seq(Frames) /\ UNCHANGED buffered /\ ready' = TRUE
    BY <2>1, ArriveLeaves, Zenon
  <2> QED
    BY <2>1, <2>2, Zenon DEF Arrive, LoopTyped
<1> QED
  BY <1>1, <1>2, <1>3, <1>4, <1>5, <1>6, <1>7, <1>8, <1>9, <1>10, <1>11, <1>12, <1>13, NextCases, Zenon DEF Turns, Reads, Requests

\* Nothing that came in while the worker was awake is forgotten when it sleeps.
LEMMA AwakeStep == ASSUME LoopTyped, Awake, WorkerNext PROVE Awake'
<1> USE DEF loopVars, livenessVars, drainVars, callerVars, streamVars, nodeVars, Proceed, Stop
<1>1. CASE DrainCommand
  BY <1>1, Zenon DEF DrainCommand, Awake, LoopTyped
<1>2. CASE CommandsDrained
  BY <1>2, Zenon DEF CommandsDrained, Awake, LoopTyped
<1>3. CASE Beat
  BY <1>3, Zenon DEF Beat, Awake, LoopTyped
<1>4. CASE Check
  BY <1>4, Zenon DEF Check, Awake, LoopTyped
<1>5. CASE Wait
  BY <1>5, Zenon DEF Wait, Awake, LoopTyped
<1>6. CASE FramesDrained
  <2>1. Stream = <<>> => buffered = <<>> /\ kernel = <<>>
    BY DEF Stream, LoopTyped
  <2> QED
    BY <1>6, <2>1, Zenon DEF FramesDrained, Awake, LoopTyped
<1>7. CASE Reads
  BY <1>7, Zenon DEF Reads, ReadFrame, ReadRest, Awake
<1>8. CASE Break \/ LinkDies \/ Tick
  BY <1>8 DEF Break, LinkDies, Tick, Awake
<1>9. CASE Requests
  BY <1>9 DEF Requests, WakeWorker, Enqueue, Awake, LoopTyped
<1>10. CASE Sends
  <2>1. PICK frame \in Frames : Arrive(frame)
    BY <1>10, SendsFrame, Zenon
  <2> QED
    BY <2>1, Zenon DEF Arrive, Awake
<1> QED
  BY <1>1, <1>2, <1>3, <1>4, <1>5, <1>6, <1>7, <1>8, <1>9, <1>10, NextCases, Zenon DEF Turns

\* Time stands still, and no frame is read, but in a few steps.
LEMMA ClockStands ==
    ASSUME LoopTyped, Clocked, SilenceNoticed, UNCHANGED <<now, loopVars, livenessVars>>,
           \/ worker' = worker \/ worker' = "stopped"
           \/ worker \notin {"mid", "stopped"} /\ worker' \in {"beat", "frames", "commands"}
    PROVE  Clocked' /\ SilenceNoticed'
BY Zenon DEF Clocked, SilenceNoticed, loopVars, livenessVars

\* Time stands still while the worker is busy, and a sleep ends at its deadline.
LEMMA ClockStep == ASSUME LoopTyped, Clocked, SilenceNoticed, WorkerNext PROVE Clocked' /\ SilenceNoticed'
<1>1. /\ now \in Nat /\ next_heartbeat \in Nat /\ deadline \in Nat /\ last_frame_at \in Nat
      /\ HeartbeatInterval \in Nat \ {0} /\ LivenessTimeout \in Nat \ {0}
  BY L3WorkerAssumption, Zenon DEF LoopTyped
<1> USE DEF Proceed, Stop, livenessVars, loopVars
<1>2. CASE DrainCommand \/ CommandsDrained \/ FramesDrained \/ Break \/ Requests \/ Sends \/ LinkDies
  <2>1. /\ UNCHANGED <<now, loopVars, livenessVars>>
        /\ \/ worker' = worker \/ worker' = "stopped"
           \/ worker \notin {"mid", "stopped"} /\ worker' \in {"beat", "frames", "commands"}
    BY <1>2, SendsFrame, Zenon DEF DrainCommand, CommandsDrained, FramesDrained, Break, Requests, Enqueue, WakeWorker,
       LinkDies, Arrive
  <2> QED
    BY <2>1, ClockStands, Zenon
<1>3. CASE Beat
  <2>1. /\ worker = "beat" /\ worker' = "check" /\ UNCHANGED <<now, deadline, livenessVars>>
        /\ \/ now >= next_heartbeat /\ next_heartbeat' = now + HeartbeatInterval
           \/ ~(now >= next_heartbeat) /\ next_heartbeat' = next_heartbeat
    BY <1>3, Zenon DEF Beat
  <2> QED
    BY <1>1, <2>1 DEF Clocked, SilenceNoticed
<1>4. CASE Check
  <2>1. CASE worker' = "wait"
    <3>1. /\ worker = "check" /\ UNCHANGED <<now, next_heartbeat, livenessVars>> /\ ~IsStale
          /\ deadline' = IF next_heartbeat > now THEN next_heartbeat ELSE now
      BY <1>4, <2>1, Zenon DEF Check
    <3>2. deadline' = next_heartbeat /\ now < next_heartbeat
      BY <1>1, <3>1, Zenon DEF Clocked
    <3>3. acknowledged => next_heartbeat < last_frame_at + LivenessTimeout + HeartbeatInterval
      BY <1>1, <3>1 DEF Clocked, IsStale
    <3> QED
      BY <1>1, <2>1, <3>1, <3>2, <3>3 DEF Clocked, SilenceNoticed
  <2>2. CASE worker' # "wait"
    <3>1. /\ worker = "check" /\ worker' \in {"frames", "stopped"} /\ UNCHANGED <<now, loopVars, livenessVars>>
      BY <1>4, <2>2, Zenon DEF Check
    <3> QED
      BY <3>1, ClockStands, Zenon
  <2> QED
    BY <2>1, <2>2, Zenon
<1>5. CASE Wait
  <2>1. /\ worker = "wait" /\ worker' \in {"wakeCommands", "frames", "commands"}
        /\ UNCHANGED <<now, next_heartbeat, livenessVars>>
    BY <1>5, Zenon DEF Wait
  <2> QED
    BY <1>1, <2>1, Zenon DEF Clocked, SilenceNoticed
<1>6. CASE Reads
  <2>1. /\ UNCHANGED <<now, loopVars>>
        /\ \/ worker = "frames" /\ worker' \in {"frames", "mid"} /\ UNCHANGED livenessVars
           \/ /\ worker \in {"frames", "mid"} /\ worker' = "frames"
              /\ last_frame_at' = now /\ heard_at' = now
    BY <1>6, Zenon DEF Reads, ReadFrame, ReadRest, RecordFrame
  <2> QED
    BY <1>1, <2>1 DEF Clocked, SilenceNoticed
<1>7. CASE Tick
  <2>1. /\ now' = now + 1 /\ UNCHANGED <<worker, loopVars, livenessVars>>
        /\ worker = "mid" \/ (worker = "wait" /\ now < deadline)
    BY <1>7, Zenon DEF Tick
  <2> QED
    BY <1>1, <2>1 DEF Clocked, SilenceNoticed
<1> QED
  BY <1>2, <1>3, <1>4, <1>5, <1>6, <1>7, NextCases, Zenon DEF Turns

\* What the node still owes is due later, and a reply comes in time.
LEMMA AnswerStep == ASSUME LoopTyped, Awake, Clocked, Answering, WorkerNext PROVE Answering'
<1>1. /\ now \in Nat /\ next_heartbeat \in Nat /\ last_frame_at \in Nat /\ owed \subseteq Nat
      /\ HeartbeatInterval \in Nat \ {0} /\ Rtt \in Nat
      /\ next_heartbeat <= now + HeartbeatInterval
  BY L3WorkerAssumption, Zenon DEF LoopTyped, Clocked
<1> USE DEF Proceed, Stop, livenessVars, loopVars, streamVars, nodeVars
<1>2. CASE DrainCommand \/ CommandsDrained \/ FramesDrained \/ Break \/ Requests \/ LinkDies \/ Check \/ Wait
  <2>1. /\ UNCHANGED <<now, next_heartbeat, last_frame_at, acknowledged, owed, answers, buffered, kernel>>
        /\ lost' = lost \/ lost' = TRUE
    BY <1>2, Zenon DEF DrainCommand, CommandsDrained, FramesDrained, Break, Requests, Enqueue, WakeWorker,
       LinkDies, Check, Wait
  <2>2. HasReply' <=> HasReply
    BY <2>1, Zenon DEF HasReply
  <2> QED
    BY <2>1, <2>2, Zenon DEF Answering
<1>3. CASE Beat
  <2>1. /\ UNCHANGED <<now, last_frame_at, acknowledged, lost, answers, buffered, kernel>> /\ worker = "beat"
        /\ \/ /\ now >= next_heartbeat /\ next_heartbeat' = now + HeartbeatInterval
              /\ owed' = IF answers /\ ~lost THEN owed \cup {now + Rtt} ELSE owed
           \/ UNCHANGED <<next_heartbeat, owed>>
    BY <1>3, Zenon DEF Beat
  <2>2. HasReply' <=> HasReply
    BY <2>1, Zenon DEF HasReply
  <2>3. CASE UNCHANGED <<next_heartbeat, owed>>
    BY <2>1, <2>2, <2>3, Zenon DEF Answering
  <2>4. CASE ~(answers /\ ~lost) /\ owed' = owed
    BY <2>1, <2>2, <2>4, Zenon DEF Answering
  <2>5. CASE /\ answers /\ ~lost /\ now >= next_heartbeat
             /\ next_heartbeat' = now + HeartbeatInterval /\ owed' = owed \cup {now + Rtt}
    <3>1. \/ next_heartbeat' <= last_frame_at + HeartbeatInterval
          \/ next_heartbeat <= last_frame_at + HeartbeatInterval
             => now + Rtt <= last_frame_at + HeartbeatInterval + Rtt
      BY <1>1, <2>1, <2>5 DEF Clocked
    <3>2. now <= now + Rtt
      BY <1>1
    <3> QED
      BY <2>1, <2>2, <2>5, <3>1, <3>2, Zenon DEF Answering
  <2> QED
    BY <2>1, <2>3, <2>4, <2>5, Zenon
<1>4. CASE Reads
  <2>1. /\ TakeFrame /\ Stream # <<>> /\ UNCHANGED <<now, next_heartbeat, owed, lost, answers>>
        /\ \/ Head(Stream) # "reply" /\ UNCHANGED <<last_frame_at, acknowledged>>
           \/ last_frame_at' = now /\ acknowledged' = (acknowledged \/ Head(Stream) = "reply")
           \/ last_frame_at' = now /\ acknowledged' = (acknowledged \/ "other" = "reply")
    BY <1>4, Zenon DEF Reads, ReadFrame, ReadRest, RecordFrame
  <2>2. HasReply <=> Head(Stream) = "reply" \/ HasReply'
    BY <2>1, TakeLeaves, Zenon
  <2>3. acknowledged' \/ owed' # {} \/ HasReply' => answers'
    BY <2>1, <2>2, Zenon DEF Answering
  <2>4. CASE last_frame_at' = now
    BY <1>1, <2>1, <2>3, <2>4, Zenon DEF Answering
  <2>5. CASE Head(Stream) # "reply" /\ UNCHANGED <<last_frame_at, acknowledged>>
    BY <2>1, <2>2, <2>3, <2>5, Zenon DEF Answering
  <2> QED
    BY <2>1, <2>4, <2>5, Zenon
<1>5. CASE Sends
  <2>1. PICK frame \in Frames :
           /\ Arrive(frame)
           /\ \/ frame # "reply" /\ owed' = owed
              \/ frame = "reply" /\ \E date \in owed : owed' = owed \ {date}
    BY <1>5, SendsFrame, Zenon
  <2>2. /\ UNCHANGED <<now, next_heartbeat, last_frame_at, acknowledged, lost, answers>> /\ ~lost
    BY <2>1, Zenon DEF Arrive
  <2>3. HasReply' <=> HasReply \/ frame = "reply"
    BY <2>1, ArriveLeaves, Zenon
  <2>4. CASE frame # "reply"
    BY <2>1, <2>2, <2>3, <2>4, Zenon DEF Answering
  <2>5. CASE frame = "reply"
    <3>1. PICK date \in owed : owed' = owed \ {date}
      BY <2>1, <2>5, Zenon
    <3>2. date <= last_frame_at + HeartbeatInterval + Rtt => now <= last_frame_at + HeartbeatInterval + Rtt
      BY <1>1, <2>2 DEF Answering
    <3> QED
      BY <2>2, <2>3, <2>5, <3>1, <3>2, Zenon DEF Answering
  <2> QED
    BY <2>4, <2>5, Zenon
<1>6. CASE Tick
  <2>1. /\ now' = now + 1
        /\ UNCHANGED <<next_heartbeat, last_frame_at, acknowledged, owed, lost, answers, buffered, kernel>>
        /\ ~lost => \A date \in owed : now < date
        /\ (worker = "wait" /\ ~ready) \/ Stream = <<>>
    BY <1>6, Zenon DEF Tick
  <2>2. buffered = <<>> /\ kernel = <<>>
    BY <2>1 DEF Awake, Stream, LoopTyped
  <2>3. ~HasReply /\ ~HasReply'
    BY <2>1, <2>2 DEF HasReply, Replies
  <2>4. ~lost => \A date \in owed : now' <= date
    BY <1>1, <2>1
  <2> QED
    BY <2>1, <2>3, <2>4, Zenon DEF Answering
<1> QED
  BY <1>2, <1>3, <1>4, <1>5, <1>6, NextCases, Zenon DEF Turns

\* A thread that gives the link up has missed a reply for longer than a live link
\* takes to bring one.
LEMMA AlarmStep == ASSUME LoopTyped, Clocked, Answering, NoFalseAlarm, WorkerNext PROVE NoFalseAlarm'
<1>1. lost => lost'
  BY NextCases, SendsFrame, Zenon DEF Turns, Reads, Requests, DrainCommand, CommandsDrained, Beat, Check, Wait,
     FramesDrained, ReadFrame, ReadRest, Break, Enqueue, WakeWorker, LinkDies, Tick, Arrive, nodeVars
<1>2. CASE Check /\ IsStale
  <2>1. acknowledged /\ now - last_frame_at >= LivenessTimeout /\ now < next_heartbeat
    BY <1>2, Zenon DEF Check, IsStale, Clocked
  <2>2. ~(now <= last_frame_at + HeartbeatInterval + Rtt)
    BY <2>1, L3WorkerAssumption DEF LoopTyped
  <2>3. ~(next_heartbeat <= last_frame_at + HeartbeatInterval)
    BY <2>1, L3WorkerAssumption DEF LoopTyped
  <2>4. \A date \in owed : now <= date => ~(date <= last_frame_at + HeartbeatInterval + Rtt)
    BY <2>2, L3WorkerAssumption DEF LoopTyped
  <2>5. lost
    BY <2>1, <2>2, <2>3, <2>4, Zenon DEF Answering
  <2> QED
    BY <1>1, <2>5, Zenon DEF NoFalseAlarm
<1>3. CASE ~(Check /\ IsStale)
  <2>1. ended' = ended \/ ended' # "stale"
    BY <1>3, NextCases, SendsFrame, Zenon DEF Turns, Reads, Requests, DrainCommand, CommandsDrained, Beat, Check, Wait,
       FramesDrained, ReadFrame, ReadRest, Break, Enqueue, WakeWorker, LinkDies, Tick, Arrive, Proceed, Stop
  <2> QED
    BY <1>1, <2>1, Zenon DEF NoFalseAlarm
<1> QED
  BY <1>2, <1>3, Zenon
-----------------------------------------------------------------------------
\* The inductive invariant of the loop.
LEMMA WorkerInvariant == WorkerSpec => []WorkerInv
<1>1. WorkerInit => WorkerInv
  <2> SUFFICES ASSUME WorkerInit PROVE WorkerInv
    OBVIOUS
  <2>1. LoopTyped
    <3>1. 0 \in Nat /\ HeartbeatInterval \in Nat /\ <<>> \in Seq({"write", "close"})
      BY L3WorkerAssumption
    <3>2. <<>> \in Seq(Frames) /\ <<"other">> \in Seq(Frames)
      BY DEF Frames
    <3> QED
      BY <3>1, <3>2, Zenon DEF WorkerInit, LoopTyped
  <2>2. Awake
    BY Zenon DEF WorkerInit, Awake
  <2>3. Clocked /\ SilenceNoticed /\ NoFalseAlarm
    BY L3WorkerAssumption DEF WorkerInit, Clocked, SilenceNoticed, NoFalseAlarm
  <2>4. Answering
    BY L3WorkerAssumption DEF WorkerInit, Answering, HasReply, Replies
  <2> QED
    BY <2>1, <2>2, <2>3, <2>4, Zenon DEF WorkerInv
<1>2. WorkerInv /\ [WorkerNext]_workerVars => WorkerInv'
  <2> SUFFICES ASSUME WorkerInv, [WorkerNext]_workerVars PROVE WorkerInv'
    OBVIOUS
  <2>1. CASE WorkerNext
    BY <2>1, TypedStep, AwakeStep, ClockStep, AnswerStep, AlarmStep, Zenon DEF WorkerInv
  <2>2. CASE UNCHANGED workerVars
    <3>1. /\ UNCHANGED <<worker, ended, now, next_heartbeat, deadline, last_frame_at, acknowledged, heard_at,
                         continue_reading, socket_readable>>
          /\ UNCHANGED <<queue, ringing, wake, buffered, kernel, ready, answers, lost, owed>>
      BY <2>2, Zenon DEF workerVars, loopVars, livenessVars, drainVars, callerVars, streamVars, nodeVars
    <3>2. LoopTyped' /\ Awake'
      BY <3>1, Zenon DEF WorkerInv, LoopTyped, Awake
    <3>3. Clocked' /\ SilenceNoticed' /\ NoFalseAlarm'
      BY <3>1, Zenon DEF WorkerInv, Clocked, SilenceNoticed, NoFalseAlarm
    <3>4. Answering'
      BY <3>1, Zenon DEF WorkerInv, Answering, HasReply
    <3> QED
      BY <3>2, <3>3, <3>4, Zenon DEF WorkerInv
  <2> QED
    BY <2>1, <2>2, Zenon
<1> QED
  BY <1>1, <1>2, PTL DEF WorkerSpec

\* A node that has answered and then falls silent is given up in time.
THEOREM SilenceIsNoticed == WorkerSpec => []SilenceNoticed
<1>1. WorkerInv => SilenceNoticed
  BY Zenon DEF WorkerInv
<1> QED
  BY <1>1, WorkerInvariant, PTL

\* The liveness check gives up no link that is up.
THEOREM AlarmsAreTrue == WorkerSpec => []NoFalseAlarm
<1>1. WorkerInv => NoFalseAlarm
  BY Zenon DEF WorkerInv
<1> QED
  BY <1>1, WorkerInvariant, PTL

\* The thread does not fall asleep on a frame or on a command it was woken for.
THEOREM SleepsOnNothing == WorkerSpec => []NothingForgotten
<1>1. WorkerInv => NothingForgotten
  BY Zenon DEF WorkerInv, Awake, NothingForgotten
<1> QED
  BY <1>1, WorkerInvariant, PTL
=============================================================================
