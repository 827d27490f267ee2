-------------------------------- MODULE CAbi --------------------------------
(***************************************************************************)
(* The C interface (ffi.rs): what a call allocates and hands to its        *)
(* caller, what the matching *_free releases, and the events of a proxy    *)
(* service, which reach a C caller through take_event or its callback.     *)
(* The error a call stores is its thread's own (LAST_ERROR is thread       *)
(* local) and is left out, as are the contents of what is returned.        *)
(*                                                                         *)
(* A pointer of a value is named by its path in the structure: the field,  *)
(* or the list, the index and the field.  copy_* says which paths a value  *)
(* has and free_* which ones are visited; the two are written separately   *)
(* in the code, and here.                                                  *)
(***************************************************************************)
EXTENDS Naturals, Sequences, ProxyEvents

CONSTANTS
    Threads,     \* threads of the C program
    Sizes,       \* sizes of the lists and optional fields of a value
    NulEvents,   \* events whose message holds a NUL
    MaxCalls     \* bound: calls of all threads

ASSUME CAbiAssumption ==
    /\ NulEvents \subseteq Recorders /\ MaxCalls \in Nat
    /\ Sizes \subseteq
          [bytes : Nat, strings : Nat, methods : Nat, cookies : Nat, ips : Nat, domains : Nat,
           dns : Nat, groups : Nat, addresses : Nat, excluded : Nat,
           present : SUBSET {"dns_server", "last_event_message", "last_error"}]

VARIABLES
    calls_made,  \* calls of all threads
    value,       \* the structure the thread gets its values in
    heap,        \* <<thread, path>> of everything allocated for a value
    invalid      \* history: something not allocated was released

cVars == <<calls_made, value, heap, invalid>>
allVars == <<eventVars, cVars>>
-----------------------------------------------------------------------------
(* What is allocated: set_string_out, copy_blob and the copy_* functions *)

Fields(p, names) == {Append(p, n) : n \in names}
Items(p, n) == {Append(p, i) : i \in 1..n}

\* leak_boxed_slice: an empty slice has no memory.
Slice(p, n) == IF n > 0 THEN {p} ELSE {}

copy_blob(p, n) == Slice(p, n)

set_string_list_out(p, n) == Slice(p, n) \cup Items(p, n)

copy_cookie_record(p) == Fields(p, {"host", "scheme", "name", "value"})

copy_session_material(p, s) ==
    LET c == Append(p, "cookies") IN
    Slice(c, s.cookies) \cup (UNION {copy_cookie_record(q) : q \in Items(c, s.cookies)})
      \cup Fields(p, {"username", "sid", "device_id", "connection_id", "sign_key_hex"})

challenge_to_ffi(kind, s) ==
    CASE kind = "captcha"  -> copy_blob(<<"image">>, s.bytes)
      [] kind = "sms"      -> {<<"auth_id">>}
      [] kind = "callback" -> {<<"auth_url">>}
      [] kind = "done"     -> copy_session_material(<<"session">>, s)

copy_ip_resource(p) == Fields(p, {"ip_min", "ip_max", "protocol", "app_id", "node_group_id"})
copy_domain_resource(p) == Fields(p, {"domain", "protocol", "app_id", "node_group_id"})
copy_dns_resource(p) == Fields(p, {"domain", "ip"})

copy_node_groups(p, s) ==
    Slice(p, s.groups)
      \cup (UNION {set_string_list_out(Append(q, "addresses"), s.addresses) : q \in Items(p, s.groups)})
      \cup (UNION {Fields(q, {"group_id"}) : q \in Items(p, s.groups)})

copy_resource_snapshot(s) ==
    (UNION {copy_ip_resource(q) : q \in Items(<<"ip_resources">>, s.ips)})
      \cup (UNION {copy_domain_resource(q) : q \in Items(<<"domain_resources">>, s.domains)})
      \cup (UNION {copy_dns_resource(q) : q \in Items(<<"dns_resources">>, s.dns)})
      \cup copy_blob(<<"resource_bytes">>, s.bytes)
      \cup {<<n>> : n \in {"dns_server"} \cap s.present} \cup {<<"major_node_group">>}
      \cup Slice(<<"ip_resources">>, s.ips) \cup Slice(<<"domain_resources">>, s.domains)
      \cup Slice(<<"dns_resources">>, s.dns)
      \cup copy_node_groups(<<"node_groups">>, s)
      \cup set_string_list_out(<<"excluded_ips">>, s.excluded)

copy_methods(s) ==
    Slice(<<"items">>, s.methods)
      \cup (UNION {Fields(q, {"login_domain", "auth_type", "auth_name", "login_url"}) :
                     q \in Items(<<"items">>, s.methods)})

copy_stats(s) == {<<n>> : n \in {"last_event_message", "last_error"} \cap s.present}

Challenges == {"captcha", "sms", "callback", "done"}

Copied(kind, s) ==
    CASE kind \in {"handle", "string"} -> {<<kind>>}
      [] kind = "blob"      -> copy_blob(<<"data">>, s.bytes)
      [] kind = "strings"   -> set_string_list_out(<<"items">>, s.strings)
      [] kind = "methods"   -> copy_methods(s)
      [] kind = "session"   -> copy_session_material(<<>>, s)
      [] kind \in Challenges -> challenge_to_ffi(kind, s)
      [] kind = "snapshot"  -> copy_resource_snapshot(s)
      [] kind = "endpoint"  -> {<<"host">>}
      [] kind = "stats"     -> copy_stats(s)
-----------------------------------------------------------------------------
(* What is visited: the free_* functions.  Each passes over null pointers. *)

free_string_list(p, n) == IF n > 0 THEN Items(p, n) \cup {p} ELSE {}

free_cookie_record(p) == Fields(p, {"host", "scheme", "name", "value"})

free_cookie_list(p, n) ==
    IF n > 0 THEN {p} \cup (UNION {free_cookie_record(q) : q \in Items(p, n)}) ELSE {}

\* Mutant: the list of cookies is left to the caller.
free_session_without_cookies(p, s) ==
    Fields(p, {"username", "sid", "device_id", "connection_id", "sign_key_hex"})

free_session_material(p, s) ==
    Fields(p, {"username", "sid", "device_id", "connection_id", "sign_key_hex"})
      \cup free_cookie_list(Append(p, "cookies"), s.cookies)

free_challenge(s) ==
    {<<"auth_id">>, <<"auth_url">>} \cup Slice(<<"image">>, s.bytes)
      \cup free_session_material(<<"session">>, s)

free_ip_resource_list(p, n) ==
    IF n > 0
    THEN {p} \cup (UNION {Fields(q, {"ip_min", "ip_max", "protocol", "app_id", "node_group_id"}) :
                            q \in Items(p, n)})
    ELSE {}

free_domain_resource_list(p, n) ==
    IF n > 0
    THEN {p} \cup (UNION {Fields(q, {"domain", "protocol", "app_id", "node_group_id"}) : q \in Items(p, n)})
    ELSE {}

free_dns_resource_list(p, n) ==
    IF n > 0 THEN {p} \cup (UNION {Fields(q, {"domain", "ip"}) : q \in Items(p, n)}) ELSE {}

free_node_group_list(p, s) ==
    IF s.groups > 0
    THEN {p} \cup (UNION {{Append(q, "group_id")} \cup free_string_list(Append(q, "addresses"), s.addresses) :
                            q \in Items(p, s.groups)})
    ELSE {}

free_resource_snapshot(s) ==
    Slice(<<"resource_bytes">>, s.bytes) \cup {<<"dns_server">>, <<"major_node_group">>}
      \cup free_ip_resource_list(<<"ip_resources">>, s.ips)
      \cup free_domain_resource_list(<<"domain_resources">>, s.domains)
      \cup free_dns_resource_list(<<"dns_resources">>, s.dns)
      \cup free_node_group_list(<<"node_groups">>, s)
      \cup free_string_list(<<"excluded_ips">>, s.excluded)

atr_auth_method_list_free(s) ==
    IF s.methods > 0
    THEN {<<"items">>} \cup (UNION {Fields(q, {"login_domain", "auth_type", "auth_name", "login_url"}) :
                                      q \in Items(<<"items">>, s.methods)})
    ELSE {}

Visited(kind, s) ==
    CASE kind \in {"handle", "string"} -> {<<kind>>}
      [] kind = "blob"      -> Slice(<<"data">>, s.bytes)
      [] kind = "strings"   -> free_string_list(<<"items">>, s.strings)
      [] kind = "methods"   -> atr_auth_method_list_free(s)
      [] kind = "session"   -> free_session_material(<<>>, s)
      [] kind \in Challenges -> free_challenge(s)
      [] kind = "snapshot"  -> free_resource_snapshot(s)
      [] kind = "endpoint"  -> {<<"host">>}
      [] kind = "stats"     -> {<<"last_error">>, <<"last_event_message">>}

\* The fields a *_free leaves null; with a list go the pointers in it.
Nulled(kind) ==
    CASE kind \in {"handle", "string"} -> {}
      [] kind = "blob"       -> {"data"}
      [] kind \in {"strings", "methods"} -> {"items"}
      [] kind = "session"    -> {"username", "sid", "device_id", "connection_id", "sign_key_hex", "cookies"}
      [] kind \in Challenges -> {"image", "auth_id", "auth_url", "session"}
      [] kind = "snapshot"   -> {"resource_bytes", "dns_server", "major_node_group", "ip_resources",
                                 "domain_resources", "dns_resources", "node_groups", "excluded_ips"}
      [] kind = "endpoint"   -> {"host"}
      [] kind = "stats"      -> {"last_error", "last_event_message"}
-----------------------------------------------------------------------------
(* The exported functions that hand something out.  Each of them fails     *)
(* when a pointer it needs is null, a string it is given is no UTF-8, the  *)
(* operation behind it fails or a string to return holds a NUL, and writes *)
(* to its out parameter only after the last of these.  The others return   *)
(* numbers and allocate nothing.                                           *)

\* What they hand out:
\*   handle    the _new functions, atr_client_open_* and _start_proxy_service
\*   string    the DNS server, the major node group, a resolved login URL
\*   blob      the resource bytes of a client or of a session
\*   strings   the virtual addresses of an L3 tunnel
\*   session   atr_auth_session_resume_session and _export_session
\*   a challenge   the calls of a session that log in or go on with a login
\* and the login methods, the snapshot, the endpoint and the statistics.
Kinds ==
    {"handle", "string", "blob", "strings", "methods", "session", "snapshot", "endpoint", "stats"}
       \cup Challenges
-----------------------------------------------------------------------------
Empty ==
    [bytes |-> 0, strings |-> 0, methods |-> 0, cookies |-> 0, ips |-> 0, domains |-> 0, dns |-> 0,
     groups |-> 0, addresses |-> 0, excluded |-> 0, present |-> {}]
Unset == [kind |-> "none", size |-> Empty, ptr |-> {}]

SizesOf(kind) ==
    IF kind \in {"handle", "string", "endpoint", "sms", "callback"} THEN {Empty} ELSE Sizes

CInit ==
    /\ EventsInit
    /\ calls_made = 0
    /\ value = [t \in Threads |-> Unset]
    /\ heap = {} /\ invalid = FALSE

\* A caller asks for a value when it holds none.
Begin(t) ==
    /\ calls_made < MaxCalls /\ value[t].ptr = {}
    /\ calls_made' = calls_made + 1

Hand(t, kind, s) ==
    /\ value' = [value EXCEPT ![t] = [kind |-> kind, size |-> s, ptr |-> Copied(kind, s)]]
    /\ heap' = heap \cup ({t} \X Copied(kind, s))

\* A pointer is null, a conversion or the operation fails, or a string to return
\* holds a NUL; what was made for the value by then is handed to nobody, and is
\* not counted here.
Fail(t) == Begin(t) /\ UNCHANGED <<eventVars, value, heap, invalid>>

Succeed(t, kind) ==
    /\ Begin(t)
    /\ \E s \in SizesOf(kind) : Hand(t, kind, s)
    /\ UNCHANGED <<eventVars, invalid>>

\* The matching *_free, also of a structure released before.  A handle or a
\* string is passed by value: the caller forgets it.
Free(t) ==
    LET v == value[t]
        released == Visited(v.kind, v.size) \cap v.ptr
    IN  /\ v.kind # "none"
        /\ heap' = heap \ ({t} \X released)
        /\ invalid' = (invalid \/ ~(({t} \X released) \subseteq heap))
        /\ value' = [value EXCEPT ![t] =
                        IF v.kind \in {"handle", "string"} THEN Unset
                        ELSE [v EXCEPT !.ptr = {p \in @ : p[1] \notin Nulled(v.kind)}, !.size = Empty]]
        /\ UNCHANGED <<eventVars, calls_made>>
-----------------------------------------------------------------------------
(* atr_proxy_service_take_event and atr_proxy_service_set_event_callback *)

\* The event is taken before its message is converted: one that cannot be is
\* reported as an error, and gone.  With no event, there is no message to free
\* and nothing changes.
atr_proxy_service_take_event(t) ==
    /\ Begin(t) /\ TakeEvent
    /\ IF last_event \in NulEvents THEN UNCHANGED <<value, heap>> ELSE Hand(t, "string", Empty)
    /\ UNCHANGED invalid

Events ==
    /\ \/ \E r \in Recorders : RecordError(r) \/ StoreEvent(r) \/ Notify(r) \/ CallReturns(r)
       \/ SetBegin \/ Set
    /\ UNCHANGED cVars

CNext ==
    \/ \E t \in Threads :
          \/ \E kind \in Kinds : Succeed(t, kind)
          \/ Fail(t) \/ Free(t) \/ atr_proxy_service_take_event(t)
    \/ Events

CSpec == CInit /\ [][CNext]_allVars
-----------------------------------------------------------------------------
(* Properties *)

Reachable == UNION {{t} \X value[t].ptr : t \in Threads}

\* A caller's structure points to allocated memory and nothing else, and what
\* is allocated for it is reachable from it: a *_free releases everything that
\* the call made, once, also when it is called twice.
HeapIsReachable == ~invalid /\ heap = Reachable
=============================================================================
