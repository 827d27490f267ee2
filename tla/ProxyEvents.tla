---------------------------- MODULE ProxyEvents ----------------------------
(***************************************************************************)
(* How ProxyService (proxy_service.rs) reports what went wrong: any        *)
(* connection thread records an error, the slot last_event keeps one event *)
(* until take_event takes it, and a listener, which a caller may replace   *)
(* at any time, is called under the mutex of its slot.                     *)
(***************************************************************************)
CONSTANTS
    Recorders,   \* threads in record_proxy_error; each one's event is itself
    Listeners,   \* listeners set_event_listener may register, each once
    None

ASSUME ProxyEventsAssumption == None \notin Recorders \cup Listeners

VARIABLES
    last_error, last_event,  \* the two slots
    slot, holder,            \* EventListenerSlot and the holder of its mutex
    rec,                     \* the recorders
    setter, next,            \* set_event_listener and what it registers
    retired,                 \* history: listeners a set() has replaced
    due,                     \* history: the listener owed a call for an event
    calls                    \* history: <<event, listener>> of each call

slotVars == <<slot, holder, setter, next, retired>>
eventVars == <<last_error, last_event, slotVars, rec, due, calls>>

EventsInit ==
    /\ last_error = None /\ last_event = None
    /\ slot = None /\ holder = None
    /\ rec = [r \in Recorders |-> "idle"]
    /\ setter = "idle" /\ next = None
    /\ retired = {} /\ calls = {}
    /\ due = [r \in Recorders |-> None]
-----------------------------------------------------------------------------
(* record_proxy_error *)

RecordError(r) ==
    /\ rec[r] = "idle" /\ rec' = [rec EXCEPT ![r] = "store"]
    /\ last_error' = r
    /\ UNCHANGED <<last_event, slotVars, due, calls>>

StoreEvent(r) ==
    /\ rec[r] = "store" /\ rec' = [rec EXCEPT ![r] = "notify"]
    /\ last_event' = r
    /\ due' = [due EXCEPT ![r] = slot]
    /\ UNCHANGED <<last_error, slotVars, calls>>

\* Mutant: try_lock in place of lock, so that an event is skipped while the
\* listener is busy with another one.
NotifyTries(r) ==
    /\ rec[r] = "notify"
    /\ \/ /\ holder = None /\ slot # None /\ rec' = [rec EXCEPT ![r] = "calling"]
          /\ holder' = r /\ calls' = calls \cup {<<r, slot>>}
       \/ /\ holder # None \/ slot = None
          /\ rec' = [rec EXCEPT ![r] = "done"] /\ UNCHANGED <<holder, calls>>
    /\ UNCHANGED <<last_error, last_event, slot, setter, next, retired, due>>

\* The listener runs while the mutex is held.
Notify(r) ==
    /\ rec[r] = "notify" /\ holder = None
    /\ \/ /\ slot # None /\ rec' = [rec EXCEPT ![r] = "calling"]
          /\ holder' = r /\ calls' = calls \cup {<<r, slot>>}
       \/ /\ slot = None
          /\ rec' = [rec EXCEPT ![r] = "done"] /\ UNCHANGED <<holder, calls>>
    /\ UNCHANGED <<last_error, last_event, slot, setter, next, retired, due>>

CallReturns(r) ==
    /\ rec[r] = "calling" /\ rec' = [rec EXCEPT ![r] = "done"]
    /\ holder' = None
    /\ UNCHANGED <<last_error, last_event, slot, setter, next, retired, due, calls>>
-----------------------------------------------------------------------------
(* set_event_listener and take_event *)

SetBegin ==
    /\ setter = "idle"
    /\ \E l \in {None} \cup (Listeners \ (retired \cup {slot})) :
           next' = l /\ (l # None \/ slot # None)
    /\ setter' = "lock"
    /\ UNCHANGED <<last_error, last_event, slot, holder, retired, rec, due, calls>>

\* Mutant: the slot is replaced without waiting for a call in progress.
SetUnlocked ==
    /\ setter = "lock" /\ setter' = "idle"
    /\ slot' = next /\ next' = None /\ retired' = retired \cup ({slot} \ {None})
    /\ due' = [r \in Recorders |-> None]
    /\ UNCHANGED <<last_error, last_event, holder, rec, calls>>

\* An event whose recorder meets a new listener, or none, is owed to nobody.
Set ==
    /\ setter = "lock" /\ holder = None /\ setter' = "idle"
    /\ slot' = next /\ next' = None /\ retired' = retired \cup ({slot} \ {None})
    /\ due' = [r \in Recorders |-> None]
    /\ UNCHANGED <<last_error, last_event, holder, rec, calls>>

TakeEvent ==
    /\ last_event # None /\ last_event' = None
    /\ UNCHANGED <<last_error, slotVars, rec, due, calls>>
-----------------------------------------------------------------------------
(* Properties *)

\* When set_event_listener has returned, the listener it replaced is not
\* running, and it is never called again: its user_data can be released.
RetiredIsQuiet ==
    \A r \in Recorders :
        rec[r] = "calling" => \A l \in retired : <<r, l>> \notin calls

\* A listener that stays registered is called for every event, also when
\* several threads record at the same time.
EveryEventHeard ==
    \A r \in Recorders :
        rec[r] = "done" /\ due[r] # None => <<r, due[r]>> \in calls
=============================================================================
