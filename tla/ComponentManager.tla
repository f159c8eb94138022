-------------------------- MODULE ComponentManager --------------------------
(***************************************************************************)
(* The ComponentManager of Qappa, which makes QML objects from files,      *)
(* from source text and from components, and answers each request through  *)
(* a callback.  A request waits for its component to load, then an         *)
(* Incubator makes the object, a little in every frame, and the callback   *)
(* runs.  Callbacks may ask for more objects, so their runs are steps.     *)
(*                                                                         *)
(* The order in which Qt incubates is Qt's: the newest incubator first, to *)
(* its end, and at once when no window provides an incubation controller.  *)
(***************************************************************************)
EXTENDS Integers, Sequences

CONSTANTS
    Files,        \* the files objects are created from
    Sources,      \* the source texts objects are created from
    MaxRequests   \* bound: requests made

NullComponent == "null component"

ASSUME ComponentManagerAssumption ==
    /\ Files \cap Sources = {} /\ NullComponent \notin Files \cup Sources
    /\ MaxRequests \in Nat

VARIABLES
    engine,       \* the QML engine exists
    controller,   \* it has an incubation controller: a window exists
    components,   \* the caches: Absent, Loading, Ready or Error
    requests,     \* each request made: its component, its answer, the index its callback holds
    waiting,      \* requests connected to their component's statusChanged
    due,          \* those of them whose slot the current statusChanged has yet to call
    incubators,   \* the vector of owned Incubators, by request
    incubating,   \* those whose incubation is under way
    calling,      \* the callbacks running, innermost first
    nested        \* an incubation was begun inside another incubation's callback

vars == <<engine, controller, components, requests, waiting, due, incubators, incubating, calling,
          nested>>

\* What requests and their incubations are kept in, which the operators below take and return.
Manager == [requests |-> requests, waiting |-> waiting, incubators |-> incubators,
            incubating |-> incubating, calling |-> calling]

Becomes(m) ==
    /\ requests' = m.requests /\ waiting' = m.waiting /\ incubators' = m.incubators
    /\ incubating' = m.incubating /\ calling' = m.calling

NoIndex == -1

Answer(m, r, object) ==
    [m EXCEPT !.requests[r].answer = object, !.calling = <<r>> \o @]

\* The Incubator is stored before it is started, and its callback is told its place.
finishCreation(m, r, status, object) ==
    LET owned == [m EXCEPT !.requests[r].index = Len(m.incubators),
                           !.incubators = Append(@, r)]
    IN  CASE status \in {"Loading", "Null"} -> m
          [] status = "Error" -> Answer(m, r, "null")
          [] status = "Ready" /\ controller -> [owned EXCEPT !.incubating = @ \cup {r}]
          [] status = "Ready" /\ ~controller -> Answer(owned, r, object)

\* A definition whose name ends in _<Slip> is the one it precedes with a plausible slip in it:
\* no specification uses it.
beginCreation_Forgets(m, r, status, object) ==
    IF status = "Loading"
    THEN m
    ELSE finishCreation(m, r, status, object)

beginCreation(m, r, status, object) ==
    IF status = "Loading"
    THEN [m EXCEPT !.waiting = @ \cup {r}]
    ELSE finishCreation(m, r, status, object)

Found_WithoutData(c) ==
    IF components[c] # "Absent" THEN {components[c]}
    ELSE IF c \in Files THEN {"Loading"} ELSE {"Null"}

\* The statuses a component that is asked for may have: that of the cached one, or of a new one.
\* A file is loaded in the background, unless the engine has its type already.
Found(c) ==
    IF components[c] # "Absent" THEN {components[c]}
    ELSE {"Ready", "Error"} \cup (IF c \in Files THEN {"Loading"} ELSE {})

Idle == calling = <<>> /\ due = {}

InCallback == calling # <<>>

\* Whether a callback that will remove an incubator from the vector is running.
InIncubatorsCallback == \E k \in 1..Len(calling) : requests[calling[k]].index # NoIndex

Nests == nested' = (nested \/ (InIncubatorsCallback /\ incubating' \ incubating # {}))

Request(c) == Append(requests, [component |-> c, answer |-> "none", index |-> NoIndex])

\* createObject and createFromFile, createFromComponent, createFromSource, which wrap it: called
\* from the event loop or from a callback.
CreateObject(c) ==
    LET m == [Manager EXCEPT !.requests = Request(c)]
        r == Len(requests) + 1
    IN  /\ (Idle \/ InCallback) /\ Len(requests) < MaxRequests
        /\ IF ~engine \/ c = NullComponent
           THEN Becomes(Answer(m, r, "null")) /\ UNCHANGED components
           ELSE \E status \in Found(c), object \in {"object", "null"} :
                   /\ components' = [components EXCEPT ![c] = status]
                   /\ Becomes(beginCreation(m, r, status, object))
        /\ Nests
        /\ UNCHANGED <<engine, controller, due>>

\* A file's component has been loaded, or could not be: its statusChanged calls the slots.
ComponentLoaded(f) ==
    /\ Idle /\ engine /\ components[f] = "Loading"
    /\ \E status \in {"Ready", "Error"} : components' = [components EXCEPT ![f] = status]
    /\ due' = {r \in waiting : requests[r].component = f}
    /\ waiting' = waiting \ due'
    /\ UNCHANGED <<engine, controller, requests, incubators, incubating, calling, nested>>

\* Slots are called in the order they were connected in, which is that of the requests.
CallSlot ==
    /\ calling = <<>>
    /\ \E r \in due :
          /\ \A q \in due : r <= q
          /\ due' = due \ {r}
          /\ \E object \in {"object", "null"} :
                Becomes(finishCreation(Manager, r, components[requests[r].component], object))
    /\ UNCHANGED <<engine, controller, components, nested>>

RemoveAt(s, i) == SubSeq(s, 1, i - 1) \o SubSeq(s, i + 1, Len(s))

\* The wrapped callback erases from the vector at the place it was told.  Past the end that is
\* undefined: the standard library's vector then destroys its last element.  A destroyed
\* Incubator is taken off Qt's list.
Erase(m, r) ==
    LET index == m.requests[r].index
        place == IF index < Len(m.incubators) THEN index + 1 ELSE Len(m.incubators)
    IN  IF index = NoIndex
        THEN m
        ELSE [m EXCEPT !.incubators = RemoveAt(@, place), !.incubating = @ \ {m.incubators[place]}]

\* Incubators start in the order of the vector: the newest under way is the furthest back.
NextIncubated(k) ==
    /\ k \in 1..Len(incubators) /\ incubators[k] \in incubating
    /\ \A j \in k + 1 .. Len(incubators) : incubators[j] \notin incubating

Incubated(r) == [Manager EXCEPT !.incubating = @ \ {r}]

statusChanged_ErasesFirst(object) ==
    /\ Idle /\ engine
    /\ \E k \in 1..Len(incubators) :
          /\ NextIncubated(k)
          /\ LET r == incubators[k] IN Becomes(Answer(Erase(Incubated(r), r), r, object))
    /\ UNCHANGED <<engine, controller, components, due, nested>>

\* Incubator::statusChanged, Ready or Error.
statusChanged(object) ==
    /\ Idle /\ engine
    /\ \E k \in 1..Len(incubators) :
          /\ NextIncubated(k)
          /\ LET r == incubators[k] IN Becomes(Answer(Incubated(r), r, object))
    /\ UNCHANGED <<engine, controller, components, due, nested>>

CallbackReturns_Keeps ==
    /\ calling # <<>>
    /\ Becomes([Manager EXCEPT !.calling = Tail(@)])
    /\ UNCHANGED <<engine, controller, components, due, nested>>

CallbackReturns ==
    /\ calling # <<>>
    /\ Becomes(Erase([Manager EXCEPT !.calling = Tail(@)], Head(calling)))
    /\ UNCHANGED <<engine, controller, components, due, nested>>

WindowShown ==
    /\ engine /\ ~controller
    /\ controller' = TRUE
    /\ UNCHANGED <<engine, components, requests, waiting, due, incubators, incubating, calling, nested>>

EngineDestroyed ==
    /\ Idle /\ engine
    /\ engine' = FALSE
    /\ UNCHANGED <<controller, components, requests, waiting, due, incubators, incubating, calling, nested>>

Init ==
    /\ engine = TRUE /\ controller = FALSE /\ nested = FALSE
    /\ components = [c \in Files \cup Sources |-> "Absent"]
    /\ requests = <<>> /\ waiting = {} /\ due = {}
    /\ incubators = <<>> /\ incubating = {} /\ calling = <<>>

Next ==
    \/ \E c \in Files \cup Sources \cup {NullComponent} : CreateObject(c)
    \/ \E f \in Files : ComponentLoaded(f)
    \/ CallSlot
    \/ \E object \in {"object", "null"} : statusChanged(object)
    \/ CallbackReturns
    \/ WindowShown
    \/ EngineDestroyed

Spec == Init /\ [][Next]_vars

\* Files finish loading, every frame incubates, slots and callbacks run to their ends.
Fairness ==
    /\ \A f \in Files : WF_vars(ComponentLoaded(f))
    /\ WF_vars(CallSlot)
    /\ WF_vars(\E object \in {"object", "null"} : statusChanged(object))
    /\ WF_vars(CallbackReturns)

FairSpec == Spec /\ Fairness

(***************************************************************************)
(* Properties                                                              *)
(***************************************************************************)
Made == 1..Len(requests)

Elements(s) == {s[k] : k \in 1..Len(s)}

\* Every variable has its type; no component that is asked for is null, a case the code takes
\* for odd and leaves without an answer.
TypeOK ==
    /\ engine \in BOOLEAN /\ controller \in BOOLEAN /\ nested \in BOOLEAN
    /\ components \in [Files \cup Sources -> {"Absent", "Loading", "Ready", "Error"}]
    /\ requests \in Seq([component : Files \cup Sources \cup {NullComponent},
                         answer    : {"none", "object", "null"},
                         index     : Nat \cup {NoIndex}])
    /\ waiting \subseteq Made /\ due \subseteq Made /\ incubating \subseteq Made
    /\ incubators \in Seq(Made) /\ calling \in Seq(Made)

\* A request that has no answer is somewhere: waiting for its component, or in the hands of an
\* incubation that an Incubator in the vector stands for; and no other Incubator is kept.  It
\* takes stale indices to break this, and those come from callbacks that begin incubations.
NothingIsLostOrLeaked ==
    ~nested =>
        /\ \A r \in Made : requests[r].answer = "none" =>
              r \in waiting \cup due \cup incubating
        /\ Elements(incubators) =
              incubating \cup {r \in Elements(calling) : requests[r].index # NoIndex}

\* Whatever has become of the indices: the Incubator whose callback runs is still there when it
\* returns, and so is every one Qt is at work on.
IncubatorsInUseExist ==
    incubating \cup {r \in Elements(calling) : requests[r].index # NoIndex}
        \subseteq Elements(incubators)

\* Every request is answered, also if its component cannot be loaded or its object not be made.
RequestsAreAnswered ==
    \A r \in 1..MaxRequests :
        r \in Made ~> (r \in Made /\ requests[r].answer # "none") \/ nested \/ ~engine
=============================================================================
