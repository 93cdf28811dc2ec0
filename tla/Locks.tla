------------------------------- MODULE Locks -------------------------------
(***************************************************************************)
(* The two primitives of levent/lock.lua that wake everyone who waits,     *)
(* side by side: a program whose tasks share an Event, or an AsyncResult   *)
(* whose one result takes the place of the flag.                           *)
(***************************************************************************)
EXTENDS Event

VARIABLE kind    \* which of the two the tasks share

Async == INSTANCE AsyncResult WITH result <- flag

locksVars == <<vars, kind>>

LocksInit ==
    \/ kind = "Event" /\ Init
    \/ kind = "AsyncResult" /\ Async!Init /\ todo = {} /\ notifier = FALSE /\ sets = 0

EventOnly == <<todo, notifier, sets>>

LocksNext ==
    /\ UNCHANGED kind
    /\ \/ kind = "Event" /\ Next
       \/ kind = "AsyncResult" /\ Async!Next /\ UNCHANGED EventOnly

(* The fairness of the two modules.                                        *)
HubRuns ==
    \/ kind = "Event" /\ HubStep
    \/ kind = "AsyncResult" /\ Async!HubStep /\ UNCHANGED EventOnly

TaskYields(c) ==
    \/ kind = "Event" /\ Yields(c)
    \/ kind = "AsyncResult" /\ Async!Yields(c) /\ UNCHANGED EventOnly

LocksFairness ==
    /\ WF_locksVars(HubRuns /\ UNCHANGED kind)
    /\ \A c \in Co : WF_locksVars(TaskYields(c) /\ UNCHANGED kind)

LocksSpec == LocksInit /\ [][LocksNext]_locksVars /\ LocksFairness

-----------------------------------------------------------------------------
(* Event: while the flag is set everyone that waits is on the list of a    *)
(* _notify that comes, unless a wait was interrupted.                      *)
EventCoversWaiters == kind = "Event" => SetCoversWaiters

(* AsyncResult: nobody is parked in get after the one _notify has ended.   *)
AsyncLeavesNobody == kind = "AsyncResult" => Async!NoGetterLeftBehind

(* Everyone that waits when the Event is set, or when the AsyncResult gets *)
(* its result, returns from its wait; for the Event, as long as nobody's   *)
(* wait is interrupted by a kill or a timeout.                             *)
WaitersWoken ==
    \A w \in Waiter :
       (w \in links /\ flag) ~> (w \notin links \/ (kind = "Event" /\ ~Uninterrupted))
=============================================================================
