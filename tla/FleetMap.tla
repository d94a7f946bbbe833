------------------------------ MODULE FleetMap ------------------------------
(***************************************************************************)
(* The live fleet map of the web client (web/static/js/views/map.js).      *)
(* Each visit of the page has its own closure: it polls the positions, a   *)
(* timer starts the next poll when one has ended, a pause button and the   *)
(* visibility of the tab stop and start it, and the router's cleanup ends  *)
(* it.  Requests may overlap, fail and be answered in any order.           *)
(*                                                                         *)
(* The backoff only lengthens the timer's delay, and time is left open.    *)
(* What the server says of a vehicle is abstracted to its being listed.    *)
(***************************************************************************)
EXTENDS Integers, FiniteSets

CONSTANTS
    Vehicles,
    Rented,         \* those the filter "rented" lets through
    Visits,         \* visits of the page, in turn; the bound on them
    Slots,          \* bound on the requests a visit has in flight
    Elsewhere,      \* the page of no visit
    MaxClicks,      \* bound on what the user does on the page
    MaxFaults,      \* bound on failing requests
    MaxChanges      \* bound on changes of the fleet

ASSUME MapAssumption ==
    /\ Rented \subseteq Vehicles
    /\ Elsewhere \notin Visits
    /\ IsFiniteSet(Slots)
    /\ MaxClicks \in Nat /\ MaxFaults \in Nat /\ MaxChanges \in Nat

VARIABLES
    fleet,          \* the vehicles GET /vehicles/positions lists
    page,           \* the visit the router shows, or Elsewhere
    hidden,         \* document.hidden
    phase,          \* per visit: how far fleetMapView is
    live, timer, listening,     \* per visit: state.live, a timer armed, listener
    poll, answer,   \* per visit and slot: a request's state, what it answers
    positions, filter,          \* per visit: state.positions, state.filter
    markers, onMap, \* per visit: vehicles with a marker, and those on the map
    clicks, faults, changes

pollVars == <<poll, answer>>
viewVars == <<positions, filter, markers, onMap>>
mapVars  == <<fleet, page, hidden, phase, live, timer, listening, pollVars, viewVars,
              clicks, faults, changes>>

Free(i)     == {s \in Slots : poll[i][s] = "none"}
InFlight(i) == {s \in Slots : poll[i][s] # "none"}

Visible(i) == IF filter[i] = "all" THEN positions[i] ELSE positions[i] \cap Rented

MapTypeOK ==
    /\ fleet \subseteq Vehicles
    /\ page \in Visits \cup {Elsewhere}
    /\ hidden \in BOOLEAN
    /\ phase \in [Visits -> {"unopened", "loading", "mounted", "failed", "left"}]
    /\ live \in [Visits -> BOOLEAN]
    /\ timer \in [Visits -> BOOLEAN]
    /\ listening \in [Visits -> BOOLEAN]
    /\ poll \in [Visits -> [Slots -> {"none", "sent", "ok", "error"}]]
    /\ answer \in [Visits -> [Slots -> SUBSET Vehicles]]
    /\ positions \in [Visits -> SUBSET Vehicles]
    /\ filter \in [Visits -> {"all", "rented"}]
    /\ markers \in [Visits -> SUBSET Vehicles]
    /\ onMap \in [Visits -> SUBSET Vehicles]

MapInit ==
    /\ fleet = Vehicles
    /\ page = Elsewhere
    /\ hidden = FALSE
    /\ phase = [i \in Visits |-> "unopened"]
    /\ live = [i \in Visits |-> TRUE]
    /\ timer = [i \in Visits |-> FALSE]
    /\ listening = [i \in Visits |-> FALSE]
    /\ poll = [i \in Visits |-> [s \in Slots |-> "none"]]
    /\ answer = [i \in Visits |-> [s \in Slots |-> {}]]
    /\ positions = [i \in Visits |-> {}]
    /\ filter = [i \in Visits |-> "all"]
    /\ markers = [i \in Visits |-> {}]
    /\ onMap = [i \in Visits |-> {}]
    /\ clicks = 0 /\ faults = 0 /\ changes = 0

Click == clicks < MaxClicks /\ clicks' = clicks + 1 /\ UNCHANGED <<faults, changes>>

NoClick == UNCHANGED <<clicks, faults, changes>>

-----------------------------------------------------------------------------
(* The router opens and leaves the page                                    *)

Open(i) ==
    /\ page = Elsewhere
    /\ phase[i] = "unopened"
    /\ page' = i
    /\ phase' = [phase EXCEPT ![i] = "loading"]
    /\ UNCHANGED <<fleet, hidden, live, timer, listening, pollVars, viewVars>>
    /\ NoClick

\* tick, or the first refresh of onMount: a request is sent.
tick(i) == \E s \in Free(i) : poll' = [poll EXCEPT ![i][s] = "sent"] /\ UNCHANGED answer

\* Mutant of Loaded: the cleanup of a page that was left while it loaded is
\* queued for the next page.
LoadedKeepsListener(i) ==
    /\ phase[i] = "loading"
    /\ phase' = [phase EXCEPT ![i] = IF page = i THEN "mounted" ELSE "left"]
    /\ listening' = [listening EXCEPT ![i] = TRUE]
    /\ IF page = i THEN tick(i) ELSE UNCHANGED pollVars
    /\ UNCHANGED <<fleet, page, hidden, live, timer, viewVars>>
    /\ NoClick

\* Leaflet and the stations are there.  A page that was left meanwhile runs
\* its cleanup at once and is never mounted.
Loaded(i) ==
    /\ phase[i] = "loading"
    /\ phase' = [phase EXCEPT ![i] = IF page = i THEN "mounted" ELSE "left"]
    /\ listening' = [listening EXCEPT ![i] = page = i]
    /\ IF page = i THEN tick(i) ELSE UNCHANGED pollVars
    /\ UNCHANGED <<fleet, page, hidden, live, timer, viewVars>>
    /\ NoClick

LoadFails(i) ==
    /\ phase[i] = "loading"
    /\ faults < MaxFaults
    /\ faults' = faults + 1
    /\ phase' = [phase EXCEPT ![i] = "failed"]
    /\ UNCHANGED <<fleet, page, hidden, live, timer, listening, pollVars, viewVars, clicks, changes>>

\* Mutant of Leave: the listener is not removed.
LeaveListening(i) ==
    /\ page = i
    /\ page' = Elsewhere
    /\ phase' = [phase EXCEPT ![i] = IF @ = "mounted" THEN "left" ELSE @]
    /\ timer' = [timer EXCEPT ![i] = FALSE]
    /\ UNCHANGED <<fleet, hidden, live, listening, pollVars, viewVars>>
    /\ NoClick

Leave(i) ==
    /\ page = i
    /\ page' = Elsewhere
    /\ phase' = [phase EXCEPT ![i] = IF @ = "mounted" THEN "left" ELSE @]
    /\ timer' = [timer EXCEPT ![i] = FALSE]
    /\ listening' = [listening EXCEPT ![i] = FALSE]
    /\ UNCHANGED <<fleet, hidden, live, pollVars, viewVars>>
    /\ NoClick

-----------------------------------------------------------------------------
(* Polling                                                                 *)

\* schedule: clears the timer and arms it again unless paused or hidden.
Schedule(i) == timer' = [timer EXCEPT ![i] = live[i] /\ ~hidden]

\* renderMarkers: adds, shows, hides and removes one marker after the other.
RenderMarkers(i, listed, visible) ==
    LET gone == markers[i] \ listed
    IN /\ markers' = [markers EXCEPT ![i] = (@ \cup listed) \ gone]
       /\ onMap' = [onMap EXCEPT ![i] = ((@ \ (listed \ visible)) \cup visible) \ gone]

\* The timer calls tick.
Fire(i) ==
    /\ timer[i]
    /\ timer' = [timer EXCEPT ![i] = FALSE]
    /\ tick(i)
    /\ UNCHANGED <<fleet, page, hidden, phase, live, listening, viewVars>>
    /\ NoClick

Serve(i, s) ==
    /\ poll[i][s] = "sent"
    /\ \/ /\ poll' = [poll EXCEPT ![i][s] = "ok"]
          /\ answer' = [answer EXCEPT ![i][s] = fleet]
          /\ UNCHANGED faults
       \/ /\ faults < MaxFaults
          /\ faults' = faults + 1
          /\ poll' = [poll EXCEPT ![i][s] = "error"]
          /\ UNCHANGED answer
    /\ UNCHANGED <<fleet, page, hidden, phase, live, timer, listening, viewVars, clicks, changes>>

\* refresh goes on; once the map is removed its markers cannot be drawn.
Refreshed(i, s) ==
    /\ poll[i][s] = "ok"
    /\ poll' = [poll EXCEPT ![i][s] = "none"]
    /\ answer' = [answer EXCEPT ![i][s] = {}]
    /\ positions' = [positions EXCEPT ![i] = answer[i][s]]
    /\ IF phase[i] = "mounted"
       THEN RenderMarkers(i, answer[i][s],
                          IF filter[i] = "all" THEN answer[i][s] ELSE answer[i][s] \cap Rented)
       ELSE UNCHANGED <<markers, onMap>>
    /\ Schedule(i)
    /\ UNCHANGED <<fleet, page, hidden, phase, live, listening, filter>>
    /\ NoClick

\* Mutant of RefreshFailed: an error ends tick before it schedules the next.
RefreshFailedEnds(i, s) ==
    /\ poll[i][s] = "error"
    /\ poll' = [poll EXCEPT ![i][s] = "none"]
    /\ UNCHANGED <<fleet, page, hidden, phase, live, timer, listening, answer, viewVars>>
    /\ NoClick

\* refresh catches the error and shows it; tick schedules the next.
RefreshFailed(i, s) ==
    /\ poll[i][s] = "error"
    /\ poll' = [poll EXCEPT ![i][s] = "none"]
    /\ Schedule(i)
    /\ UNCHANGED <<fleet, page, hidden, phase, live, listening, answer, viewVars>>
    /\ NoClick

-----------------------------------------------------------------------------
(* The user                                                                *)

\* liveBtn
ToggleLive(i) ==
    /\ page = i /\ phase[i] = "mounted"
    /\ live' = [live EXCEPT ![i] = ~@]
    /\ IF live[i]
       THEN timer' = [timer EXCEPT ![i] = FALSE] /\ UNCHANGED pollVars
       ELSE tick(i) /\ UNCHANGED timer
    /\ UNCHANGED <<fleet, page, hidden, phase, listening, viewVars>>
    /\ Click

\* onVisibility, for every visit that listens.
Hide ==
    /\ ~hidden
    /\ hidden' = TRUE
    /\ timer' = [i \in Visits |-> timer[i] /\ ~listening[i]]
    /\ UNCHANGED <<fleet, page, phase, live, listening, pollVars, viewVars>>
    /\ Click

Show ==
    /\ hidden
    /\ hidden' = FALSE
    /\ \E slot \in [Visits -> Slots] :
          /\ \A i \in Visits : listening[i] => slot[i] \in Free(i)
          /\ poll' = [i \in Visits |-> IF listening[i] THEN [poll[i] EXCEPT ![slot[i]] = "sent"]
                                       ELSE poll[i]]
    /\ UNCHANGED <<fleet, page, phase, live, timer, listening, answer, viewVars>>
    /\ Click

\* A filter chip: renderAll.
Filter(i) ==
    /\ page = i /\ phase[i] = "mounted"
    /\ filter' = [filter EXCEPT ![i] = IF @ = "all" THEN "rented" ELSE "all"]
    /\ RenderMarkers(i, positions[i],
                     IF filter[i] = "all" THEN positions[i] \cap Rented ELSE positions[i])
    /\ UNCHANGED <<fleet, page, hidden, phase, live, timer, listening, pollVars, positions>>
    /\ Click

\* Vehicles begin or cease to report.
Change ==
    /\ changes < MaxChanges
    /\ changes' = changes + 1
    /\ fleet' \in SUBSET Vehicles \ {fleet}
    /\ UNCHANGED <<page, hidden, phase, live, timer, listening, pollVars, viewVars, clicks, faults>>

Settle(i, s) == Serve(i, s) \/ Refreshed(i, s) \/ RefreshFailed(i, s)

Poll(i) == Fire(i) \/ \E s \in Slots : Settle(i, s)

MapNext ==
    \/ \E i \in Visits :
          \/ Open(i) \/ Loaded(i) \/ LoadFails(i) \/ Leave(i)
          \/ Poll(i)
          \/ ToggleLive(i) \/ Filter(i)
    \/ Hide \/ Show
    \/ Change

MapSpec == MapInit /\ [][MapNext]_mapVars

\* The browser fires timers and settles every request.
MapFairness ==
    \A i \in Visits : WF_mapVars(Fire(i)) /\ \A s \in Slots : WF_mapVars(Settle(i, s))

FairMapSpec == MapSpec /\ MapFairness

-----------------------------------------------------------------------------
(* Properties                                                              *)

Watched(i) == phase[i] = "mounted" /\ live[i] /\ ~hidden

(***************************************************************************)
(* Polling never dies: on a map that is shown, live and visible a request  *)
(* is under way or a timer will send one, whatever failed, overlapped or   *)
(* was clicked before (schedule, tick, onVisibility).                      *)
(***************************************************************************)
KeepsPolling == \A i \in Visits : Watched(i) => timer[i] \/ InFlight(i) # {}

\* As long as the map is shown no timer runs while it is paused or hidden
\* (schedule: "stop entirely while paused or hidden").
NoTimerWhilePaused ==
    \A i \in Visits : phase[i] = "mounted" /\ timer[i] => live[i] /\ ~hidden

\* The markers on the map are the vehicles of the last answer that pass the
\* filter, however markers came and went (renderMarkers).
MapShowsPositions ==
    \A i \in Visits :
        phase[i] = "mounted" => markers[i] = positions[i] /\ onMap[i] = Visible(i)

\* Who listens, and what a page has before it is mounted.
Wiring(i) ==
    /\ phase[i] = "mounted" => page = i
    /\ listening[i] <=> phase[i] = "mounted"
    /\ phase[i] \in {"unopened", "loading"} =>
          positions[i] = {} /\ markers[i] = {} /\ onMap[i] = {}
    /\ phase[i] \notin {"mounted", "left"} => ~timer[i] /\ InFlight(i) = {}

\* The inductive invariant.
MapInv ==
    /\ MapTypeOK
    /\ \A i \in Visits : Wiring(i)
    /\ KeepsPolling
    /\ NoTimerWhilePaused
    /\ MapShowsPositions

\* What a visit still has going: its requests in flight and its timer.
Activity(i) == Cardinality(InFlight(i)) + (IF timer[i] THEN 1 ELSE 0)

(***************************************************************************)
(* From the moment a page is left it only winds down: nothing it does adds *)
(* a request or a timer to what it still had going, and a page left with   *)
(* nothing going, while it loaded for instance, never asks again           *)
(* (onLeave).  It need not come to rest: onLeave clears the timer but not  *)
(* a poll in flight, whose tick calls schedule afterwards, so that a page  *)
(* left meanwhile may go on, poll after timer after poll.                  *)
(***************************************************************************)
LeftOnlyWindsDown ==
    [][\A i \in Visits : phase'[i] = "left" => Activity(i)' <= Activity(i)]_mapVars

\* A map that stays shown, live and visible catches up with the fleet, although
\* requests fail and overtake one another (tick, refresh).
MapCatchesUp == \A i \in Visits : []<>(Watched(i) => positions[i] = fleet)
=============================================================================
