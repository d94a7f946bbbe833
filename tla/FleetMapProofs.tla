--------------------------- MODULE FleetMapProofs ---------------------------
(***************************************************************************)
(* Proofs about the polling of the fleet map, for any number of visits,    *)
(* vehicles, overlapping requests and clicks.                              *)
(***************************************************************************)
EXTENDS FleetMap, FiniteSetTheorems, TLAPS

\* A request that is sent is in flight, and nothing else of the visit's polls
\* changes type.
LEMMA TickSends ==
    ASSUME MapTypeOK, NEW i \in Visits, tick(i)
    PROVE  /\ poll' \in [Visits -> [Slots -> {"none", "sent", "ok", "error"}]]
           /\ InFlight(i)' # {}
           /\ \A j \in Visits \ {i} : InFlight(j)' = InFlight(j)
           /\ answer' = answer
BY DEF tick, Free, MapTypeOK, InFlight

LEMMA MapInvInit == MapInit => MapInv
<1> SUFFICES ASSUME MapInit PROVE MapInv
  OBVIOUS
<1>1. MapTypeOK  BY MapAssumption DEF MapInit, MapTypeOK
<1>2. \A i \in Visits : Wiring(i)  BY MapAssumption DEF MapInit, Wiring, InFlight
<1>3. \A i \in Visits : phase[i] # "mounted"  BY DEF MapInit
<1> QED  BY <1>1, <1>2, <1>3 DEF MapInv, KeepsPolling, NoTimerWhilePaused, MapShowsPositions, Watched

LEMMA MapInvNext ==
    ASSUME MapInv, [MapNext]_mapVars
    PROVE  MapInv'
<1> USE MapAssumption DEF pollVars, viewVars, NoClick, Click
<1> DEFINE Inv == MapTypeOK /\ \A i \in Visits : Wiring(i)
<1>0. Inv /\ KeepsPolling /\ NoTimerWhilePaused /\ MapShowsPositions  BY DEF MapInv
<1>1. ASSUME NEW i \in Visits, Open(i)  PROVE MapInv'
  BY <1>0, <1>1 DEF Open, MapInv, MapTypeOK, Wiring, KeepsPolling, NoTimerWhilePaused,
      MapShowsPositions, Watched, Visible, InFlight
<1>2. ASSUME NEW i \in Visits, Loaded(i)  PROVE MapInv'
  <2>1. CASE page = i
    <3>1. tick(i)  BY <1>2, <2>1 DEF Loaded
    <3> DEFINE Sent == /\ poll' \in [Visits -> [Slots -> {"none", "sent", "ok", "error"}]]
                       /\ InFlight(i)' # {}
                       /\ \A j \in Visits \ {i} : InFlight(j)' = InFlight(j)
                       /\ answer' = answer
    <3>a. Sent  BY <1>0, <3>1, TickSends
    <3>2. MapTypeOK'  BY <1>0, <1>2, <3>a DEF Loaded, MapTypeOK
    <3>3. \A j \in Visits : Wiring(j)'
      BY <1>0, <1>2, <2>1, <3>a DEF Loaded, MapTypeOK, Wiring
    <3>4. KeepsPolling'
      BY <1>0, <1>2, <3>a DEF Loaded, MapTypeOK, KeepsPolling, Watched
    <3>5. NoTimerWhilePaused'
      BY <1>0, <1>2 DEF Loaded, MapTypeOK, NoTimerWhilePaused, Wiring
    <3>6. MapShowsPositions'
      BY <1>0, <1>2 DEF Loaded, MapTypeOK, MapShowsPositions, Visible, Wiring
    <3> QED  BY <3>2, <3>3, <3>4, <3>5, <3>6 DEF MapInv
  <2>2. CASE page # i
    BY <1>0, <1>2, <2>2 DEF Loaded, MapInv, MapTypeOK, Wiring, KeepsPolling, NoTimerWhilePaused,
        MapShowsPositions, Watched, Visible, InFlight
  <2> QED  BY <2>1, <2>2
<1>3. ASSUME NEW i \in Visits, LoadFails(i)  PROVE MapInv'
  BY <1>0, <1>3 DEF LoadFails, MapInv, MapTypeOK, Wiring, KeepsPolling, NoTimerWhilePaused,
      MapShowsPositions, Watched, Visible, InFlight
<1>4. ASSUME NEW i \in Visits, Leave(i)  PROVE MapInv'
  BY <1>0, <1>4 DEF Leave, MapInv, MapTypeOK, Wiring, KeepsPolling, NoTimerWhilePaused,
      MapShowsPositions, Watched, Visible, InFlight
<1>5. ASSUME NEW i \in Visits, Fire(i)  PROVE MapInv'
  <2>1. tick(i)  BY <1>5 DEF Fire
  <2> DEFINE Sent == /\ poll' \in [Visits -> [Slots -> {"none", "sent", "ok", "error"}]]
                     /\ InFlight(i)' # {}
                     /\ \A j \in Visits \ {i} : InFlight(j)' = InFlight(j)
                     /\ answer' = answer
  <2>a. Sent  BY <1>0, <2>1, TickSends
  <2>2. MapTypeOK'  BY <1>0, <1>5, <2>a DEF Fire, MapTypeOK
  <2>3. \A j \in Visits : Wiring(j)'
    BY <1>0, <1>5, <2>a DEF Fire, MapTypeOK, Wiring
  <2>4. KeepsPolling'
    BY <1>0, <1>5, <2>a DEF Fire, MapTypeOK, KeepsPolling, Watched
  <2>5. NoTimerWhilePaused'
    BY <1>0, <1>5 DEF Fire, MapTypeOK, NoTimerWhilePaused
  <2>6. MapShowsPositions'
    BY <1>0, <1>5 DEF Fire, MapShowsPositions, Visible
  <2> QED  BY <2>2, <2>3, <2>4, <2>5, <2>6 DEF MapInv
<1>6. ASSUME NEW i \in Visits, NEW s \in Slots, Serve(i, s)  PROVE MapInv'
  <2>1. /\ poll[i][s] = "sent" /\ poll' \in [Visits -> [Slots -> {"none", "sent", "ok", "error"}]]
        /\ answer' \in [Visits -> [Slots -> SUBSET Vehicles]]
        /\ \A j \in Visits : InFlight(j)' = InFlight(j)
    <3>1. CASE poll' = [poll EXCEPT ![i][s] = "ok"] /\ answer' = [answer EXCEPT ![i][s] = fleet]
      BY <1>0, <1>6, <3>1 DEF Serve, MapTypeOK, InFlight
    <3>2. CASE poll' = [poll EXCEPT ![i][s] = "error"] /\ UNCHANGED answer
      BY <1>0, <1>6, <3>2 DEF Serve, MapTypeOK, InFlight
    <3> QED  BY <1>6, <3>1, <3>2 DEF Serve
  <2>2. UNCHANGED <<fleet, page, hidden, phase, live, timer, listening, positions, filter, markers, onMap>>
    BY <1>6 DEF Serve
  <2>3. MapTypeOK'  BY <1>0, <2>1, <2>2 DEF MapTypeOK
  <2>4. \A j \in Visits : Wiring(j)'  BY <1>0, <2>1, <2>2 DEF Wiring
  <2>5. KeepsPolling'  BY <1>0, <2>1, <2>2 DEF KeepsPolling, Watched
  <2> QED  BY <1>0, <2>2, <2>3, <2>4, <2>5 DEF MapInv, NoTimerWhilePaused, MapShowsPositions, Visible
<1>7. ASSUME NEW i \in Visits, NEW s \in Slots, Refreshed(i, s)  PROVE MapInv'
  <2>1. /\ poll[i][s] = "ok" /\ answer[i][s] \in SUBSET Vehicles
        /\ phase[i] \in {"mounted", "left"}
    BY <1>0, <1>7 DEF Refreshed, MapTypeOK, Wiring, InFlight
  <2>2. /\ poll' \in [Visits -> [Slots -> {"none", "sent", "ok", "error"}]]
        /\ answer' \in [Visits -> [Slots -> SUBSET Vehicles]]
        /\ \A j \in Visits \ {i} : InFlight(j)' = InFlight(j)
    BY <1>0, <1>7 DEF Refreshed, MapTypeOK, InFlight
  <2>3. /\ timer' = [timer EXCEPT ![i] = live[i] /\ ~hidden]
        /\ positions' = [positions EXCEPT ![i] = answer[i][s]]
        /\ UNCHANGED <<fleet, page, hidden, phase, live, listening, filter>>
    BY <1>7 DEF Refreshed, Schedule
  <2>4. /\ markers' \in [Visits -> SUBSET Vehicles]
        /\ onMap' \in [Visits -> SUBSET Vehicles]
        /\ \A j \in Visits \ {i} : markers'[j] = markers[j] /\ onMap'[j] = onMap[j]
        /\ phase[i] = "mounted" => markers'[i] = answer[i][s] /\ onMap'[i] = Visible(i)'
    <3>1. CASE phase[i] = "mounted"
      <4>1. positions[i] = markers[i] /\ onMap[i] \subseteq markers[i] /\ Rented \subseteq Vehicles
        BY <1>0, <3>1 DEF MapShowsPositions, Visible
      <4> DEFINE seen == IF filter[i] = "all" THEN answer[i][s] ELSE answer[i][s] \cap Rented
      <4>2. RenderMarkers(i, answer[i][s], seen)  BY <1>7, <3>1 DEF Refreshed
      <4>3. Visible(i)' = seen /\ seen \subseteq answer[i][s]  BY <1>0, <2>3 DEF Visible, MapTypeOK
      <4> HIDE DEF seen
      <4> QED  BY <1>0, <2>1, <4>1, <4>2, <4>3 DEF RenderMarkers, MapTypeOK
    <3>2. CASE phase[i] # "mounted"
      BY <1>0, <1>7, <3>2 DEF Refreshed, MapTypeOK
    <3> QED  BY <3>1, <3>2
  <2>5. MapTypeOK'  BY <1>0, <2>1, <2>2, <2>3, <2>4 DEF MapTypeOK
  <2>6. \A j \in Visits : Wiring(j)'
    BY <1>0, <2>1, <2>2, <2>3, <2>4 DEF Wiring, MapTypeOK
  <2>7. KeepsPolling'
    BY <1>0, <2>2, <2>3 DEF KeepsPolling, Watched, MapTypeOK
  <2>8. NoTimerWhilePaused'
    BY <1>0, <2>3 DEF NoTimerWhilePaused, MapTypeOK
  <2>9. MapShowsPositions'
    BY <1>0, <2>3, <2>4 DEF MapShowsPositions, Visible, MapTypeOK
  <2> QED  BY <2>5, <2>6, <2>7, <2>8, <2>9 DEF MapInv
<1>8. ASSUME NEW i \in Visits, NEW s \in Slots, RefreshFailed(i, s)  PROVE MapInv'
  <2>1. phase[i] \in {"mounted", "left"}
    BY <1>0, <1>8 DEF RefreshFailed, MapTypeOK, Wiring, InFlight
  <2>2. /\ poll' \in [Visits -> [Slots -> {"none", "sent", "ok", "error"}]]
        /\ \A j \in Visits \ {i} : InFlight(j)' = InFlight(j)
    BY <1>0, <1>8 DEF RefreshFailed, MapTypeOK, InFlight
  <2>3. /\ timer' = [timer EXCEPT ![i] = live[i] /\ ~hidden]
        /\ UNCHANGED <<fleet, page, hidden, phase, live, listening, answer, positions, filter,
                       markers, onMap>>
    BY <1>8 DEF RefreshFailed, Schedule
  <2>4. MapTypeOK'  BY <1>0, <2>2, <2>3 DEF MapTypeOK
  <2>5. \A j \in Visits : Wiring(j)'  BY <1>0, <2>1, <2>2, <2>3 DEF Wiring, MapTypeOK
  <2>6. KeepsPolling'  BY <1>0, <2>2, <2>3 DEF KeepsPolling, Watched, MapTypeOK
  <2>7. NoTimerWhilePaused'  BY <1>0, <2>3 DEF NoTimerWhilePaused, MapTypeOK
  <2> QED  BY <1>0, <2>3, <2>4, <2>5, <2>6, <2>7 DEF MapInv, MapShowsPositions, Visible
<1>9. ASSUME NEW i \in Visits, ToggleLive(i)  PROVE MapInv'
  <2>1. CASE live[i]
    <3>1. /\ timer' = [timer EXCEPT ![i] = FALSE] /\ live' = [live EXCEPT ![i] = ~@]
          /\ UNCHANGED <<fleet, page, hidden, phase, listening, poll, answer, positions, filter,
                         markers, onMap>>
      BY <1>9, <2>1 DEF ToggleLive
    <3>2. MapTypeOK'  BY <1>0, <3>1 DEF MapTypeOK
    <3>3. \A j \in Visits : Wiring(j)'  BY <1>0, <3>1 DEF Wiring, InFlight, MapTypeOK
    <3>4. KeepsPolling'
      BY <1>0, <2>1, <3>1 DEF KeepsPolling, Watched, InFlight, MapTypeOK
    <3>5. NoTimerWhilePaused'  BY <1>0, <3>1 DEF NoTimerWhilePaused, MapTypeOK
    <3> QED  BY <1>0, <3>1, <3>2, <3>3, <3>4, <3>5 DEF MapInv, MapShowsPositions, Visible
  <2>2. CASE ~live[i]
    <3>1. tick(i) /\ UNCHANGED timer  BY <1>9, <2>2 DEF ToggleLive
    <3> DEFINE Sent == /\ poll' \in [Visits -> [Slots -> {"none", "sent", "ok", "error"}]]
                       /\ InFlight(i)' # {}
                       /\ \A j \in Visits \ {i} : InFlight(j)' = InFlight(j)
                       /\ answer' = answer
    <3>a. Sent  BY <1>0, <3>1, TickSends
    <3>2. MapTypeOK'  BY <1>0, <1>9, <3>1, <3>a DEF ToggleLive, MapTypeOK
    <3>3. \A j \in Visits : Wiring(j)'
      BY <1>0, <1>9, <3>1, <3>a DEF ToggleLive, MapTypeOK, Wiring
    <3>4. KeepsPolling'
      BY <1>0, <1>9, <3>1, <3>a DEF ToggleLive, MapTypeOK, KeepsPolling, Watched
    <3>5. NoTimerWhilePaused'
      BY <1>0, <1>9, <2>2, <3>1 DEF ToggleLive, MapTypeOK, NoTimerWhilePaused
    <3>6. MapShowsPositions'
      BY <1>0, <1>9 DEF ToggleLive, MapShowsPositions, Visible
    <3> QED  BY <3>2, <3>3, <3>4, <3>5, <3>6 DEF MapInv
  <2> QED  BY <2>1, <2>2
<1>10. ASSUME NEW i \in Visits, Filter(i)  PROVE MapInv'
  <2> DEFINE seen == IF filter[i] = "all" THEN positions[i] \cap Rented ELSE positions[i]
  <2>1. /\ phase[i] = "mounted" /\ RenderMarkers(i, positions[i], seen)
        /\ filter' = [filter EXCEPT ![i] = IF @ = "all" THEN "rented" ELSE "all"]
        /\ UNCHANGED <<fleet, page, hidden, phase, live, timer, listening, poll, answer, positions>>
    BY <1>10 DEF Filter
  <2>2. Visible(i)' = seen /\ seen \subseteq positions[i] /\ positions[i] \subseteq Vehicles
    BY <1>0, <2>1 DEF Visible, MapTypeOK
  <2>3. markers[i] = positions[i] /\ onMap[i] \subseteq positions[i]
    BY <1>0, <2>1 DEF MapShowsPositions, Visible
  <2> HIDE DEF seen
  <2>4. /\ markers' \in [Visits -> SUBSET Vehicles]
        /\ onMap' \in [Visits -> SUBSET Vehicles]
        /\ \A j \in Visits \ {i} : markers'[j] = markers[j] /\ onMap'[j] = onMap[j]
        /\ markers'[i] = positions[i] /\ onMap'[i] = Visible(i)'
    BY <1>0, <2>1, <2>2, <2>3 DEF RenderMarkers, MapTypeOK
  <2>5. MapTypeOK'  BY <1>0, <2>1, <2>4 DEF MapTypeOK
  <2>6. \A j \in Visits : Wiring(j)'  BY <1>0, <2>1, <2>4 DEF Wiring, InFlight
  <2>7. MapShowsPositions'  BY <1>0, <2>1, <2>4 DEF MapShowsPositions, Visible, MapTypeOK
  <2> QED  BY <1>0, <2>1, <2>5, <2>6, <2>7 DEF MapInv, KeepsPolling, NoTimerWhilePaused, Watched, InFlight
<1>11. ASSUME Hide  PROVE MapInv'
  BY <1>0, <1>11 DEF Hide, MapInv, MapTypeOK, Wiring, KeepsPolling, NoTimerWhilePaused,
      MapShowsPositions, Watched, Visible, InFlight
<1>12. ASSUME Show  PROVE MapInv'
  <2>1. PICK slot \in [Visits -> Slots] :
          /\ \A i \in Visits : listening[i] => slot[i] \in Free(i)
          /\ poll' = [i \in Visits |-> IF listening[i] THEN [poll[i] EXCEPT ![slot[i]] = "sent"]
                                       ELSE poll[i]]
    BY <1>12 DEF Show
  <2>2. /\ poll' \in [Visits -> [Slots -> {"none", "sent", "ok", "error"}]]
        /\ \A j \in Visits : listening[j] => InFlight(j)' # {}
        /\ \A j \in Visits : ~listening[j] => InFlight(j)' = InFlight(j)
    BY <1>0, <2>1 DEF MapTypeOK, InFlight
  <2>3. /\ hidden /\ hidden' = FALSE
        /\ UNCHANGED <<fleet, page, phase, live, timer, listening, answer, positions, filter,
                       markers, onMap>>
    BY <1>12 DEF Show
  <2>4. MapTypeOK'  BY <1>0, <2>2, <2>3 DEF MapTypeOK
  <2>5. \A j \in Visits : Wiring(j)'  BY <1>0, <2>2, <2>3 DEF Wiring
  <2>6. KeepsPolling'  BY <1>0, <2>2, <2>3 DEF KeepsPolling, Watched, Wiring
  <2>7. NoTimerWhilePaused'  BY <1>0, <2>3 DEF NoTimerWhilePaused
  <2> QED  BY <1>0, <2>3, <2>4, <2>5, <2>6, <2>7 DEF MapInv, MapShowsPositions, Visible
<1>13. ASSUME Change  PROVE MapInv'
  BY <1>0, <1>13 DEF Change, MapInv, MapTypeOK, Wiring, KeepsPolling, NoTimerWhilePaused,
      MapShowsPositions, Watched, Visible, InFlight
<1>14. ASSUME UNCHANGED mapVars  PROVE MapInv'
  BY <1>0, <1>14 DEF mapVars, MapInv, MapTypeOK, Wiring, KeepsPolling, NoTimerWhilePaused,
      MapShowsPositions, Watched, Visible, InFlight
<1> QED
  BY <1>1, <1>2, <1>3, <1>4, <1>5, <1>6, <1>7, <1>8, <1>9, <1>10, <1>11, <1>12, <1>13, <1>14
  DEF MapNext, Poll, Settle

-----------------------------------------------------------------------------

\* In every reachable state the page's wiring is right, polling goes on where
\* it should, no timer runs where it should not, and the markers are right.
THEOREM MapInvariant == MapSpec => []MapInv
BY MapInvInit, MapInvNext, PTL DEF MapSpec

\* Polling never dies on a map that is shown, live and visible.
THEOREM PollingGoesOn == MapSpec => []KeepsPolling
<1>1. MapInv => KeepsPolling  BY DEF MapInv
<1> QED  BY <1>1, MapInvariant, PTL

\* No timer runs on a paused or hidden map.
THEOREM PausedIsQuiet == MapSpec => []NoTimerWhilePaused
<1>1. MapInv => NoTimerWhilePaused  BY DEF MapInv
<1> QED  BY <1>1, MapInvariant, PTL

\* The markers are those of the last answer that pass the filter.
THEOREM MarkersAreRight == MapSpec => []MapShowsPositions
<1>1. MapInv => MapShowsPositions  BY DEF MapInv
<1> QED  BY <1>1, MapInvariant, PTL

\* The requests in flight are finitely many, and counting them gives a number.
LEMMA FlightsFinite == ASSUME NEW i \in Visits
                       PROVE  IsFiniteSet(InFlight(i)) /\ Cardinality(InFlight(i)) \in Nat
<1>1. InFlight(i) \subseteq Slots  BY DEF InFlight
<1>2. IsFiniteSet(InFlight(i))  BY <1>1, MapAssumption, FS_Subset
<1> QED  BY <1>2, FS_CardinalityType

\* A step that leaves a visit's requests and timer alone, or only clears the
\* timer, does not add to what it has going.
LEMMA NoMoreGoing ==
    ASSUME NEW i \in Visits, poll'[i] = poll[i] \/ InFlight(i)' = InFlight(i), timer'[i] => timer[i]
    PROVE  Activity(i)' <= Activity(i)
<1>1. InFlight(i)' = InFlight(i)  BY DEF InFlight
<1>2. Activity(i)' = Cardinality(InFlight(i)) + (IF timer'[i] THEN 1 ELSE 0)  BY <1>1 DEF Activity
<1> QED  BY <1>2, FlightsFinite DEF Activity

\* The poll the timer sends replaces the timer.
LEMMA FireReplaces ==
    ASSUME MapTypeOK, NEW i \in Visits, Fire(i)
    PROVE  Activity(i)' <= Activity(i)
<1>1. PICK s \in Free(i) : poll' = [poll EXCEPT ![i][s] = "sent"]  BY DEF Fire, tick
<1>2. InFlight(i)' = InFlight(i) \cup {s}  BY <1>1 DEF InFlight, Free, MapTypeOK
<1>3. s \notin InFlight(i)  BY <1>1 DEF InFlight, Free
<1>4. Cardinality(InFlight(i) \cup {s}) = Cardinality(InFlight(i)) + 1
  BY <1>3, FlightsFinite, FS_AddElement
<1>5. timer[i] /\ ~timer'[i]  BY DEF Fire, MapTypeOK
<1>6. Activity(i)' = Cardinality(InFlight(i) \cup {s})  BY <1>2, <1>4, <1>5, FlightsFinite DEF Activity
<1> QED  BY <1>4, <1>5, <1>6, FlightsFinite DEF Activity

\* The timer a poll arms when it has ended replaces the poll.
LEMMA ArmReplaces ==
    ASSUME MapTypeOK, NEW i \in Visits, NEW s \in Slots, Refreshed(i, s) \/ RefreshFailed(i, s)
    PROVE  Activity(i)' <= Activity(i)
<1>1. s \in InFlight(i) /\ poll' = [poll EXCEPT ![i][s] = "none"]
  BY DEF Refreshed, RefreshFailed, InFlight
<1>2. InFlight(i)' = InFlight(i) \ {s}  BY <1>1 DEF InFlight, MapTypeOK
<1>3. Cardinality(InFlight(i) \ {s}) = Cardinality(InFlight(i)) - 1
  BY <1>1, FlightsFinite, FS_RemoveElement
<1>4. Activity(i)' = Cardinality(InFlight(i) \ {s}) + (IF timer'[i] THEN 1 ELSE 0)
  BY <1>2 DEF Activity
<1> QED  BY <1>3, <1>4, FlightsFinite DEF Activity

\* One step of anybody adds nothing to what a page that was left has going.
LEMMA LeftStep ==
    ASSUME MapInv, [MapNext]_mapVars, NEW i \in Visits, phase'[i] = "left"
    PROVE  Activity(i)' <= Activity(i)
<1> USE MapAssumption DEF pollVars, viewVars, NoClick, Click
<1>0. /\ MapTypeOK
      /\ \A j \in Visits : listening[j] <=> phase[j] = "mounted"
  BY DEF MapInv, Wiring
<1>1. ASSUME NEW j \in Visits, Open(j) \/ LoadFails(j) \/ Leave(j) \/ Filter(j)
      PROVE  Activity(i)' <= Activity(i)
  <2>1. poll'[i] = poll[i] /\ (timer'[i] => timer[i])
    BY <1>0, <1>1 DEF Open, LoadFails, Leave, Filter, MapTypeOK
  <2> QED  BY <2>1, NoMoreGoing
<1>2. ASSUME NEW j \in Visits, Loaded(j)  PROVE Activity(i)' <= Activity(i)
  <2>1. timer' = timer  BY <1>2 DEF Loaded
  <2>2. InFlight(i)' = InFlight(i)
    <3>1. CASE page = j
      <4>1. i # j /\ tick(j)  BY <1>0, <1>2, <3>1 DEF Loaded, MapTypeOK
      <4> QED  BY <1>0, <4>1, TickSends
    <3>2. CASE page # j  BY <1>2, <3>2 DEF Loaded, InFlight
    <3> QED  BY <3>1, <3>2
  <2> QED  BY <2>1, <2>2, NoMoreGoing
<1>3. ASSUME NEW j \in Visits, Fire(j)  PROVE Activity(i)' <= Activity(i)
  <2>1. CASE i = j  BY <1>0, <1>3, <2>1, FireReplaces
  <2>2. CASE i # j
    <3>1. InFlight(i)' = InFlight(i)  BY <1>0, <1>3, <2>2, TickSends DEF Fire
    <3>2. timer'[i] = timer[i]  BY <1>0, <1>3, <2>2 DEF Fire, MapTypeOK
    <3> QED  BY <3>1, <3>2, NoMoreGoing
  <2> QED  BY <2>1, <2>2
<1>4. ASSUME NEW j \in Visits, NEW s \in Slots, Refreshed(j, s) \/ RefreshFailed(j, s)
      PROVE  Activity(i)' <= Activity(i)
  <2>1. CASE i = j  BY <1>0, <1>4, <2>1, ArmReplaces
  <2>2. CASE i # j
    <3>1. poll'[i] = poll[i]  BY <1>0, <1>4, <2>2 DEF Refreshed, RefreshFailed, MapTypeOK
    <3>2. timer'[i] = timer[i]
      BY <1>0, <1>4, <2>2 DEF Refreshed, RefreshFailed, Schedule, MapTypeOK
    <3> QED  BY <3>1, <3>2, NoMoreGoing
  <2> QED  BY <2>1, <2>2
<1>5. ASSUME NEW j \in Visits, NEW s \in Slots, Serve(j, s)  PROVE Activity(i)' <= Activity(i)
  <2>1. InFlight(i)' = InFlight(i)
    <3>1. CASE poll' = [poll EXCEPT ![j][s] = "ok"]
      BY <1>0, <1>5, <3>1 DEF Serve, InFlight, MapTypeOK
    <3>2. CASE poll' = [poll EXCEPT ![j][s] = "error"]
      BY <1>0, <1>5, <3>2 DEF Serve, InFlight, MapTypeOK
    <3> QED  BY <1>5, <3>1, <3>2 DEF Serve
  <2>2. timer' = timer  BY <1>5 DEF Serve
  <2> QED  BY <2>1, <2>2, NoMoreGoing
<1>6. ASSUME NEW j \in Visits, ToggleLive(j)  PROVE Activity(i)' <= Activity(i)
  <2>1. i # j  BY <1>6 DEF ToggleLive
  <2>2. InFlight(i)' = InFlight(i)
    <3>1. CASE tick(j)  BY <1>0, <2>1, <3>1, TickSends
    <3>2. CASE UNCHANGED pollVars  BY <3>2 DEF InFlight
    <3> QED  BY <1>6, <3>1, <3>2 DEF ToggleLive
  <2>3. timer'[i] = timer[i]  BY <1>0, <1>6, <2>1 DEF ToggleLive, MapTypeOK
  <2> QED  BY <2>2, <2>3, NoMoreGoing
<1>7. ASSUME Hide  PROVE Activity(i)' <= Activity(i)
  <2>1. poll'[i] = poll[i] /\ (timer'[i] => timer[i])  BY <1>7 DEF Hide
  <2> QED  BY <2>1, NoMoreGoing
<1>8. ASSUME Show  PROVE Activity(i)' <= Activity(i)
  <2>1. ~listening[i]  BY <1>0, <1>8 DEF Show
  <2>2. poll'[i] = poll[i] /\ timer' = timer  BY <1>0, <1>8, <2>1 DEF Show, MapTypeOK
  <2> QED  BY <2>2, NoMoreGoing
<1>9. ASSUME Change \/ UNCHANGED mapVars  PROVE Activity(i)' <= Activity(i)
  <2>1. poll' = poll /\ timer' = timer  BY <1>9 DEF Change, mapVars
  <2> QED  BY <2>1, NoMoreGoing
<1> QED  BY <1>1, <1>2, <1>3, <1>4, <1>5, <1>6, <1>7, <1>8, <1>9 DEF MapNext, Poll, Settle

\* From the moment a page is left, requests and timer together, the poll in
\* flight that re-arms the timer included, never become more (onLeave).
THEOREM LeftPagesWindDown == MapSpec => LeftOnlyWindsDown
<1>1. MapInv /\ [MapNext]_mapVars =>
          [\A i \in Visits : phase'[i] = "left" => Activity(i)' <= Activity(i)]_mapVars
  BY LeftStep
<1> QED  BY <1>1, MapInvariant, PTL DEF MapSpec, LeftOnlyWindsDown
=============================================================================
