--------------------------- MODULE DashboardProofs ----------------------------
(* What holds of Dashboard for every set of stations, every range of a slider   *)
(* and however much the user does.                                              *)
EXTENDS Dashboard, FiniteSetTheorems, InductionLemmas

-----------------------------------------------------------------------------
(* The lowest of some addresses, and the meters *)

LEMMA MetersAre ==
  /\ \A list \in Meters : /\ DOMAIN list \subseteq Stations
                          /\ \A id \in DOMAIN list : list[id] \in Meter
                          /\ list # Nowhere => DOMAIN list # {}
  /\ \A ids \in SUBSET Stations : [ids -> Meter] \subseteq Meters
  /\ Nowhere \in Meters /\ DOMAIN Nowhere = {}
  BY DEF Meters, Nowhere

LEMMA LowestIn ==
  ASSUME NEW list \in Meters, list # Nowhere
  PROVE  LowestOf(list) \in DOMAIN list
<1>1. DOMAIN list \in SUBSET Nat /\ DOMAIN list # {}
  BY MetersAre, PageAssumption
<1> QED
  BY <1>1, LowestExists DEF LowestOf

LEMMA NewTyped == NewMeter \in Meter /\ NewCurrent \in Currents
  BY PageAssumption DEF NewMeter, Meter

LEMMA OnlyTyped ==
  ASSUME NEW id \in Stations, NEW meter \in Meter
  PROVE  Only(id, meter) \in Meters /\ Only(id, meter) # Nowhere
<1>1. Only(id, meter) \in [{id} -> Meter] /\ DOMAIN Only(id, meter) = {id}
  BY DEF Only
<1> QED
  BY <1>1, MetersAre

-----------------------------------------------------------------------------
(* The page's functions keep the page's type, its timers and its dialog *)

Keeps(p, q) == q.timers = p.timers /\ q.debounce = p.debounce /\ q.adding = p.adding

LEMMA FormTyped ==
  ASSUME NEW p \in PageType, NEW meter \in Meter, NEW measured \in Measures
  PROVE  /\ UpdateControlsForm(p, meter, measured) \in PageType
         /\ Keeps(p, UpdateControlsForm(p, meter, measured))
<1>1. Shown(meter, measured) \in Currents \cup Measures
  BY NewTyped DEF Shown, Meter
<1> QED
  BY <1>1 DEF UpdateControlsForm, PageType, Keeps

LEMMA RenderTyped ==
  ASSUME NEW p \in PageType, NEW id, NEW meter \in Meter, NEW measured \in Measures
  PROVE  /\ RenderSingleState(p, id, meter, measured) \in PageType
         /\ Keeps(p, RenderSingleState(p, id, meter, measured))
  BY FormTyped DEF RenderSingleState, Keeps

LEMMA UpdateTyped ==
  ASSUME NEW p \in PageType, NEW list \in Meters, list # Nowhere, NEW measured \in Measures
  PROVE  /\ HandleMetersUpdate(p, list, measured) \in PageType
         /\ Keeps(p, HandleMetersUpdate(p, list, measured))
<1> DEFINE id == IF p.selected \in DOMAIN list THEN p.selected ELSE LowestOf(list)
           q  == [p EXCEPT !.all = list, !.selected = id]
<1>1. id \in DOMAIN list
  BY LowestIn
<1>2. id \in Stations /\ list[id] \in Meter
  BY <1>1, MetersAre
<1>3. q \in PageType /\ Keeps(p, q)
  BY <1>2 DEF PageType, Keeps
<1>4. HandleMetersUpdate(p, list, measured) = RenderSingleState(q, id, list[id], measured)
  BY DEF HandleMetersUpdate
<1> HIDE DEF id, q
<1> QED
  BY <1>2, <1>3, <1>4, RenderTyped DEF Keeps

LEMMA SelectTyped ==
  ASSUME NEW p \in PageType, NEW id \in Stations, NEW measured \in Measures
  PROVE  /\ SelectMeter(p, id, measured) \in PageType
         /\ Keeps(p, SelectMeter(p, id, measured))
<1> DEFINE q == [p EXCEPT !.selected = id]
<1>1. q \in PageType /\ Keeps(p, q) /\ p.all \in Meters
  BY DEF PageType, Keeps
<1>2. SelectMeter(p, id, measured) =
        IF id \in DOMAIN p.all THEN UpdateControlsForm(q, p.all[id], measured) ELSE q
  BY DEF SelectMeter
<1> HIDE DEF q
<1> QED
  BY <1>1, <1>2, MetersAre, FormTyped DEF Keeps

-----------------------------------------------------------------------------
(* The server's handlers keep the meters' type and leave at least one meter *)

LEMMA ControlledIn ==
  ASSUME TypeOK, NEW id
  PROVE  Controlled(id) \in DOMAIN meters /\ Controlled(id) \in Stations
  BY LowestIn, MetersAre DEF TypeOK, Controlled

(* Who is left when one of two is taken away *)
LEMMA OneIsLeft ==
  ASSUME NEW ids, NEW id, Cardinality(ids) > 1
  PROVE  ids \ {id} # {}
<1>1. SUFFICES ASSUME ids \ {id} = {}
               PROVE  FALSE
  OBVIOUS
<1>2. ids = {} \/ ids = {id}
  BY <1>1
<1>3. Cardinality(ids) = 0 \/ Cardinality(ids) = 1
  BY <1>2, FS_EmptySet, FS_Singleton
<1> QED
  BY <1>3

LEMMA AfterTyped ==
  ASSUME TypeOK, NEW call \in CallType, Accepted(call)
  PROVE  After(call) \in Meters \ {Nowhere}
<1> DEFINE who == Controlled(call.id)
           ids == DOMAIN meters
<1>1. /\ meters \in Meters /\ ids \subseteq Stations /\ ids # {}
      /\ \A id \in ids : meters[id] \in Meter
      /\ meters = [id \in ids |-> meters[id]]
  <2>1. meters \in Meters /\ meters # Nowhere
    BY DEF TypeOK
  <2>2. meters = [id \in ids |-> meters[id]]
    BY <2>1 DEF Meters
  <2> QED
    BY <2>1, <2>2, MetersAre
<1>2. who \in ids
  BY ControlledIn
<1>3. ASSUME NEW kept \in SUBSET Stations, kept # {}, NEW f \in [kept -> Meter]
      PROVE  f \in Meters \ {Nowhere}
  BY <1>3, MetersAre
<1>4. CASE call.what = "current"
  <2>1. /\ call.value \in Currents
        /\ After(call) = [meters EXCEPT ![who].current = call.value]
    BY <1>4 DEF CallType, After, Updated
  <2>2. After(call) \in [ids -> Meter]
    <3> HIDE DEF who, ids
    <3>1. [meters[who] EXCEPT !.current = call.value] \in Meter
      BY <1>1, <1>2, <2>1 DEF Meter
    <3>2. After(call) = [meters EXCEPT ![who] = [meters[who] EXCEPT !.current = call.value]]
      BY <2>1
    <3>3. meters \in [ids -> Meter]
      BY <1>1
    <3> QED
      BY <1>2, <3>1, <3>2, <3>3
  <2> QED
    BY <1>1, <1>3, <2>2
<1>5. CASE call.what = "relay"
  <2>1. /\ call.value \in 0 .. 1
        /\ After(call) = [meters EXCEPT ![who].relay = call.value]
    BY <1>5 DEF CallType, After, Updated
  <2>2. After(call) \in [ids -> Meter]
    <3> HIDE DEF who, ids
    <3>1. [meters[who] EXCEPT !.relay = call.value] \in Meter
      BY <1>1, <1>2, <2>1 DEF Meter
    <3>2. After(call) = [meters EXCEPT ![who] = [meters[who] EXCEPT !.relay = call.value]]
      BY <2>1
    <3>3. meters \in [ids -> Meter]
      BY <1>1
    <3> QED
      BY <1>2, <3>1, <3>2, <3>3
  <2> QED
    BY <1>1, <1>3, <2>2
<1>6. CASE call.what = "add"
  <2> DEFINE more == ids \cup {call.id}
  <2>1. /\ call.id \in Stations
        /\ After(call) = [id \in more |-> IF id = call.id THEN NewMeter ELSE meters[id]]
    BY <1>6 DEF CallType, After, Added
  <2>2. After(call) \in [more -> Meter]
    BY <1>1, <2>1, NewTyped
  <2> QED
    BY <1>1, <1>3, <2>1, <2>2
<1>7. CASE call.what = "remove"
  <2> DEFINE less == ids \ {call.id}
  <2>1. Cardinality(ids) > 1 /\ After(call) = [id \in less |-> meters[id]]
    BY <1>7 DEF Accepted, After, Removed
  <2>2. After(call) \in [less -> Meter]
    BY <1>1, <2>1
  <2>3. less # {}
    BY <2>1, OneIsLeft
  <2> QED
    BY <1>1, <1>3, <2>2, <2>3
<1>8. CASE call.what = "list"
  BY <1>8 DEF After, TypeOK
<1> QED
  BY <1>4, <1>5, <1>6, <1>7, <1>8 DEF CallType

LEMMA ToldTyped ==
  ASSUME TypeOK, NEW call \in CallType
  PROVE  [call |-> call, ok |-> Accepted(call), told |-> Told(call)] \in AnswerType
<1> DEFINE who == Controlled(call.id)
<1>1. Accepted(call) \in BOOLEAN
  BY DEF Accepted, CallType
<1>2. CASE call.what = "list"
  BY <1>1, <1>2 DEF Told, TypeOK, AnswerType
<1>3. CASE call.what \in {"add", "remove"}
  BY <1>1, <1>3, MetersAre DEF Told, AnswerType
<1>4. CASE call.what \in {"current", "relay"}
  <2>1. Told(call) = Only(who, After(call)[who])
    BY <1>4 DEF Told, ToldUpdated, After
  <2>2. After(call) \in Meters /\ DOMAIN After(call) = DOMAIN meters
    BY <1>4, AfterTyped DEF Accepted, After, Updated
  <2>3. who \in Stations /\ After(call)[who] \in Meter
    BY <2>2, ControlledIn, MetersAre
  <2> HIDE DEF who
  <2>4. Told(call) \in Meters /\ Told(call) # Nowhere
    BY <2>1, <2>3, OnlyTyped
  <2> QED
    BY <1>1, <2>4 DEF AnswerType
<1> QED
  BY <1>2, <1>3, <1>4 DEF CallType

-----------------------------------------------------------------------------
(* The invariant: beside the types, that every timer under way is of one of the *)
(* user's acts, where the last move is, and what the dialog waits for.          *)

Inv ==
  /\ TypeOK /\ page.timers <= acts
  /\ LastMoveIsKept /\ DialogAwaitsAnswer

(* A step that takes no call and no answer away, and neither opens the dialog   *)
(* nor moves a slider, leaves both promises as they are.                        *)
LEMMA NothingLost ==
  ASSUME Inv, calls \subseteq calls', answers' = answers, due' = due,
         due # NoCall /\ due = page.debounce => due \in calls' \/ due = page'.debounce,
         page'.adding = page.adding
  PROVE  LastMoveIsKept' /\ DialogAwaitsAnswer'
<1>1. LastMoveIsKept'
  BY DEF Inv, LastMoveIsKept
<1>2. ASSUME page'.adding # None
      PROVE  \E call \in calls' \cup {a.call : a \in answers'} :
               call.what \in {"add", "list"} /\ call.id = page'.adding
  <2>1. PICK call \in calls \cup {a.call : a \in answers} :
               call.what \in {"add", "list"} /\ call.id = page.adding
    BY <1>2 DEF Inv, DialogAwaitsAnswer
  <2>2. call \in calls' \cup {a.call : a \in answers'}
    OBVIOUS
  <2> QED
    BY <2>1, <2>2
<1> QED
  BY <1>1, <1>2 DEF DialogAwaitsAnswer

LEMMA CallTyped ==
  ASSUME NEW n \in 0 .. MaxActs, NEW id \in Stations \cup {None},
         NEW what \in {"current", "relay", "add", "remove", "list"}, NEW value \in Nat,
         what = "current" => value \in Currents, what = "relay" => value \in 0 .. 1,
         what \in {"add", "remove"} => id \in Stations
  PROVE  Call(n, what, id, value) \in CallType
  BY DEF Call, CallType

LEMMA ActCounts ==
  ASSUME Inv, Act
  PROVE  /\ acts \in Nat /\ acts' = acts + 1 /\ acts' \in 0 .. MaxActs
         /\ events' = events /\ None \in Nat
  BY PageAssumption DEF Inv, TypeOK, Act, None

LEMMA InitHolds == Init => Inv
<1> SUFFICES ASSUME Init PROVE Inv
  OBVIOUS
<1>1. meters \in Meters \ {Nowhere}
  BY PageAssumption, NewTyped, OnlyTyped DEF Init
<1>2. page \in PageType
  BY PageAssumption, NewTyped, MetersAre DEF Init, PageType
<1>3. calls \subseteq CallType
  BY PageAssumption, CallTyped DEF Init, None
<1>4. answers = {} /\ stream = << >> /\ online = FALSE /\ due = NoCall /\ acts = 0 /\ events = 0
  BY DEF Init
<1>5. page.timers = 0 /\ page.adding = None
  BY DEF Init
<1>6. 0 \in 0 .. MaxActs /\ 0 \in 0 .. MaxEvents
  BY PageAssumption
<1>7. stream \in Seq(Meters \ {Nowhere})
  BY <1>4
<1>8. TypeOK
  BY <1>1, <1>2, <1>3, <1>4, <1>6, <1>7 DEF TypeOK
<1>9. LastMoveIsKept /\ DialogAwaitsAnswer
  BY <1>4, <1>5 DEF LastMoveIsKept, DialogAwaitsAnswer
<1> QED
  BY <1>4, <1>5, <1>8, <1>9 DEF Inv

-----------------------------------------------------------------------------
(* The user *)

LEMMA ClickTabKeeps ==
  ASSUME Inv, NEW id \in Stations, ClickTab(id)
  PROVE  Inv'
<1>1. page' \in PageType /\ Keeps(page, page')
  BY SelectTyped DEF Inv, TypeOK, ClickTab
<1>2. /\ calls' = calls /\ answers' = answers /\ due' = due /\ meters' = meters
      /\ stream' = stream /\ online' = online
  BY DEF ClickTab
<1>3. page'.timers <= acts' /\ acts' \in 0 .. MaxActs /\ events' = events
  BY <1>1, ActCounts DEF Inv, TypeOK, PageType, Keeps, ClickTab
<1>4. LastMoveIsKept' /\ DialogAwaitsAnswer'
  BY <1>1, <1>2, NothingLost DEF Keeps
<1> QED
  BY <1>1, <1>2, <1>3, <1>4 DEF Inv, TypeOK

LEMMA MoveSliderKeeps ==
  ASSUME Inv, NEW value \in Currents, MoveSlider(value)
  PROVE  Inv'
<1> DEFINE move == Call(acts + 1, "current", page.selected, value)
<1>1. acts \in Nat /\ acts' = acts + 1 /\ acts' \in 0 .. MaxActs /\ events' = events
  BY ActCounts DEF MoveSlider
<1>2. /\ page' = [page EXCEPT !.form = value, !.sliding = TRUE, !.timers = @ + 1,
                              !.debounce = move]
      /\ due' = move /\ calls' = calls /\ answers' = answers /\ meters' = meters
      /\ stream' = stream /\ online' = online
  BY DEF MoveSlider
<1>3. move \in CallType
  BY <1>1, CallTyped, PageAssumption DEF Inv, TypeOK, PageType
<1> HIDE DEF move
<1>4. page.timers + 1 \in 0 .. MaxActs /\ page.timers + 1 <= acts'
  BY <1>1, PageAssumption DEF Inv, TypeOK, PageType
<1>5. page' \in PageType /\ page'.timers <= acts' /\ page'.debounce = move
  BY <1>2, <1>3, <1>4 DEF Inv, TypeOK, PageType
<1>6. page'.adding = page.adding
  BY <1>2 DEF Inv, TypeOK, PageType
<1> QED
  BY <1>1, <1>2, <1>3, <1>5, <1>6
  DEF Inv, TypeOK, LastMoveIsKept, DialogAwaitsAnswer

(* What a click asks of the server is under way from then on *)
LEMMA ClickKeeps ==
  ASSUME Inv, Act, NEW call \in CallType, calls' = calls \cup {call},
         UNCHANGED <<meters, page, answers, stream, online, due>>
  PROVE  Inv'
<1>1. acts \in Nat /\ acts' = acts + 1 /\ acts' \in 0 .. MaxActs /\ events' = events
  BY ActCounts
<1>2. page'.timers <= acts'
  BY <1>1 DEF Inv, TypeOK, PageType
<1>3. LastMoveIsKept' /\ DialogAwaitsAnswer'
  BY NothingLost
<1> QED
  BY <1>1, <1>2, <1>3 DEF Inv, TypeOK

LEMMA ToggleRelayKeeps ==
  ASSUME Inv, ToggleRelay
  PROVE  Inv'
<1> DEFINE on   == IF page.selected \in DOMAIN page.all
                   THEN 1 - page.all[page.selected].relay ELSE 1
           call == Call(acts + 1, "relay", page.selected, on)
<1>1. acts' = acts + 1 /\ acts' \in 0 .. MaxActs /\ Act
  BY ActCounts DEF ToggleRelay
<1>2. page.all \in Meters /\ page.selected \in Stations
  BY DEF Inv, TypeOK, PageType
<1>3. on \in 0 .. 1
  BY <1>2, MetersAre DEF Meter
<1> HIDE DEF on
<1>4. call \in CallType
  BY <1>1, <1>2, <1>3, CallTyped
<1>5. calls' = calls \cup {call} /\ UNCHANGED <<meters, page, answers, stream, online, due>>
  BY DEF ToggleRelay, on
<1> QED
  BY <1>1, <1>4, <1>5, ClickKeeps

LEMMA RemoveMeterKeeps ==
  ASSUME Inv, NEW id \in Stations, RemoveMeter(id)
  PROVE  Inv'
<1>1. acts' = acts + 1 /\ acts' \in 0 .. MaxActs /\ None \in Nat
  BY ActCounts DEF RemoveMeter
<1>2. Call(acts + 1, "remove", id, None) \in CallType
  BY <1>1, CallTyped
<1> QED
  BY <1>2, ClickKeeps DEF RemoveMeter

LEMMA SubmitAddMeterKeeps ==
  ASSUME Inv, NEW id \in Stations, SubmitAddMeter(id)
  PROVE  Inv'
<1> DEFINE call == Call(acts + 1, "add", id, None)
<1>1. acts \in Nat /\ acts' = acts + 1 /\ acts' \in 0 .. MaxActs /\ events' = events /\ None \in Nat
  BY ActCounts DEF SubmitAddMeter
<1>2. call \in CallType /\ call.what = "add" /\ call.id = id
  BY <1>1, CallTyped DEF Call
<1>3. /\ page' = [page EXCEPT !.adding = id] /\ calls' = calls \cup {call}
      /\ UNCHANGED <<meters, answers, stream, online, due>>
  BY DEF SubmitAddMeter
<1> HIDE DEF call
<1>4. /\ page' \in PageType /\ page'.timers <= acts' /\ page'.debounce = page.debounce
      /\ page'.adding = id
  BY <1>1, <1>3 DEF Inv, TypeOK, PageType
<1>5. DialogAwaitsAnswer'
  BY <1>2, <1>3, <1>4 DEF DialogAwaitsAnswer
<1> QED
  BY <1>1, <1>2, <1>3, <1>4, <1>5 DEF Inv, TypeOK, LastMoveIsKept

-----------------------------------------------------------------------------
(* The timers *)

LEMMA DebounceFiresKeeps ==
  ASSUME Inv, DebounceFires
  PROVE  Inv'
<1>1. /\ page' = [page EXCEPT !.debounce = NoCall] /\ calls' = calls \cup {page.debounce}
      /\ page.debounce \in CallType
      /\ UNCHANGED <<meters, answers, stream, online, due, acts, events>>
  BY DEF Inv, TypeOK, PageType, DebounceFires
<1>2. /\ page' \in PageType /\ page'.timers = page.timers /\ page'.adding = page.adding
      /\ page'.debounce = NoCall
  BY <1>1 DEF Inv, TypeOK, PageType
<1>3. LastMoveIsKept' /\ DialogAwaitsAnswer'
  BY <1>1, <1>2, NothingLost
<1> QED
  BY <1>1, <1>2, <1>3 DEF Inv, TypeOK

LEMMA TimerFiresKeeps ==
  ASSUME Inv, TimerFires
  PROVE  Inv'
<1>1. /\ page' = [page EXCEPT !.timers = @ - 1, !.sliding = FALSE] /\ page.timers > 0
      /\ UNCHANGED <<meters, calls, answers, stream, online, due, acts, events>>
  BY DEF TimerFires
<1>2. acts \in Nat /\ acts' = acts
  BY <1>1, PageAssumption DEF Inv, TypeOK
<1>3. page.timers - 1 \in 0 .. MaxActs /\ page.timers - 1 <= acts
  BY <1>1, <1>2, PageAssumption DEF Inv, TypeOK, PageType
<1>4. /\ page' \in PageType /\ page'.timers <= acts' /\ page'.adding = page.adding
      /\ page'.debounce = page.debounce
  BY <1>1, <1>2, <1>3 DEF Inv, TypeOK, PageType
<1>5. LastMoveIsKept' /\ DialogAwaitsAnswer'
  BY <1>1, <1>4, NothingLost
<1> QED
  BY <1>1, <1>4, <1>5 DEF Inv, TypeOK

-----------------------------------------------------------------------------
(* The server *)

LEMMA ServeKeeps ==
  ASSUME Inv, NEW call \in calls, Serve(call)
  PROVE  Inv'
<1> DEFINE answer == [call |-> call, ok |-> Accepted(call), told |-> Told(call)]
<1>1. /\ calls' = calls \ {call} /\ answers' = answers \cup {answer}
      /\ due' = IF due = call THEN NoCall ELSE due
      /\ meters' = IF Accepted(call) THEN After(call) ELSE meters
      /\ UNCHANGED <<page, stream, online, acts, events>>
  BY DEF Serve
<1>2. call \in CallType /\ TypeOK
  BY DEF Inv, TypeOK
<1>3. answer \in AnswerType /\ answer.call = call
  BY <1>2, ToldTyped
<1>4. meters' \in Meters \ {Nowhere}
  BY <1>1, <1>2, AfterTyped DEF TypeOK
<1> HIDE DEF answer
<1>5. TypeOK' /\ page'.timers <= acts'
  BY <1>1, <1>2, <1>3, <1>4 DEF Inv, TypeOK
<1>6. LastMoveIsKept'
  BY <1>1 DEF Inv, LastMoveIsKept
<1>7. ASSUME page'.adding # None
      PROVE  \E other \in calls' \cup {a.call : a \in answers'} :
               other.what \in {"add", "list"} /\ other.id = page'.adding
  <2>1. PICK other \in calls \cup {a.call : a \in answers} :
               other.what \in {"add", "list"} /\ other.id = page.adding
    BY <1>1, <1>7 DEF Inv, DialogAwaitsAnswer
  <2>2. other \in calls' \cup {a.call : a \in answers'}
    BY <1>1, <1>3
  <2> QED
    BY <1>1, <2>1, <2>2
<1> QED
  BY <1>5, <1>6, <1>7 DEF Inv, DialogAwaitsAnswer

LEMMA OthersCallsTyped == OthersCalls \subseteq CallType
<1>1. ASSUME NEW value \in Currents
      PROVE  Call(None, "current", First, value) \in CallType
  BY CallTyped, PageAssumption DEF None
<1>2. ASSUME NEW what \in {"relay", "add", "remove"}, NEW id \in Stations
      PROVE  Call(None, what, id, None) \in CallType
  BY CallTyped, PageAssumption DEF None
<1> QED
  BY <1>1, <1>2 DEF OthersCalls

LEMMA OthersKeep ==
  ASSUME Inv, NEW call \in OthersCalls, Others(call)
  PROVE  Inv'
<1>1. /\ meters' = After(call) /\ Accepted(call) /\ events < MaxEvents /\ events' = events + 1
      /\ UNCHANGED <<page, calls, answers, stream, online, due, acts>>
  BY DEF Others, Event
<1>2. meters' \in Meters \ {Nowhere}
  BY <1>1, OthersCallsTyped, AfterTyped DEF Inv
<1>3. events' \in 0 .. MaxEvents
  BY <1>1, PageAssumption DEF Inv, TypeOK
<1>4. LastMoveIsKept' /\ DialogAwaitsAnswer'
  BY <1>1, NothingLost
<1> QED
  BY <1>1, <1>2, <1>3, <1>4 DEF Inv, TypeOK

-----------------------------------------------------------------------------
(* The page receives *)

(* The dialog waits for another answer, unless this one was of its meter *)
LEMMA StillAwaited ==
  ASSUME Inv, NEW a \in answers, answers' = answers \ {a}, calls \subseteq calls',
         page'.adding # None, page'.adding = page.adding,
         a.call.what \in {"add", "list"} /\ a.call.id = page.adding =>
           \E call \in calls' : call.what \in {"add", "list"} /\ call.id = page.adding
  PROVE  DialogAwaitsAnswer'
<1>1. PICK call \in calls \cup {x.call : x \in answers} :
             call.what \in {"add", "list"} /\ call.id = page.adding
  BY DEF Inv, DialogAwaitsAnswer
<1>2. \E other \in calls' \cup {x.call : x \in answers'} :
        other.what \in {"add", "list"} /\ other.id = page'.adding
  <2>1. CASE call = a.call
    BY <1>1, <2>1
  <2>2. CASE call # a.call
    BY <1>1, <2>2
  <2> QED
    BY <2>1, <2>2
<1> QED
  BY <1>2 DEF DialogAwaitsAnswer

LEMMA AnsweredKeeps ==
  ASSUME Inv, NEW a \in answers, Answered(a)
  PROVE  Inv'
<1> DEFINE added == IF a.call.what = "add" THEN a.call.id ELSE None
           list  == Call(a.call.n, "list", added, None)
<1>1. /\ answers' = answers \ {a}
      /\ UNCHANGED <<meters, stream, online, due, acts, events>>
      /\ ControlAnswered(a) \/ ChangeAnswered(a) \/ ListAnswered(a)
  BY DEF Answered
<1>2. /\ a.call \in CallType /\ a.told \in Meters /\ page \in PageType /\ None \in Nat
      /\ a.call.what \in {"current", "relay", "list"} => a.told # Nowhere
  BY DEF Inv, TypeOK, AnswerType, None
(* A step that keeps the page's type, timers and last move, takes no call away, *)
(* and keeps the dialog waiting unless it enables it                            *)
<1>3. ASSUME page' \in PageType, page'.timers = page.timers, page'.debounce = page.debounce,
             calls \subseteq calls', calls' \subseteq CallType,
             page'.adding # None => DialogAwaitsAnswer'
      PROVE  Inv'
  <2>1. LastMoveIsKept'
    BY <1>1, <1>3 DEF Inv, LastMoveIsKept
  <2>2. DialogAwaitsAnswer'
    BY <1>3 DEF DialogAwaitsAnswer
  <2> QED
    BY <1>1, <1>3, <2>1, <2>2 DEF Inv, TypeOK
<1>4. CASE ControlAnswered(a)
  <2>1. /\ a.told \in Meters /\ a.call.what \in {"current", "relay"} /\ calls' = calls
        /\ \E id \in DOMAIN a.told, measured \in Measures :
             page' = RenderSingleState(page, id, a.told[id], measured)
    BY <1>2, <1>4 DEF ControlAnswered
  <2>2. \A id \in DOMAIN a.told : a.told[id] \in Meter
    BY <2>1, MetersAre
  <2>3. page' \in PageType /\ Keeps(page, page')
    BY <1>2, <2>1, <2>2, RenderTyped
  <2>4. page'.adding # None => DialogAwaitsAnswer'
    BY <1>1, <2>1, <2>3, StillAwaited DEF Keeps
  <2> QED
    BY <1>3, <2>1, <2>3, <2>4 DEF Inv, TypeOK, Keeps
<1>5. CASE ChangeAnswered(a) /\ a.ok
  <2>1. /\ a.call.what \in {"add", "remove"} /\ calls' = calls \cup {list} /\ page' = page
    BY <1>5 DEF ChangeAnswered
  <2>2. list \in CallType /\ list.what = "list" /\ list.id = added
    BY <1>2, CallTyped DEF CallType, Call
  <2>3. page'.adding # None => DialogAwaitsAnswer'
    <3>1. a.call.what = "add" => list.id = a.call.id
      BY <2>2
    <3> HIDE DEF list
    <3>2. a.call.what # "list"
      BY <2>1
    <3> QED
      BY <1>1, <2>1, <2>2, <3>1, <3>2, StillAwaited
  <2> HIDE DEF list
  <2> QED
    BY <1>2, <1>3, <2>1, <2>2, <2>3 DEF Inv, TypeOK
<1>6. CASE ChangeAnswered(a) /\ ~a.ok
  <2>1. /\ a.call.what \in {"add", "remove"} /\ calls' = calls
        /\ page' = IF added = None THEN page ELSE [page EXCEPT !.adding = None]
    BY <1>6 DEF ChangeAnswered
  <2>2. page' \in PageType /\ page'.timers = page.timers /\ page'.debounce = page.debounce
    BY <1>2, <2>1 DEF PageType
  <2>3. page'.adding # None => page' = page /\ added = None
    BY <1>2, <2>1 DEF PageType
  <2>4. page'.adding # None => DialogAwaitsAnswer'
    BY <1>1, <2>1, <2>3, StillAwaited
  <2> QED
    BY <1>3, <2>1, <2>2, <2>4 DEF Inv, TypeOK
<1>7. CASE ListAnswered(a)
  <2>0. PICK measured \in Measures :
               LET p == HandleMetersUpdate(page, a.told, measured)
               IN page' = IF a.call.id = None THEN p
                          ELSE SelectMeter([p EXCEPT !.adding = None], a.call.id, measured)
    BY <1>7 DEF ListAnswered
  <2> DEFINE p == HandleMetersUpdate(page, a.told, measured)
             q == [p EXCEPT !.adding = None]
  <2>1. /\ a.call.what = "list" /\ a.told # Nowhere /\ calls' = calls
        /\ page' = IF a.call.id = None THEN p ELSE SelectMeter(q, a.call.id, measured)
    BY <1>2, <1>7, <2>0 DEF ListAnswered
  <2>2. p \in PageType /\ Keeps(page, p)
    BY <1>2, <2>1, UpdateTyped
  <2> HIDE DEF p
  <2>3. CASE a.call.id = None
    <3>1. page'.adding # None => DialogAwaitsAnswer'
      BY <1>1, <2>1, <2>2, <2>3, StillAwaited DEF Keeps
    <3> QED
      BY <1>3, <2>1, <2>2, <2>3, <3>1 DEF Inv, TypeOK, Keeps
  <2>4. CASE a.call.id # None
    <3>1. q \in PageType /\ q.timers = page.timers /\ q.debounce = page.debounce /\ q.adding = None
      BY <2>2 DEF PageType, Keeps
    <3>2. a.call.id \in Stations
      BY <1>2, <2>4 DEF CallType
    <3> HIDE DEF q
    <3>3. page' \in PageType /\ Keeps(q, page')
      BY <2>1, <2>4, <3>1, <3>2, SelectTyped
    <3> QED
      BY <1>3, <2>1, <3>1, <3>3 DEF Inv, TypeOK, Keeps
  <2> QED
    BY <2>3, <2>4
<1> QED
  BY <1>1, <1>4, <1>5, <1>6, <1>7

(* A failed call that is awaited by the dialog enables it *)
LEMMA CaughtTyped ==
  ASSUME page \in PageType, NEW call \in CallType, NEW measured \in Measures
  PROVE  /\ Caught(call, measured) \in PageType
         /\ Caught(call, measured).timers = page.timers
         /\ Caught(call, measured).debounce = page.debounce
         /\ Caught(call, measured).adding # None =>
              /\ Caught(call, measured).adding = page.adding
              /\ call.what \in {"add", "list"} => call.id # page.adding
<1> DEFINE ended == [page EXCEPT !.adding = None]
<1>1. /\ ended \in PageType /\ ended.timers = page.timers /\ ended.debounce = page.debounce
      /\ ended.adding = None
  BY DEF PageType
<1>2. CASE call.what = "add"
  <2>1. Caught(call, measured) = ended
    BY <1>2 DEF Caught
  <2> HIDE DEF ended
  <2> QED
    BY <1>1, <2>1
<1>3. CASE call.what = "list" /\ call.id # None
  <2>1. Caught(call, measured) = SelectMeter(ended, call.id, measured)
    BY <1>3 DEF Caught
  <2>2. call.id \in Stations
    BY <1>3 DEF CallType
  <2> HIDE DEF ended
  <2> QED
    BY <1>1, <2>1, <2>2, SelectTyped DEF Keeps
<1>4. CASE call.what # "add" /\ (call.what = "list" => call.id = None)
  <2>1. Caught(call, measured) = page
    BY <1>4 DEF Caught
  <2> QED
    BY <1>4, <2>1
<1> QED
  BY <1>2, <1>3, <1>4

LEMMA FailKeeps ==
  ASSUME Inv, NEW call \in calls \cup {a.call : a \in answers}, Fail(call)
  PROVE  Inv'
<1>1. /\ calls' = calls \ {call} /\ answers' = {a \in answers : a.call # call}
      /\ due' = IF due = call THEN NoCall ELSE due
      /\ events < MaxEvents /\ events' = events + 1
      /\ UNCHANGED <<meters, stream, online, acts>>
  BY DEF Fail, Event
<1>2. PICK measured \in Measures : page' = Caught(call, measured)
  BY DEF Fail
<1>3. call \in CallType /\ page \in PageType
  BY DEF Inv, TypeOK, AnswerType
<1>4. /\ page' \in PageType /\ page'.timers = page.timers /\ page'.debounce = page.debounce
      /\ page'.adding # None => /\ page'.adding = page.adding
                                /\ call.what \in {"add", "list"} => call.id # page.adding
  BY <1>2, <1>3, CaughtTyped
<1>5. events' \in 0 .. MaxEvents
  BY <1>1, PageAssumption DEF Inv, TypeOK
<1>6. TypeOK' /\ page'.timers <= acts'
  BY <1>1, <1>4, <1>5 DEF Inv, TypeOK
<1>7. LastMoveIsKept'
  BY <1>1, <1>4 DEF Inv, LastMoveIsKept
<1>8. ASSUME page'.adding # None
      PROVE  \E other \in calls' \cup {a.call : a \in answers'} :
               other.what \in {"add", "list"} /\ other.id = page'.adding
  <2>1. PICK other \in calls \cup {a.call : a \in answers} :
               other.what \in {"add", "list"} /\ other.id = page.adding
    BY <1>4, <1>8 DEF Inv, DialogAwaitsAnswer
  <2>2. other # call
    BY <1>4, <1>8, <2>1
  <2>3. other \in calls' \cup {a.call : a \in answers'}
    BY <1>1, <2>2
  <2> QED
    BY <1>4, <1>8, <2>1, <2>3
<1> QED
  BY <1>6, <1>7, <1>8 DEF Inv, DialogAwaitsAnswer

LEMMA PushKeeps ==
  ASSUME Inv, Push
  PROVE  Inv'
<1>1. /\ stream' = <<meters>>
      /\ UNCHANGED <<meters, page, calls, answers, online, due, acts, events>>
  BY DEF Push
<1>2. stream' \in Seq(Meters \ {Nowhere})
  BY <1>1 DEF Inv, TypeOK
<1>3. LastMoveIsKept' /\ DialogAwaitsAnswer'
  BY <1>1, NothingLost
<1> QED
  BY <1>1, <1>2, <1>3 DEF Inv, TypeOK

LEMMA ReceiveKeeps ==
  ASSUME Inv, Receive
  PROVE  Inv'
<1>1. /\ stream # << >> /\ stream' = Tail(stream)
      /\ \E measured \in Measures : page' = HandleMetersUpdate(page, Head(stream), measured)
      /\ UNCHANGED <<meters, calls, answers, online, due, acts, events>>
  BY DEF Receive
<1>2. /\ Head(stream) \in Meters \ {Nowhere} /\ stream' \in Seq(Meters \ {Nowhere})
      /\ page \in PageType
  BY <1>1 DEF Inv, TypeOK
<1>3. page' \in PageType /\ Keeps(page, page')
  BY <1>1, <1>2, UpdateTyped
<1>4. LastMoveIsKept' /\ DialogAwaitsAnswer'
  BY <1>1, <1>3, NothingLost DEF Keeps
<1> QED
  BY <1>1, <1>2, <1>3, <1>4 DEF Inv, TypeOK, Keeps

LEMMA SocketKeeps ==
  ASSUME Inv, ConnectWebSocket \/ Disconnect
  PROVE  Inv'
<1>1. /\ stream' \in {stream, << >>} /\ online' \in BOOLEAN /\ events' \in {events, events + 1}
      /\ events' # events => events < MaxEvents
      /\ UNCHANGED <<meters, page, calls, answers, due, acts>>
  BY DEF ConnectWebSocket, Disconnect, Event
<1>2. events \in 0 .. MaxEvents /\ stream \in Seq(Meters \ {Nowhere})
  BY DEF Inv, TypeOK
<1>3. events' \in 0 .. MaxEvents
  BY <1>1, <1>2, PageAssumption
<1>4. stream' \in Seq(Meters \ {Nowhere})
  <2>1. << >> \in Seq(Meters \ {Nowhere})
    OBVIOUS
  <2> QED
    BY <1>1, <1>2, <2>1
<1>5. LastMoveIsKept' /\ DialogAwaitsAnswer'
  BY <1>1, NothingLost
<1> QED
  BY <1>1, <1>3, <1>4, <1>5 DEF Inv, TypeOK

-----------------------------------------------------------------------------
(* The theorems *)

LEMMA StepHolds == Inv /\ [Next]_vars => Inv'
<1> SUFFICES ASSUME Inv, [Next]_vars PROVE Inv'
  OBVIOUS
<1>1. CASE UNCHANGED vars
  BY <1>1, NothingLost DEF vars, Inv, TypeOK
<1>2. CASE User
  BY <1>2, ClickTabKeeps, SubmitAddMeterKeeps, RemoveMeterKeeps, MoveSliderKeeps,
     ToggleRelayKeeps DEF User
<1>3. CASE DebounceFires \/ TimerFires
  BY <1>3, DebounceFiresKeeps, TimerFiresKeeps
<1>4. CASE (\E call \in calls : Serve(call)) \/ (\E call \in OthersCalls : Others(call))
  BY <1>4, ServeKeeps, OthersKeep
<1>5. CASE (\E a \in answers : Answered(a)) \/ Push \/ Receive \/ ConnectWebSocket \/ Disconnect
  BY <1>5, AnsweredKeeps, PushKeeps, ReceiveKeeps, SocketKeeps
<1>6. CASE \E call \in calls \cup {a.call : a \in answers} : Fail(call)
  BY <1>6, FailKeeps
<1> QED
  BY <1>1, <1>2, <1>3, <1>4, <1>5, <1>6 DEF Next

THEOREM Invariance == Spec => []Inv
<1> QED
  BY InitHolds, StepHolds, PTL DEF Spec

(* The variables have their types.  In particular the server never loses its    *)
(* last meter, so that the lists in which handleMetersUpdate looks for a first  *)
(* meter are never empty; and what the page sends are positions of a slider and *)
(* states of a relay, of addresses that a meter may have.  (It need not have    *)
(* the meter it has selected: an added meter may be gone when it is selected.)  *)
THEOREM TypeCorrect == Spec => []TypeOK
<1>1. Inv => TypeOK
  BY DEF Inv
<1> QED
  BY <1>1, Invariance, PTL

(* updateControl, the debounce timer and sendControl: the page never drops the  *)
(* last move between the slider and the call that carries it.                   *)
THEOREM LastMoveKept == Spec => []LastMoveIsKept
<1>1. Inv => LastMoveIsKept
  BY DEF Inv
<1> QED
  BY <1>1, Invariance, PTL

(* submitAddMeter: a disabled dialog always has an answer to wait for, also     *)
(* when calls fail.                                                             *)
THEOREM DialogAwaited == Spec => []DialogAwaitsAnswer
<1>1. Inv => DialogAwaitsAnswer
  BY DEF Inv
<1> QED
  BY <1>1, Invariance, PTL
=============================================================================
