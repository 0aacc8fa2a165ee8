------------------------------ MODULE Dashboard -------------------------------
(* One dashboard page (pkg/web/static/app.js) and the server's web API          *)
(* (pkg/web/server.go).  The page keeps a copy of the meters' states, which a   *)
(* websocket refreshes four times a second, and a form of sliders for the meter *)
(* it has selected.  What it asks of the server travels on connections of its   *)
(* own: calls, answers and the websocket's messages overtake each other, and    *)
(* any of them may be lost.  Meanwhile other clients (another page, a master)   *)
(* change the meters.                                                           *)
(*                                                                              *)
(* Of a meter, the current that the simulation is to produce and the relay are  *)
(* kept, as numbers; the other sliders behave as that of the current does.  The *)
(* current measured, which the page shows for a meter that is to produce none,  *)
(* may be any: how the simulation follows is left out.  A page's timers fire in *)
(* the order in which they were set up to fire: 100 ms after a slider's last    *)
(* move its value is sent, 400 ms after each move the page takes the user to    *)
(* have let go.                                                                 *)
EXTENDS Integers, Sequences, FiniteSets

CONSTANTS Stations,   \* addresses that meters may be given
          First,      \* that of the meter there is at the start
          Currents,   \* a slider's positions
          Measures,   \* currents that a meter may measure when it is to produce none
          NewCurrent, \* the current of a new meter
          MaxActs,    \* things that the user does, all in all
          MaxEvents   \* changes by other clients, and losses

None == 0

ASSUME PageAssumption ==
  /\ First \in Stations /\ Stations \subseteq Nat \ {None}
  /\ NewCurrent \in Currents \ {0} /\ Currents \subseteq Nat
  /\ Measures \subseteq Nat /\ Measures # {}
  /\ MaxActs \in Nat /\ MaxEvents \in Nat

VARIABLES meters,   \* the server's meters
          page,     \* the page's variables
          calls,    \* requests on their way to the server
          answers,  \* its answers, on their way back
          stream,   \* the websocket: its messages in order
          online,   \* whether it is open
          due,      \* the last move of a slider, until it is served or lost
          acts,     \* how much the user has done so far
          events    \* how often something has happened

vars == <<meters, page, calls, answers, stream, online, due, acts, events>>

NewMeter == [current |-> NewCurrent, relay |-> 1]

Only(id, meter) == [x \in {id} |-> meter]

LowestOf(list) == CHOOSE id \in DOMAIN list : \A other \in DOMAIN list : id <= other

Nowhere == [x \in {} |-> x]

Call(n, what, id, value) == [n |-> n, what |-> what, id |-> id, value |-> value]

NoCall == Call(0, "none", None, None)

Init ==
  /\ meters = Only(First, NewMeter)
  /\ page = [all |-> Nowhere, selected |-> First, form |-> NewCurrent,
             sliding |-> FALSE, timers |-> 0, debounce |-> NoCall, adding |-> None]
  /\ calls = {Call(0, "list", None, None)}   \* fetchMeters
  /\ answers = {} /\ stream = << >> /\ online = FALSE
  /\ due = NoCall /\ acts = 0 /\ events = 0

-----------------------------------------------------------------------------
(* The page's functions, on its variables p *)

(* An amount of zero counts as none given: then the measured current is shown,  *)
(* or, when that is zero too, the one of a new meter.                           *)
Shown(meter, measured) ==
  IF meter.current # 0 THEN meter.current
  ELSE IF measured # 0 THEN measured ELSE NewCurrent

UpdateControlsForm(p, meter, measured) == [p EXCEPT !.form = Shown(meter, measured)]

RenderSingleState(p, id, meter, measured) ==
  IF id = p.selected /\ ~p.sliding THEN UpdateControlsForm(p, meter, measured) ELSE p

(* Variant: no other meter is selected *)
HandleMetersUpdateUnselected(p, list, measured) ==
  LET q == [p EXCEPT !.all = list]
  IN IF p.selected \in DOMAIN list
     THEN RenderSingleState(q, p.selected, list[p.selected], measured)
     ELSE [q EXCEPT !.selected = None]

HandleMetersUpdate(p, list, measured) ==
  LET id == IF p.selected \in DOMAIN list THEN p.selected ELSE LowestOf(list)
  IN RenderSingleState([p EXCEPT !.all = list, !.selected = id], id, list[id], measured)

(* The form is loaded even while the user slides *)
SelectMeter(p, id, measured) ==
  LET q == [p EXCEPT !.selected = id]
  IN IF id \in DOMAIN p.all THEN UpdateControlsForm(q, p.all[id], measured) ELSE q

-----------------------------------------------------------------------------
(* What the user does at the page *)

Act == acts < MaxActs /\ acts' = acts + 1 /\ UNCHANGED events

ClickTab(id) ==
  /\ Act /\ id \in DOMAIN page.all
  /\ \E measured \in Measures : page' = SelectMeter(page, id, measured)
  /\ UNCHANGED <<meters, calls, answers, stream, online, due>>

(* Variant: a move does not put off what is to be sent already *)
MoveSliderOnce(value) ==
  LET move == Call(acts + 1, "current", page.selected, value)
  IN /\ Act
     /\ page' = [page EXCEPT !.form = value, !.sliding = TRUE, !.timers = @ + 1,
                             !.debounce = IF @ = NoCall THEN move ELSE @]
     /\ due' = move
     /\ UNCHANGED <<meters, calls, answers, stream, online>>

(* updateControl: an earlier move, of whichever meter, is sent no more *)
MoveSlider(value) ==
  LET move == Call(acts + 1, "current", page.selected, value)
  IN /\ Act
     /\ page' = [page EXCEPT !.form = value, !.sliding = TRUE, !.timers = @ + 1,
                             !.debounce = move]
     /\ due' = move
     /\ UNCHANGED <<meters, calls, answers, stream, online>>

(* The opposite of what the page knows, of a meter it does not know: closed *)
ToggleRelay ==
  LET known == page.selected \in DOMAIN page.all
      on    == IF known THEN 1 - page.all[page.selected].relay ELSE 1
  IN /\ Act
     /\ calls' = calls \cup {Call(acts + 1, "relay", page.selected, on)}
     /\ UNCHANGED <<meters, page, answers, stream, online, due>>

SubmitAddMeter(id) ==
  /\ Act /\ page.adding = None
  /\ page' = [page EXCEPT !.adding = id]
  /\ calls' = calls \cup {Call(acts + 1, "add", id, None)}
  /\ UNCHANGED <<meters, answers, stream, online, due>>

(* The page offers it when it knows of two meters *)
RemoveMeter(id) ==
  /\ Act /\ id \in DOMAIN page.all /\ Cardinality(DOMAIN page.all) > 1
  /\ calls' = calls \cup {Call(acts + 1, "remove", id, None)}
  /\ UNCHANGED <<meters, page, answers, stream, online, due>>

-----------------------------------------------------------------------------
(* The page's timers *)

DebounceFires ==
  /\ page.debounce # NoCall
  /\ page' = [page EXCEPT !.debounce = NoCall]
  /\ calls' = calls \cup {page.debounce}
  /\ UNCHANGED <<meters, answers, stream, online, due, acts, events>>

(* Variant: the timer of the last move finds that it is the last, and stays *)
TimerFiresButLast ==
  /\ page.timers > 0 /\ (page.timers = 1 => page.debounce = NoCall)
  /\ page' = [page EXCEPT !.timers = @ - 1, !.sliding = (page.timers = 1)]
  /\ UNCHANGED <<meters, calls, answers, stream, online, due, acts, events>>

(* Each move's timer ends the sliding, though a later move may have begun *)
TimerFires ==
  /\ page.timers > 0 /\ (page.timers = 1 => page.debounce = NoCall)
  /\ page' = [page EXCEPT !.timers = @ - 1, !.sliding = FALSE]
  /\ UNCHANGED <<meters, calls, answers, stream, online, due, acts, events>>

-----------------------------------------------------------------------------
(* The server's handlers *)

(* The meter that a control update changes *)
Controlled(id) == IF id \in DOMAIN meters THEN id ELSE LowestOf(meters)

Accepted(call) ==
  CASE call.what = "add"    -> call.id \notin DOMAIN meters
    [] call.what = "remove" -> call.id \in DOMAIN meters /\ Cardinality(DOMAIN meters) > 1
    [] OTHER -> TRUE

Updated(call) ==
  LET id == Controlled(call.id)
  IN IF call.what = "current" THEN [meters EXCEPT ![id].current = call.value]
                              ELSE [meters EXCEPT ![id].relay = call.value]

Added(id) ==
  [x \in DOMAIN meters \cup {id} |-> IF x = id THEN NewMeter ELSE meters[x]]

Removed(id) == [x \in DOMAIN meters \ {id} |-> meters[x]]

(* The meters after an accepted call *)
After(call) ==
  CASE call.what = "list"   -> meters
    [] call.what = "add"    -> Added(call.id)
    [] call.what = "remove" -> Removed(call.id)
    [] OTHER                -> Updated(call)

ToldUpdated(call) == LET id == Controlled(call.id) IN Only(id, Updated(call)[id])

(* What the answer shows of them *)
Told(call) ==
  CASE call.what = "list"              -> meters
    [] call.what \in {"add", "remove"} -> Nowhere
    [] OTHER                           -> ToldUpdated(call)

Serve(call) ==
  /\ call \in calls /\ calls' = calls \ {call}
  /\ meters' = IF Accepted(call) THEN After(call) ELSE meters
  /\ answers' = answers \cup {[call |-> call, ok |-> Accepted(call), told |-> Told(call)]}
  /\ due' = IF due = call THEN NoCall ELSE due
  /\ UNCHANGED <<page, stream, online, acts, events>>

Event == events < MaxEvents /\ events' = events + 1 /\ UNCHANGED acts

(* Other clients' calls *)
Others(call) ==
  /\ Event /\ Accepted(call)
  /\ meters' = After(call)
  /\ UNCHANGED <<page, calls, answers, stream, online, due>>

-----------------------------------------------------------------------------
(* The page receives *)

ControlAnswered(a) ==
  /\ a.call.what \in {"current", "relay"}
  /\ \E id \in DOMAIN a.told, measured \in Measures :
       page' = RenderSingleState(page, id, a.told[id], measured)
  /\ calls' = calls

(* Variant: a refused add leaves the dialog as it is *)
ChangeAnsweredHappy(a) ==
  /\ a.call.what \in {"add", "remove"}
  /\ page' = page
  /\ LET added == IF a.call.what = "add" THEN a.call.id ELSE None
     IN calls' = IF a.ok THEN calls \cup {Call(a.call.n, "list", added, None)} ELSE calls

(* Then the page fetches the list; an added meter is selected when that comes *)
ChangeAnswered(a) ==
  /\ a.call.what \in {"add", "remove"}
  /\ LET added == IF a.call.what = "add" THEN a.call.id ELSE None
     IN \/ a.ok  /\ calls' = calls \cup {Call(a.call.n, "list", added, None)}
                 /\ page' = page
        \/ ~a.ok /\ calls' = calls
                 /\ page' = IF added = None THEN page ELSE [page EXCEPT !.adding = None]

ListAnswered(a) ==
  /\ a.call.what = "list"
  /\ \E measured \in Measures :
       LET p == HandleMetersUpdate(page, a.told, measured)
       IN page' = IF a.call.id = None THEN p
                  ELSE SelectMeter([p EXCEPT !.adding = None], a.call.id, measured)
  /\ calls' = calls

Answered(a) ==
  /\ a \in answers /\ answers' = answers \ {a}
  /\ ControlAnswered(a) \/ ChangeAnswered(a) \/ ListAnswered(a)
  /\ UNCHANGED <<meters, stream, online, due, acts, events>>

(* Variant: the dialog is not enabled again by a failure *)
CaughtQuietly(call, measured) == page

(* The page's catch clauses.  A move or a switch is not sent again; the add     *)
(* dialog ends; a list that did not come is not missed, and the added meter is  *)
(* selected all the same.                                                       *)
Caught(call, measured) ==
  LET ended == [page EXCEPT !.adding = None]
  IN CASE call.what = "add"                     -> ended
       [] call.what = "list" /\ call.id # None  -> SelectMeter(ended, call.id, measured)
       [] OTHER                                 -> page

(* The connection fails before the call is served, or before it is answered *)
Fail(call) ==
  /\ Event
  /\ call \in calls \cup {a.call : a \in answers}
  /\ calls' = calls \ {call} /\ answers' = {a \in answers : a.call # call}
  /\ \E measured \in Measures : page' = Caught(call, measured)
  /\ due' = IF due = call THEN NoCall ELSE due
  /\ UNCHANGED <<meters, stream, online>>

(* The server's ticker; the last message has not been read yet, or it has *)
Push ==
  /\ online /\ stream = << >>
  /\ stream' = <<meters>>
  /\ UNCHANGED <<meters, page, calls, answers, online, due, acts, events>>

Receive ==
  /\ stream # << >>
  /\ stream' = Tail(stream)
  /\ \E measured \in Measures : page' = HandleMetersUpdate(page, Head(stream), measured)
  /\ UNCHANGED <<meters, calls, answers, online, due, acts, events>>

(* Variant: a lost websocket is opened again only if nothing was received on it *)
ConnectWebSocketOnce ==
  /\ ~online /\ page.all = Nowhere /\ online' = TRUE
  /\ UNCHANGED <<meters, page, calls, answers, stream, due, acts, events>>

ConnectWebSocket ==
  /\ ~online /\ online' = TRUE
  /\ UNCHANGED <<meters, page, calls, answers, stream, due, acts, events>>

Disconnect ==
  /\ Event /\ online /\ online' = FALSE /\ stream' = << >>
  /\ UNCHANGED <<meters, page, calls, answers, due>>

-----------------------------------------------------------------------------
User ==
  \/ \E id \in Stations : ClickTab(id) \/ SubmitAddMeter(id) \/ RemoveMeter(id)
  \/ \E value \in Currents : MoveSlider(value)
  \/ ToggleRelay

OthersCalls == {Call(None, "current", First, value) : value \in Currents}
         \cup {Call(None, what, id, None) : what \in {"relay", "add", "remove"}, id \in Stations}

Next ==
  \/ User
  \/ DebounceFires \/ TimerFires
  \/ \E call \in calls : Serve(call)
  \/ \E a \in answers : Answered(a)
  \/ Push \/ Receive \/ ConnectWebSocket
  \/ Disconnect
  \/ \E call \in calls \cup {a.call : a \in answers} : Fail(call)
  \/ \E call \in OthersCalls : Others(call)

Spec == Init /\ [][Next]_vars

(* Timers fire, a call is served and answered unless it fails, the ticker ticks *)
(* and a closed websocket is opened again.  Nobody has to do anything.          *)
Fairness ==
  /\ WF_vars(DebounceFires) /\ WF_vars(TimerFires)
  /\ WF_vars(\E call \in calls : Serve(call))
  /\ WF_vars(\E a \in answers : Answered(a))
  /\ WF_vars(Push) /\ WF_vars(Receive) /\ WF_vars(ConnectWebSocket)

FairSpec == Spec /\ Fairness
-----------------------------------------------------------------------------

Meter  == [current : Currents, relay : 0 .. 1]
Meters == UNION {[ids -> Meter] : ids \in SUBSET Stations}

(* The values a call carries, by what it asks for *)
CallType ==
  {c \in [n : 0 .. MaxActs, what : {"current", "relay", "add", "remove", "list"},
          id : Stations \cup {None}, value : Nat] :
     /\ c.what = "current" => c.value \in Currents
     /\ c.what = "relay" => c.value \in 0 .. 1
     /\ c.what \in {"add", "remove"} => c.id \in Stations}

(* An answer shows at least one meter, unless it is to a change of the list *)
AnswerType ==
  {a \in [call : CallType, ok : BOOLEAN, told : Meters] :
     a.call.what \in {"current", "relay", "list"} => a.told # Nowhere}

PageType ==
  [all : Meters, selected : Stations, form : Currents \cup Measures, sliding : BOOLEAN,
   timers : 0 .. MaxActs, debounce : CallType \cup {NoCall}, adding : Stations \cup {None}]

TypeOK ==
  /\ meters \in Meters \ {Nowhere} /\ page \in PageType
  /\ calls \subseteq CallType /\ answers \subseteq AnswerType
  /\ stream \in Seq(Meters \ {Nowhere}) /\ online \in BOOLEAN
  /\ due \in CallType \cup {NoCall} /\ acts \in 0 .. MaxActs
  /\ events \in 0 .. MaxEvents

(* The last move of a slider, until the server has taken it or its call has     *)
(* failed, waits for the page's timer or is on its way: no later tab, push,     *)
(* answer or failure of another call drops it.                                  *)
LastMoveIsKept == due # NoCall => due = page.debounce \/ due \in calls

(* While the add dialog is disabled, the answer that enables it again is still  *)
(* to come: the add, or the list fetched after it, is under way in one          *)
(* direction or the other.                                                      *)
DialogAwaitsAnswer ==
  page.adding # None =>
    \E call \in calls \cup {a.call : a \in answers} :
       call.what \in {"add", "list"} /\ call.id = page.adding

(* In whatever order answers and messages overtook each other, the page ends up *)
(* with the meters that the server has, and with one of them selected.          *)
PageCatchesUp == <>[](page.all = meters /\ page.selected \in DOMAIN meters)

(* So does the form: once nobody moves a slider, it shows the selected meter,   *)
(* also when the call with the last move failed: the slider then goes back.     *)
(* (For a meter that is to produce no current, by Shown, what it measures.)     *)
FormCatchesUp ==
  <>[](/\ page.selected \in DOMAIN meters
       /\ page.form \in {Shown(meters[page.selected], measured) : measured \in Measures})

(* The add dialog's button, disabled while its two calls are under way, comes   *)
(* back, also if the meter is taken or disappears in between, or a call fails.  *)
AddDialogEnds == page.adding # None ~> page.adding = None
=============================================================================
