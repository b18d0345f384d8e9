------------------------- MODULE CurrencySelection -------------------------
(***************************************************************************)
(* The currency of the machine, AUTO included: the list the controller     *)
(* reports and the selection in currency/currency_state.c, the switch      *)
(* request of currency_service.c, the selection over several requests of   *)
(* lv_core/page_07_curr.c (leave or enter AUTO with a mode request, clear  *)
(* the counted data, then switch), and the parts of app_setting_reply_     *)
(* basic.c, app_setting_runtime.c and app_command_runtime.c that drive it  *)
(* (all under src/un260).                                                  *)
(*                                                                         *)
(* A request is answered by frames of the controller, which is another     *)
(* program.  How long a request waits is left out: it may time out at any  *)
(* moment, and a reply that comes later finds no request or the next one.  *)
(* active_index counts from 0 as in C: its code is codes[active_index + 1].*)
(***************************************************************************)
EXTENDS Naturals, Sequences, SequencesExt

CONSTANTS
  Lists,        \* the lists of real currencies a controller may have
  MaxCurrencies, \* CONTROLLER_MAX_CURRENCIES
  Modes,        \* the counting modes, AUTO aside
  FirstMode,    \* the mode at the start
  MaxClicks,    \* bound: what the user does
  MaxEvents,    \* bound: boots of the controller, detections and lost frames
  MaxInFlight   \* bound: requests on the way

AUTO == "AUTO"
Codes == UNION {ToSet(list) : list \in Lists}
NoCode == "no code"

ASSUME CurrencyAssumption ==
  /\ Lists \subseteq Seq(Codes)
  /\ \A list \in Lists : Len(list) \in 1..MaxCurrencies /\ IsInjective(list)
  /\ FirstMode \in Modes
  /\ AUTO \notin Codes \cup Modes /\ NoCode \notin Codes \cup Modes
  /\ {MaxCurrencies, MaxClicks, MaxEvents, MaxInFlight} \subseteq Nat

VARIABLES
  codes, active_code, active_index, auto_selected, detected_code,
  sync_active, sync_codes,      \* NoCode where g_currency_sync_seen is false
  sync_of,                      \* history: the lists its codes are of
  mixed,                        \* history: codes was put together from several lists
  mode,                         \* machine_state_mode()
  mode_request,                 \* the target of g_mode_request, or NoCode
  switch_request,               \* target_index and target_code
  clear_pending,                \* g_clear_request
  mode_clear,                   \* "none", "scheduled" or "due"
  transition,                   \* g_curr_mode_transition
  toController, toScreen,       \* the frames on the way
  list, ctrl_auto, ctrl_code,   \* the controller
  clicks, events,
  stranded,                     \* history: a report took the mode request away
  trusted                       \* history: nothing lost, late or crossed by a boot

stateVars == <<codes, active_code, active_index, auto_selected, detected_code>>
syncVars == <<sync_active, sync_codes, sync_of, mixed>>
requestVars == <<mode_request, switch_request, clear_pending>>
flowVars == <<mode, mode_clear, transition, stranded>>
ctrlVars == <<list, ctrl_auto, ctrl_code>>
boundVars == <<clicks, events>>
vars == <<stateVars, syncVars, requestVars, flowVars, toController, toScreen, ctrlVars,
          boundVars, trusted>>

NoSwitch == [index |-> 0, code |-> NoCode]
NoTransition == [kind |-> "none", index |-> 0, code |-> NoCode, mode |-> NoCode]
NothingSeen == [i \in 1..MaxCurrencies |-> NoCode]

(* A frame of a report also tells, as history, what the controller had.    *)
Origin(list_, auto, code) == [list |-> list_, auto |-> auto, code |-> code]
Frame(cmd, arg) == [cmd |-> cmd, arg |-> arg, of |-> Origin(<<>>, FALSE, NoCode)]

(* currency_state_find_code(): the index of a listed code, from 0.         *)
Listed(code, codes_) == \E i \in DOMAIN codes_ : codes_[i] = code
Find(code, codes_) ==
  (CHOOSE i \in DOMAIN codes_ :
     codes_[i] = code /\ \A j \in DOMAIN codes_ : codes_[j] = code => i <= j) - 1
SelectedCode == IF auto_selected THEN AUTO ELSE active_code
SwitchPending == switch_request # NoSwitch
ModePending == mode_request # NoCode

Init ==
  /\ list \in Lists /\ ctrl_code \in ToSet(list) /\ ctrl_auto \in BOOLEAN
  /\ codes = <<AUTO>> \o list /\ active_code = ctrl_code /\ auto_selected = ctrl_auto
  /\ active_index = IF ctrl_auto THEN 0 ELSE Find(ctrl_code, codes)
  /\ detected_code = NoCode
  /\ sync_active = FALSE /\ sync_codes = NothingSeen /\ sync_of = {} /\ mixed = FALSE
  /\ mode = FirstMode /\ mode_request = NoCode /\ switch_request = NoSwitch
  /\ clear_pending = FALSE /\ mode_clear = "none" /\ transition = NoTransition
  /\ toController = <<>> /\ toScreen = <<>>
  /\ clicks = 0 /\ events = 0
  /\ stranded = FALSE /\ trusted = TRUE

-----------------------------------------------------------------------------
(* currency_state.c                                                        *)
Keep == UNCHANGED stateVars

ConfirmAuto ==
  /\ active_index' = 0 /\ auto_selected' = TRUE /\ detected_code' = NoCode
  /\ UNCHANGED <<codes, active_code>>

LeaveAuto_First == \* mutant: the first currency, not the one that is active
  IF ~auto_selected THEN Keep
  ELSE /\ auto_selected' = FALSE /\ detected_code' = NoCode
       /\ active_code' = codes[2] /\ active_index' = 1
       /\ UNCHANGED codes

LeaveAuto ==
  IF ~auto_selected THEN Keep
  ELSE LET code == IF Listed(active_code, codes) THEN active_code ELSE codes[2]
       IN  /\ auto_selected' = FALSE /\ detected_code' = NoCode
           /\ active_code' = code /\ active_index' = Find(code, codes)
           /\ UNCHANGED codes

ConfirmActiveCode_Stale(code) == \* mutant: the index is left to the frame that tells it
  active_code' = code /\ detected_code' = NoCode /\ UNCHANGED <<codes, auto_selected, active_index>>

ConfirmActiveCode(code) ==
  /\ active_code' = code /\ detected_code' = NoCode
  /\ active_index' = IF ~auto_selected /\ Listed(code, codes) THEN Find(code, codes)
                     ELSE active_index
  /\ UNCHANGED <<codes, auto_selected>>

SelectionListed(index, code) == index < Len(codes) /\ codes[index + 1] = code

ConfirmActiveSelection(index, code) ==
  /\ active_index' = index /\ active_code' = code
  /\ auto_selected' = FALSE /\ detected_code' = NoCode
  /\ UNCHANGED codes

ConfirmActiveIndex(index) ==
  /\ active_index' = IF ~auto_selected /\ index + 1 < Len(codes) THEN index + 1
                     ELSE active_index
  /\ UNCHANGED <<codes, active_code, auto_selected, detected_code>>

ConfirmDetected(code) ==
  /\ detected_code' = IF auto_selected /\ Listed(code, codes) THEN code ELSE detected_code
  /\ UNCHANGED <<codes, active_code, active_index, auto_selected>>

ForgetDetected == \* currency_state_begin_count_session()
  /\ detected_code' = IF auto_selected THEN NoCode ELSE detected_code
  /\ UNCHANGED <<codes, active_code, active_index, auto_selected>>

(* The list comes in frames: a start, the codes with their index, an end.  *)
SyncCount == Max({0} \cup {i \in DOMAIN sync_codes : sync_codes[i] # NoCode})
ListComplete_Gaps == sync_active /\ SyncCount > 0 \* mutant: gaps are not looked for
ListComplete == sync_active /\ SyncCount > 0 /\ \A i \in 1..SyncCount : sync_codes[i] # NoCode

BeginListSync ==
  sync_active' = TRUE /\ sync_codes' = NothingSeen /\ sync_of' = {} /\ UNCHANGED mixed

AppendListCode(item, from) ==
  /\ IF sync_active /\ \A i \in DOMAIN sync_codes \ {item.index} : sync_codes[i] # item.code
     THEN /\ sync_codes' = [sync_codes EXCEPT ![item.index] = item.code]
          /\ sync_of' = sync_of \cup {from}
     ELSE UNCHANGED <<sync_codes, sync_of>>
  /\ UNCHANGED <<sync_active, mixed>>

Retained(new) == IF Listed(active_code, new) THEN active_code ELSE new[2]

ForgetSync == sync_active' = FALSE /\ sync_codes' = NothingSeen /\ sync_of' = {}

FinishListSync ==
  /\ ForgetSync
  /\ IF ListComplete
     THEN LET new == <<AUTO>> \o SubSeq(sync_codes, 1, SyncCount)
          IN  /\ codes' = new
              /\ active_code' = Retained(new)
              /\ active_index' = IF auto_selected THEN 0 ELSE Find(Retained(new), new)
              /\ UNCHANGED <<auto_selected, detected_code>>
              /\ mixed' = \E one, other \in sync_of : one # other
     ELSE Keep /\ UNCHANGED mixed

-----------------------------------------------------------------------------
(* The user.  Every request is sent: one that is not ends at once.         *)
BootComing == \E i \in DOMAIN toScreen :
                toScreen[i].cmd \in {"start", "code", "end", "mode", "active", "index"}
Event == events < MaxEvents /\ events' = events + 1
Click == clicks < MaxClicks /\ clicks' = clicks + 1
Sends(frame) ==
  /\ Len(toController) < MaxInFlight
  /\ toController' = Append(toController, frame)
  /\ trusted' = (trusted /\ ~BootComing)

Idle == ~SwitchPending /\ ~ModePending /\ transition.kind = "none"

(* curr_select_and_exit_abs()                                              *)
Select(index) ==
  /\ Click /\ Idle
  /\ index + 1 \in DOMAIN codes
  /\ LET code == codes[index + 1]
         Transit(kind, requested) ==
           /\ transition' = [kind |-> kind, index |-> index, code |-> code, mode |-> requested]
           /\ mode_request' = requested
           /\ UNCHANGED switch_request
           /\ Sends(Frame("mode", requested))
     IN  /\ code # SelectedCode
         /\ \/ code = AUTO /\ Transit("to auto", AUTO)
            \/ code # AUTO /\ auto_selected /\ Transit("to manual", mode)
            \/ /\ code # AUTO /\ ~auto_selected
               /\ switch_request' = [index |-> index, code |-> code]
               /\ Sends(Frame("switch", code))
               /\ UNCHANGED <<transition, mode_request>>
  /\ stranded' = FALSE
  /\ UNCHANGED <<stateVars, syncVars, clear_pending, mode, mode_clear, toScreen, ctrlVars, events>>

(* page_01_mode_send_next()                                                *)
NextMode(next) ==
  /\ Click /\ ~ModePending /\ next # mode
  /\ mode_request' = next
  /\ Sends(Frame("mode", next))
  /\ UNCHANGED <<stateVars, syncVars, switch_request, clear_pending, flowVars, toScreen,
                 ctrlVars, events>>

(* app_command_runtime_clear_counting_data() for the user.                 *)
UserClear ==
  /\ Click
  /\ ForgetDetected
  /\ mode_clear' = "none"
  /\ IF clear_pending THEN UNCHANGED <<clear_pending, toController, trusted>>
     ELSE clear_pending' = TRUE /\ Sends(Frame("clear", NoCode))
  /\ UNCHANGED <<syncVars, mode_request, switch_request, mode, transition, stranded,
                 toScreen, ctrlVars, events>>

-----------------------------------------------------------------------------
(* The frames of the controller, in app_command_runtime_dispatch().        *)

(* page_07_curr_apply_mode_result()                                        *)
Concerns(requested) ==
  \/ transition.kind = "to auto" /\ requested = AUTO
  \/ transition.kind = "to manual" /\ requested = transition.mode
  \/ transition.kind = "wait"

AfterMode(requested, success) ==
  IF ~Concerns(requested) THEN transition
  ELSE IF ~success \/ transition.kind = "to auto" THEN NoTransition
       ELSE [transition EXCEPT !.kind = "wait"]

ModeSucceeds ==
  /\ IF mode_request = AUTO THEN ConfirmAuto /\ UNCHANGED mode
                            ELSE LeaveAuto /\ mode' = mode_request
  /\ transition' = AfterMode(mode_request, TRUE)
  /\ mode_clear' \in {"none", "scheduled"} \* whether there is counted data to clear
  /\ mode_request' = NoCode
  /\ UNCHANGED <<syncVars, switch_request, clear_pending, stranded>>

ModeFails ==
  /\ transition' = AfterMode(mode_request, FALSE)
  /\ mode_request' = NoCode
  /\ UNCHANGED <<stateVars, syncVars, switch_request, clear_pending, mode, mode_clear,
                 stranded>>

(* A report of the mode drops the request and leaves the selection alone.  *)
ModeReported(reported) ==
  /\ IF reported = AUTO THEN ConfirmAuto /\ UNCHANGED mode ELSE LeaveAuto /\ mode' = reported
  /\ mode_request' = NoCode
  /\ stranded' = (stranded \/ transition.kind \in {"to auto", "to manual"})
  /\ UNCHANGED <<syncVars, switch_request, clear_pending, mode_clear, transition>>

(* On success the counted data are cleared here and in the controller,     *)
(* whatever requests for it were open.                                     *)
SwitchSucceeds ==
  /\ switch_request' = NoSwitch
  /\ IF SelectionListed(switch_request.index, switch_request.code)
     THEN /\ ConfirmActiveSelection(switch_request.index, switch_request.code)
          /\ clear_pending' = TRUE
          /\ toController' = Append(toController, Frame("clear", NoCode))
     ELSE Keep /\ UNCHANGED <<clear_pending, toController>>
  /\ UNCHANGED <<syncVars, mode_request, flowVars>>

SwitchFails ==
  /\ switch_request' = NoSwitch
  /\ UNCHANGED <<stateVars, syncVars, mode_request, clear_pending, flowVars>>

(* In AUTO the code is only the fallback: AUTO is confirmed again.         *)
ActiveReported(code) ==
  /\ IF auto_selected
     THEN /\ active_code' = code /\ active_index' = 0 /\ detected_code' = NoCode
          /\ UNCHANGED <<codes, auto_selected>>
     ELSE ConfirmActiveCode(code)
  /\ UNCHANGED <<syncVars, requestVars, flowVars>>

TakeFrame ==
  /\ toScreen # <<>>
  /\ LET frame == Head(toScreen)
         Unused == UNCHANGED <<stateVars, syncVars, requestVars, flowVars>>
     IN  \/ /\ frame.cmd = "mode ok"
            /\ IF ModePending THEN ModeSucceeds ELSE Unused
            /\ UNCHANGED toController
         \/ /\ frame.cmd = "mode failed"
            /\ IF ModePending THEN ModeFails ELSE Unused
            /\ UNCHANGED toController
         \/ /\ frame.cmd = "switch ok"
            /\ IF SwitchPending THEN SwitchSucceeds ELSE Unused /\ UNCHANGED toController
         \/ /\ frame.cmd = "switch failed"
            /\ IF SwitchPending THEN SwitchFails ELSE Unused
            /\ UNCHANGED toController
         \/ /\ frame.cmd = "cleared"
            /\ clear_pending' = FALSE
            /\ UNCHANGED <<stateVars, syncVars, mode_request, switch_request, flowVars,
                           toController>>
         \/ frame.cmd = "mode" /\ ModeReported(frame.arg) /\ UNCHANGED toController
         \/ frame.cmd = "active" /\ ActiveReported(frame.arg) /\ UNCHANGED toController
         \/ /\ \/ frame.cmd = "index" /\ ConfirmActiveIndex(frame.arg) /\ UNCHANGED syncVars
               \/ frame.cmd = "detected" /\ ConfirmDetected(frame.arg) /\ UNCHANGED syncVars
               \/ frame.cmd = "start" /\ BeginListSync /\ Keep
               \/ frame.cmd = "code" /\ AppendListCode(frame.arg, frame.of.list) /\ Keep
               \/ frame.cmd = "end" /\ FinishListSync
            /\ UNCHANGED <<requestVars, flowVars, toController>>
  /\ toScreen' = Tail(toScreen)
  /\ UNCHANGED <<ctrlVars, boundVars, trusted>>

-----------------------------------------------------------------------------
(* app_setting_runtime_poll()                                              *)
ModeClearDue ==
  /\ mode_clear = "scheduled" /\ mode_clear' = "due"
  /\ UNCHANGED <<stateVars, syncVars, requestVars, mode, transition, stranded,
                 toController, toScreen, ctrlVars, boundVars, trusted>>

ModeTimeout_Keeps == transition \* mutant: the selection is not cancelled
ModeTimeout == NoTransition \* page_07_curr_cancel_pending_selection()

TakeModeTimeout ==
  /\ ModePending
  /\ mode_request' = NoCode /\ transition' = ModeTimeout /\ trusted' = FALSE
  /\ UNCHANGED <<stateVars, syncVars, switch_request, clear_pending, mode, mode_clear,
                 stranded, toController, toScreen, ctrlVars, boundVars>>

TakeSwitchTimeout ==
  /\ SwitchPending
  /\ switch_request' = NoSwitch /\ trusted' = FALSE
  /\ UNCHANGED <<stateVars, syncVars, mode_request, clear_pending, flowVars,
                 toController, toScreen, ctrlVars, boundVars>>

(* app_command_runtime_poll(): a clear that timed out cancels the          *)
(* selection, a mode clear that is due clears the data, or cancels the     *)
(* selection when a clear is under way, and a selection that waits for     *)
(* neither sends its switch.                                               *)
Poll(expired) ==
  LET due == mode_clear = "due"
      clearing == clear_pending /\ ~expired
      after == IF expired \/ (due /\ clearing) THEN NoTransition ELSE transition
      clears == due /\ ~clearing
      resumes == /\ after.kind = "wait" /\ mode_clear # "scheduled"
                 /\ ~clearing /\ ~clears /\ ~SwitchPending
      sends == resumes /\ SelectionListed(after.index, after.code)
  IN  /\ expired => clear_pending
      /\ expired \/ due \/ resumes
      /\ IF due THEN mode_clear' = "none" /\ ForgetDetected ELSE UNCHANGED mode_clear /\ Keep
      /\ clear_pending' = (clearing \/ clears)
      /\ transition' = IF resumes THEN NoTransition ELSE after
      /\ switch_request' = IF sends THEN [index |-> after.index, code |-> after.code]
                           ELSE switch_request
      /\ toController' = toController \o (IF clears THEN <<Frame("clear", NoCode)>> ELSE <<>>)
                           \o (IF sends THEN <<Frame("switch", after.code)>> ELSE <<>>)
      /\ trusted' = (trusted /\ (sends => ~BootComing))
      /\ UNCHANGED <<syncVars, mode_request, mode, stranded, toScreen, ctrlVars, boundVars>>

-----------------------------------------------------------------------------
(* The controller and the link.                                            *)
Serve ==
  /\ toController # <<>> /\ Len(toScreen) < MaxInFlight
  /\ toController' = Tail(toController)
  /\ LET frame == Head(toController)
         Answer(cmd) == toScreen' = Append(toScreen, Frame(cmd, NoCode))
     IN  \/ frame.cmd = "mode" /\ Answer("mode ok") /\ ctrl_auto' = (frame.arg = AUTO)
              /\ UNCHANGED ctrl_code
         \/ frame.cmd = "mode" /\ Answer("mode failed") /\ UNCHANGED <<ctrl_auto, ctrl_code>>
         \/ frame.cmd = "switch" /\ frame.arg \in ToSet(list) /\ Answer("switch ok")
              /\ ctrl_auto' = FALSE /\ ctrl_code' = frame.arg
         \/ frame.cmd = "switch" /\ Answer("switch failed") /\ UNCHANGED <<ctrl_auto, ctrl_code>>
         \/ frame.cmd = "clear" /\ Answer("cleared") /\ UNCHANGED <<ctrl_auto, ctrl_code>>
  /\ UNCHANGED <<stateVars, syncVars, requestVars, flowVars, list, boundVars, trusted>>

(* It boots with a list, a currency and a mode, and reports all of them.   *)
(* A frame of the report may be lost, the one at lost.                     *)
Report(new, auto, code, reported) ==
  LET Says(cmd, arg) == [cmd |-> cmd, arg |-> arg, of |-> Origin(new, auto, code)]
  IN  <<Says("start", NoCode)>>
        \o [i \in DOMAIN new |-> Says("code", [index |-> i, code |-> new[i]])]
        \o <<Says("end", NoCode), Says("mode", IF auto THEN AUTO ELSE reported),
             Says("active", code), Says("index", Find(code, new))>>

ControllerBoots(new, auto, code, reported, lost) ==
  /\ Event
  /\ list' = new /\ ctrl_auto' = auto /\ ctrl_code' = code
  /\ toController' = <<>>
  /\ LET report == Report(new, auto, code, reported)
     IN  toScreen' = toScreen \o (IF lost = 0 THEN report ELSE RemoveAt(report, lost))
  /\ trusted' = (trusted /\ lost = 0 /\ ~ModePending /\ ~SwitchPending)
  /\ UNCHANGED <<stateVars, syncVars, requestVars, flowVars, clicks>>

Detect(code) ==
  /\ ctrl_auto /\ Event
  /\ Len(toScreen) < MaxInFlight
  /\ toScreen' = Append(toScreen, Frame("detected", code))
  /\ UNCHANGED <<stateVars, syncVars, requestVars, flowVars, toController, ctrlVars,
                 clicks, trusted>>

Lose ==
  /\ Event
  /\ trusted' = FALSE
  /\ \/ \E i \in DOMAIN toScreen : toScreen' = RemoveAt(toScreen, i) /\ UNCHANGED toController
     \/ \E i \in DOMAIN toController :
          toController' = RemoveAt(toController, i) /\ UNCHANGED toScreen
  /\ UNCHANGED <<stateVars, syncVars, requestVars, flowVars, ctrlVars, clicks>>

-----------------------------------------------------------------------------
UserStep ==
  \/ \E index \in 0..MaxCurrencies : Select(index)
  \/ \E next \in Modes : NextMode(next)
  \/ UserClear

ControllerStep ==
  \/ Serve
  \/ \E new \in Lists, auto \in BOOLEAN, reported \in Modes :
       \E code \in ToSet(new), lost \in 0..(Len(new) + 5) :
         ControllerBoots(new, auto, code, reported, lost)
  \/ \E code \in ToSet(list) : Detect(code)
  \/ Lose

PollStep == ModeClearDue \/ TakeModeTimeout \/ TakeSwitchTimeout \/ \E e \in BOOLEAN : Poll(e)

Next == UserStep \/ TakeFrame \/ PollStep \/ ControllerStep

(* The polls run in every turn of the main loop: what has expired or is    *)
(* due is taken.                                                           *)
Spec ==
  /\ Init /\ [][Next]_vars
  /\ WF_vars(ModeClearDue) /\ WF_vars(TakeModeTimeout) /\ WF_vars(TakeSwitchTimeout)
  /\ WF_vars(Poll(FALSE)) /\ WF_vars(Poll(TRUE))

-----------------------------------------------------------------------------
(* The state stays well formed.                                            *)
FrameOK(frame) ==
  frame.cmd \in {"mode ok", "mode failed", "switch ok", "switch failed", "cleared", "mode",
                 "active", "index", "detected", "start", "code", "end"}

TypeOK ==
  /\ codes \in Seq(Codes \cup {AUTO}) /\ active_code \in Codes /\ auto_selected \in BOOLEAN
  /\ active_index < Len(codes)
  /\ detected_code \in Codes \cup {NoCode}
  /\ sync_active \in BOOLEAN /\ sync_codes \in [1..MaxCurrencies -> Codes \cup {NoCode}]
  /\ (~sync_active => sync_codes = NothingSeen)
  /\ sync_of \subseteq Lists /\ mixed \in BOOLEAN
  /\ mode \in Modes /\ mode_request \in Modes \cup {AUTO, NoCode}
  /\ clear_pending \in BOOLEAN /\ mode_clear \in {"none", "scheduled", "due"}
  /\ switch_request.index \in 0..MaxCurrencies
  /\ switch_request.code \in Codes \cup {NoCode}
  /\ transition.kind \in {"none", "to auto", "to manual", "wait"}
  /\ \A i \in DOMAIN toScreen : FrameOK(toScreen[i])

(* The list on the screen is AUTO and currencies, none of them twice.  It  *)
(* is a list of the controller, of which only the end may be missing,      *)
(* whatever frames of a report are lost: a list with a gap is refused.     *)
(* Only where the end of a report and the start of the next are both lost  *)
(* can it be put together from two (currency_state.c:86-109).              *)
ListSound ==
  /\ TypeOK
  /\ Len(codes) > 1 /\ Head(codes) = AUTO /\ IsInjective(codes)
  /\ ~mixed => \E whole \in Lists : IsPrefix(Tail(codes), whole)

(* AUTO has the index 0.  Any other selection has the index of its code in *)
(* the list of the moment, unless frames of a boot report are lost, and no *)
(* currency that was detected, in whatever order that was reported.        *)
IndexAgrees ==
  /\ auto_selected => active_index = 0
  /\ ~auto_selected => detected_code = NoCode
  /\ ~auto_selected /\ trusted => active_index > 0 /\ codes[active_index + 1] = active_code

(* Once every request is answered, the screen and the controller agree on  *)
(* AUTO and on the currency, after selections that take several requests   *)
(* and are refused half way, and boots of the controller with another list *)
(* between them, unless a frame is lost, a request times out or a boot     *)
(* crosses a request.                                                      *)
Quiet == ~ModePending /\ ~SwitchPending /\ toController = <<>> /\ toScreen = <<>>
SelectionTrue ==
  trusted /\ Quiet => auto_selected = ctrl_auto /\ active_code = ctrl_code

(* A selection under way ends in a selection or a cancellation, so that    *)
(* the user may select again.  It does not when a report of the mode takes *)
(* its mode request away: then it stays until another mode request ends.   *)
UnderWay == transition.kind # "none" /\ ~stranded
SelectionEnds == UnderWay ~> ~UnderWay

=============================================================================
