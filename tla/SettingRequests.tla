-------------------------- MODULE SettingRequests --------------------------
(***************************************************************************)
(* A setting of the machine as the screen keeps it: the request slot of    *)
(* app_service/setting_service.c (protocol/protocol_request.c), the reply  *)
(* handlers of app_setting_reply_basic.c and app_setting_reply_detail.c,   *)
(* the timeouts of app_setting_runtime.c, the copy in machine_state.c and  *)
(* the value its page shows (all under src/un260).                         *)
(*                                                                         *)
(* Each setting has a slot, a command and a copy of its own, so one        *)
(* setting is followed at a time, which one is chosen at the start.  The   *)
(* controller is another program: it applies or refuses a request, and     *)
(* reports its value when it boots.  A reply has no number, only some name *)
(* the value they answer for.  A request that cannot be sent ends at once  *)
(* and changes nothing.                                                    *)
(***************************************************************************)
EXTENDS Naturals, Sequences

CONSTANTS
  Settings,     \* the settings followed, among Known
  Values,       \* the values of a setting
  Timeout,      \* SETTING_REQUEST_TIMEOUT_MS, in ticks
  MaxRequests,  \* bound: requests the user makes
  MaxFaults,    \* bound: lost frames and boots of the controller
  MaxInFlight   \* bound: frames on the way in one direction

(* What the code does differently from one setting to the next.            *)
Basic == {"add", "fo_mode", "speed", "work_mode", "beep"}
Batch == {"batch"}                   \* its switch; the preset number is left out
Paged == {"double_note", "flap", "reject_pocket", "serial_number"}
Known == Basic \cup Batch \cup Paged
Echoed == {"double_note", "serial_number"}  \* the reply names the value
Restored == Batch \cup Paged                \* a failure restores the previous value
KeepDisplay == {"flap", "reject_pocket"}    \* a success leaves the display alone
Unreported == {"flap"}                      \* the controller never reports it

ASSUME SettingAssumption ==
  /\ Settings \subseteq Known /\ Timeout \in Nat \ {0}
  /\ MaxRequests \in Nat /\ MaxFaults \in Nat /\ MaxInFlight \in Nat \ {0}

VARIABLES
  setting,
  pending, age,          \* the protocol_request_t: its age is now - started_ms
  target, previous,      \* the rest of the slot
  mirror,                \* the copy in machine_state.c or serial_number.c
  page_open, display,    \* a page that shows the value asked for
  reopened,              \* history: the page was opened anew during the request
  toController, toScreen, \* the frames on the way
  actual,                \* the value in the controller
  requests, faults,
  ever,                  \* history: the values the controller ever had
  trusted                \* history: no frame lost, no timeout, no crossing

slotVars == <<pending, age, target, previous>>
pageVars == <<page_open, display, reopened>>
linkVars == <<toController, toScreen, actual, ever>>
vars == <<setting, slotVars, mirror, pageVars, linkVars, requests, faults, trusted>>

Init ==
  /\ setting \in Settings
  /\ actual \in Values /\ mirror = actual /\ display = actual /\ ever = {actual}
  /\ pending = FALSE /\ age = 0 /\ target = actual /\ previous = actual
  /\ page_open = FALSE /\ reopened = FALSE
  /\ toController = <<>> /\ toScreen = <<>>
  /\ requests = 0 /\ faults = 0 /\ trusted = TRUE

Reply(kind, level) == [kind |-> kind, level |-> level]
BootReportComing == \E i \in DOMAIN toScreen : toScreen[i].kind = "boot"

-----------------------------------------------------------------------------
(* protocol_request.c                                                      *)
IsExpired_Late == pending /\ age > Timeout \* mutant
IsExpired == pending /\ age >= Timeout
CanTakeResult == pending /\ ~IsExpired

Finish == pending' = FALSE /\ age' = 0 /\ UNCHANGED <<target, previous>>

-----------------------------------------------------------------------------
(* The user.  The buttons offer another value than the copy's, the pages   *)
(* any value; a page shows the value asked for at once.                    *)
Offered(value) == IF setting \in Paged THEN page_open ELSE value # mirror

Request(value) ==
  /\ requests < MaxRequests /\ Len(toController) < MaxInFlight
  /\ Offered(value) /\ ~pending
  /\ pending' = TRUE /\ age' = 0 /\ target' = value /\ previous' = mirror
  /\ toController' = Append(toController, value)
  /\ display' = IF setting \in Paged THEN value ELSE display
  /\ reopened' = FALSE
  /\ trusted' = (trusted /\ (BootReportComing => setting = "speed"))
  /\ requests' = requests + 1
  /\ UNCHANGED <<setting, mirror, page_open, toScreen, actual, ever, faults>>

OpenPage ==
  /\ setting \in Paged /\ ~page_open
  /\ page_open' = TRUE /\ display' = mirror /\ reopened' = pending
  /\ UNCHANGED <<setting, slotVars, mirror, linkVars, requests, faults, trusted>>

ClosePage ==
  /\ page_open
  /\ page_open' = FALSE
  /\ UNCHANGED <<setting, slotVars, mirror, display, reopened, linkVars,
                 requests, faults, trusted>>

-----------------------------------------------------------------------------
(* The replies.                                                            *)

(* A page that is told of an outcome shows the copy again, but those of    *)
(* KeepDisplay only when the request failed.                               *)
ShowOutcome_Untold(success) == UNCHANGED display \* mutant: the page is not told
ShowOutcome(success) ==
  display' = IF setting \in Paged /\ ~(success /\ setting \in KeepDisplay)
             THEN mirror' ELSE display

Matches_Any(reply) == TRUE \* mutant: the value in the reply is not looked at
Matches(reply) == setting \in Echoed => reply.level = target

TakeSuccess(reply) ==
  /\ reply.kind = "success" /\ CanTakeResult /\ Matches(reply)
  /\ Finish
  /\ mirror' = target
  /\ ShowOutcome(TRUE)

AfterFailure_Target == target \* mutant: keeps what was asked for
AfterFailure == IF setting \in Restored THEN previous ELSE mirror

TakeFailure(reply) ==
  /\ reply.kind = "failure" /\ CanTakeResult /\ Matches(reply)
  /\ Finish
  /\ mirror' = AfterFailure
  /\ ShowOutcome(FALSE)

(* A value the controller reports on its own is confirmed.  The request in *)
(* hand is dropped by the pages, taken as a result by the buttons, which   *)
(* refuses one that is expired, and left open by "speed" and "batch".      *)
DropsRequest == setting \in Paged \/ (setting \in Basic \ {"speed"} /\ ~IsExpired)

TakeBootReport(reply) ==
  /\ reply.kind = "boot"
  /\ mirror' = reply.level
  /\ IF DropsRequest THEN Finish ELSE UNCHANGED slotVars
  /\ display' = IF setting \in Paged THEN mirror' ELSE display

Ignore(reply) ==
  /\ reply.kind \in {"success", "failure"} /\ ~(CanTakeResult /\ Matches(reply))
  /\ UNCHANGED <<slotVars, mirror, display>>

TakeReply ==
  /\ toScreen # <<>>
  /\ LET reply == Head(toScreen)
     IN  TakeSuccess(reply) \/ TakeFailure(reply) \/ TakeBootReport(reply) \/ Ignore(reply)
  /\ toScreen' = Tail(toScreen)
  /\ UNCHANGED <<setting, page_open, reopened, toController, actual, ever,
                 requests, faults, trusted>>

(* app_setting_runtime_poll()                                              *)
TakeTimeout ==
  /\ IsExpired
  /\ Finish
  /\ mirror' = AfterFailure
  /\ ShowOutcome(FALSE)
  /\ trusted' = FALSE
  /\ UNCHANGED <<setting, page_open, reopened, linkVars, requests, faults>>

Tick ==
  /\ pending /\ age < Timeout
  /\ age' = age + 1
  /\ UNCHANGED <<setting, pending, target, previous, mirror, pageVars, linkVars,
                 requests, faults, trusted>>

-----------------------------------------------------------------------------
(* The controller and the link.                                            *)
Serve ==
  /\ toController # <<>> /\ Len(toScreen) < MaxInFlight
  /\ toController' = Tail(toController)
  /\ LET value == Head(toController)
     IN  \/ /\ actual' = value /\ ever' = ever \cup {value}
            /\ toScreen' = Append(toScreen, Reply("success", value))
         \/ /\ toScreen' = Append(toScreen, Reply("failure", value))
            /\ UNCHANGED <<actual, ever>>
  /\ UNCHANGED <<setting, slotVars, mirror, pageVars, requests, faults, trusted>>

ControllerBoots(value) ==
  /\ setting \notin Unreported
  /\ faults < MaxFaults /\ faults' = faults + 1
  /\ Len(toScreen) < MaxInFlight
  /\ toController' = <<>>
  /\ actual' = value /\ ever' = ever \cup {value}
  /\ toScreen' = Append(toScreen, Reply("boot", value))
  /\ trusted' = (trusted /\ (pending => setting = "speed"))
  /\ UNCHANGED <<setting, slotVars, mirror, pageVars, requests>>

Lose ==
  /\ faults < MaxFaults /\ faults' = faults + 1
  /\ trusted' = FALSE
  /\ \/ /\ toController # <<>> /\ toController' = Tail(toController) /\ UNCHANGED toScreen
     \/ /\ toScreen # <<>> /\ toScreen' = Tail(toScreen) /\ UNCHANGED toController
  /\ UNCHANGED <<setting, slotVars, mirror, pageVars, actual, ever, requests>>

-----------------------------------------------------------------------------
Next ==
  \/ \E value \in Values : Request(value) \/ ControllerBoots(value)
  \/ OpenPage \/ ClosePage
  \/ TakeReply \/ TakeTimeout \/ Tick
  \/ Serve \/ Lose

(* The clock goes on, and the poll runs in every turn of the main loop.    *)
Spec == Init /\ [][Next]_vars /\ WF_vars(Tick) /\ WF_vars(TakeTimeout)

-----------------------------------------------------------------------------
(* The state stays well formed; a slot that is not open has no age.        *)
Replies == [kind : {"success", "failure", "boot"}, level : Values]

TypeOK ==
  /\ setting \in Settings /\ pending \in BOOLEAN
  /\ age \in 0..Timeout /\ (pending \/ age = 0)
  /\ {target, previous, mirror, display, actual} \subseteq Values
  /\ page_open \in BOOLEAN /\ reopened \in BOOLEAN /\ trusted \in BOOLEAN
  /\ toController \in Seq(Values) /\ toScreen \in Seq(Replies)
  /\ Len(toController) <= MaxInFlight /\ Len(toScreen) <= MaxInFlight
  /\ requests \in 0..MaxRequests /\ faults \in 0..MaxFaults
  /\ ever \subseteq Values /\ actual \in ever

(* Once everything is answered, the copy is the value in the controller,   *)
(* whatever was refused and reported on the way, unless a frame was lost,  *)
(* a request timed out, or a report of a boot crossed a request.           *)
Quiet == ~pending /\ toController = <<>> /\ toScreen = <<>>
MirrorTrue == trusted /\ Quiet => mirror = actual

(* The settings whose reply names its value never come to a value the      *)
(* controller never had, however late a reply is: the success of a request *)
(* that timed out does not confirm the next one.                           *)
NeverInvented == TypeOK /\ (setting \in Echoed => mirror \in ever)

(* A page shows the copy when no request is open.  The pages of the flap   *)
(* and of the reject pocket do not when they were opened anew during a     *)
(* request that then succeeded: they show the value from before it.        *)
DisplayAgrees ==
  page_open /\ ~pending /\ ~(reopened /\ setting \in KeepDisplay) => display = mirror

(* Every request ends, answered or not, and another one may be made.       *)
EveryRequestEnds == pending ~> ~pending
=============================================================================
