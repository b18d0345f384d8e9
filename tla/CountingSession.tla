-------------------------- MODULE CountingSession --------------------------
(***************************************************************************)
(* A counting session as the panel sees it: src/un260/counting/ and        *)
(* app_service/app_counting_runtime.c, app_command_runtime.c,              *)
(* app_currency_runtime.c.  The controller counts and reports; when it has *)
(* finished, a chain of details follows: the denomination table (0x0B),    *)
(* then on request the rejects (0x0C), then on request the serial numbers  *)
(* (0x0D), whose end saves the session in the history.  The same command   *)
(* 0x0B answers the panel's denomination query, which polling repeats at   *)
(* any time.                                                               *)
(*                                                                         *)
(* What is counted is abstracted to whose it is: the number of a session,  *)
(* Query for the answer to a query, Nobody for zero or for nothing.  Every *)
(* timeout of a poll may expire at any time after it was armed.            *)
(***************************************************************************)
EXTENDS Naturals, Sequences

CONSTANTS
  MaxSession,  \* bound: sessions the controller counts
  MaxEvents,   \* bound: queries polled, starts, clears and currency changes the
               \* user asks for, and frames lost, together
  MaxRetry,    \* DENOM_QUERY_MAX_RETRY
  MaxAttempts  \* COUNTING_HISTORY_SAVE_RETRY_MAX

ASSUME SessionAssumption ==
  /\ MaxSession \in Nat \ {0} /\ MaxEvents \in Nat
  /\ MaxRetry \in Nat /\ MaxAttempts \in Nat \ {0}

Session == 1 .. MaxSession
Nobody == 0
Query == MaxSession + 1
Owner == Session \cup {Query}

VARIABLES
  phase,          \* session->phase: "idle", "active", "finished"
  end_anim_wait_detail,
  last_result_valid,    \* session->last_result.valid
  history_record, \* session->history_record; pcs and amount are whose they are
  totals,         \* sim_data: whose total_pcs and total_amount
  denom,          \* sim_data->denom: whose rows
  serials,        \* sim_data->sn_str: whose serial numbers
  query,          \* detail->query_*, and the rows of query_denom
  wait_sn,        \* detail->wait_sn_after_reject_end
  start_pending,  \* g_start_request.pending
  clear_pending,  \* g_clear_request.pending
  boot_ready,     \* boot stage DONE or FAIL
  requests,       \* what the panel sent and the controller has not answered
  frames,         \* what the controller sent and the panel has not handled
  counter,        \* controller: "stopped", "started", "rejected", "accepted"
  current,        \* controller: number of its latest session
  held,           \* controller: whose details it holds
  saved,          \* the history store, oldest first
  disturbed,      \* history: since its first report the session on display lost
                  \* a frame, mistook a table, met an earlier clear, or got its
                  \* serial numbers again while a save waits to be repeated
  events          \* queries polled, user actions and losses so far

sessionVars == <<phase, end_anim_wait_detail, last_result_valid, history_record>>
dataVars == <<totals, denom, serials>>
actionVars == <<start_pending, clear_pending>>
controllerVars == <<counter, current, held>>
historyVars == <<saved, disturbed>>
vars == <<sessionVars, dataVars, query, wait_sn, actionVars, boot_ready, requests, frames,
          controllerVars, historyVars, events>>

NoRecord == [valid |-> FALSE, end_seen |-> FALSE, save_attempts |-> 0, of |-> Nobody]

Init ==
  /\ phase = "idle" /\ end_anim_wait_detail = FALSE /\ last_result_valid = FALSE
  /\ history_record = NoRecord
  /\ totals = Nobody /\ denom = {} /\ serials = {}
  /\ query = [pending |-> FALSE, started |-> FALSE, complete |-> FALSE,
              deferred |-> FALSE, retry |-> 0, denom |-> {}]
  /\ wait_sn = FALSE
  /\ start_pending = FALSE /\ clear_pending = FALSE
  /\ boot_ready = FALSE
  /\ requests = <<>> /\ frames = <<>>
  /\ counter = "stopped" /\ current = Nobody /\ held = Nobody
  /\ saved = <<>> /\ disturbed = FALSE
  /\ events = 0

-----------------------------------------------------------------------------
(* Pieces of the handlers.                                                 *)
Event == events < MaxEvents /\ events' = events + 1

(* app_counting_runtime_reset_session(): also discards a pending record.   *)
ResetSession ==
  /\ phase' = "idle" /\ end_anim_wait_detail' = FALSE /\ last_result_valid' = FALSE
  /\ history_record' = NoRecord

(* sim_reset_counting_data(): the rows stay but count nothing.             *)
ResetData == totals' = Nobody /\ denom' = {} /\ serials' = {}

(* protocol_send(), which reports a failed write.                           *)
Sent(list) == requests' = requests \o list
If(sent, request) == IF sent THEN <<request>> ELSE <<>>

(* counting_action_request_clear(): gives up a pending start; a clear that *)
(* is pending is not repeated.                                             *)
SendClear ==
  \E sent \in BOOLEAN :
    /\ clear_pending' = (clear_pending \/ sent)
    /\ Sent(If(sent /\ ~clear_pending, "clear"))
RequestClear_KeepsStart == SendClear /\ UNCHANGED start_pending \* mutant
RequestClear == SendClear /\ start_pending' = FALSE

(* counting_denom_query_send().                                            *)
Asking(q, sent) == [q EXCEPT !.pending = sent, !.started = FALSE, !.complete = FALSE]
SendQuery(q) ==
  /\ Event
  /\ \E sent \in BOOLEAN : query' = Asking(q, sent) /\ Sent(If(sent, "query"))

(* counting_denom_query_trigger(): at once, or when the boot is over.      *)
Triggered(sent) ==
  [Asking(query, sent) EXCEPT !.retry = 0, !.deferred = ~boot_ready]

(* counting_history_try_commit(), where the store may fail.                *)
Ready_Early(record) == record.valid /\ record.save_attempts < MaxAttempts \* mutant
Ready(record) == record.valid /\ record.end_seen /\ record.save_attempts < MaxAttempts
TryCommit(record) ==
  IF ~Ready(record)
    THEN history_record' = record /\ UNCHANGED saved
    ELSE \/ /\ saved' = Append(saved, [of |-> record.of, denom |-> denom,
                                       serials |-> serials, disturbed |-> disturbed])
            /\ history_record' = NoRecord
         \/ /\ history_record' = [record EXCEPT !.save_attempts = @ + 1]
            /\ UNCHANGED saved

-----------------------------------------------------------------------------
(* The user and the polls, between two frames.                             *)

(* counting_action_request_start(): refused while a clear is pending.      *)
PressStart ==
  /\ ~clear_pending /\ ~start_pending
  /\ Event
  /\ start_pending' = TRUE
  /\ Sent(<<"start">>)
  /\ UNCHANGED <<sessionVars, dataVars, query, wait_sn, clear_pending, boot_ready, frames,
                 controllerVars, historyVars>>

(* app_command_runtime_clear_counting_data(): the user or a new mode.      *)
Clear ==
  /\ Event
  /\ ResetSession /\ ResetData
  /\ wait_sn' = FALSE
  /\ RequestClear
  /\ UNCHANGED <<query, boot_ready, frames, controllerVars, historyVars>>

StartTimesOut ==
  /\ start_pending
  /\ start_pending' = FALSE
  /\ UNCHANGED <<sessionVars, dataVars, query, wait_sn, clear_pending, boot_ready, requests,
                 frames, controllerVars, historyVars, events>>

ClearTimesOut ==
  /\ clear_pending
  /\ clear_pending' = FALSE
  /\ UNCHANGED <<sessionVars, dataVars, query, wait_sn, start_pending, boot_ready, requests,
                 frames, controllerVars, historyVars, events>>

BootEnds ==
  /\ ~boot_ready
  /\ boot_ready' = TRUE
  /\ UNCHANGED <<sessionVars, dataVars, query, wait_sn, actionVars, requests, frames,
                 controllerVars, historyVars, events>>

(* counting_history_poll_commit(): a save that failed is tried again.      *)
PollHistory ==
  /\ Ready(history_record)
  /\ history_record.save_attempts > 0
  /\ TryCommit(history_record)
  /\ UNCHANGED <<phase, end_anim_wait_detail, last_result_valid, dataVars, query, wait_sn,
                 actionVars, boot_ready, requests, frames, controllerVars, disturbed, events>>

(* counting_denom_query_poll(): the answer is late, so repeat or give up;  *)
(* a deferred query; a query repeated on the idle main page.               *)
PollQuery ==
  /\ \/ /\ query.pending
        /\ IF query.retry < MaxRetry
             THEN SendQuery([query EXCEPT !.retry = @ + 1])
             ELSE /\ query' = [query EXCEPT !.pending = FALSE, !.started = FALSE]
                  /\ UNCHANGED <<requests, events>>
     \/ /\ query.deferred /\ ~query.pending /\ boot_ready
        /\ SendQuery([query EXCEPT !.deferred = FALSE])
     \/ /\ ~query.pending /\ ~query.complete /\ ~query.deferred /\ boot_ready
        /\ SendQuery([query EXCEPT !.retry = 0])
  /\ UNCHANGED <<sessionVars, dataVars, wait_sn, actionVars, boot_ready, frames,
                 controllerVars, historyVars>>

-----------------------------------------------------------------------------
(* One action per kind of frame: app_command_runtime_dispatch().           *)
Handle(kind) == frames # <<>> /\ Head(frames).kind = kind /\ frames' = Tail(frames)
Of == Head(frames).of

(* 0x0A: a session starts, asked for or by notes put into the hopper.      *)
HandleStartSuccess ==
  /\ Handle("start_success")
  /\ start_pending' = FALSE
  /\ history_record' = IF history_record.valid THEN NoRecord ELSE history_record
  /\ phase' = "idle" /\ end_anim_wait_detail' = FALSE
  /\ UNCHANGED <<last_result_valid, dataVars, query, wait_sn, clear_pending, boot_ready, requests,
                 controllerVars, historyVars, events>>

HandleStartFailure ==
  /\ Handle("start_failure")
  /\ start_pending' = FALSE
  /\ UNCHANGED <<sessionVars, dataVars, query, wait_sn, clear_pending, boot_ready, requests,
                 controllerVars, historyVars, events>>

HandleCleared ==
  /\ Handle("cleared")
  /\ clear_pending' = FALSE
  /\ UNCHANGED <<sessionVars, dataVars, query, wait_sn, start_pending, boot_ready, requests,
                 controllerVars, historyVars, events>>

(* 0x0E while counting.                                                    *)
LiveTotals_Nonzero == IF Of = Nobody THEN totals ELSE Of \* mutant
LiveTotals == Of
LiveIgnored == phase = "finished"

HandleLive ==
  /\ Handle("live")
  /\ IF LiveIgnored
       THEN UNCHANGED <<phase, last_result_valid, totals>>
       ELSE /\ phase' = "active"
            /\ last_result_valid' = IF phase = "active" THEN last_result_valid ELSE FALSE
            /\ totals' = LiveTotals
  /\ disturbed' = (disturbed /\ phase # "idle")
  /\ UNCHANGED <<end_anim_wait_detail, history_record, denom, serials, query, wait_sn,
                 actionVars, boot_ready, requests, controllerVars, saved, events>>

(* 0x0E at the end: what the panel showed last is what it will save.       *)
HandleFinished ==
  /\ Handle("finished")
  /\ IF phase = "finished"
       THEN UNCHANGED <<sessionVars, saved>>
       ELSE LET final == IF totals # Nobody THEN totals ELSE Of
            IN  /\ phase' = "finished" /\ end_anim_wait_detail' = TRUE /\ last_result_valid' = TRUE
                /\ TryCommit([NoRecord EXCEPT !.valid = final # Nobody, !.of = final])
  /\ UNCHANGED <<dataVars, query, wait_sn, actionVars, boot_ready, requests,
                 controllerVars, disturbed, events>>

(* History: a table frame is taken for the other kind of table.            *)
Mistaken == query.pending # (Of = Query)

HandleDenomStart ==
  /\ Handle("denom_start")
  /\ IF query.pending
       THEN query' = [query EXCEPT !.started = TRUE, !.denom = {}] /\ UNCHANGED denom
       ELSE denom' = {} /\ UNCHANGED query
  /\ disturbed' = (disturbed \/ Mistaken)
  /\ UNCHANGED <<sessionVars, totals, serials, wait_sn, actionVars, boot_ready, requests,
                 controllerVars, saved, events>>

HandleDenomData ==
  /\ Handle("denom_data")
  /\ CASE query.pending /\ ~query.started -> UNCHANGED <<query, denom>>
       [] query.pending /\ query.started ->
            query' = [query EXCEPT !.denom = @ \cup {Of}] /\ UNCHANGED denom
       [] ~query.pending -> denom' = denom \cup {Of} /\ UNCHANGED query
  /\ disturbed' = (disturbed \/ Mistaken)
  /\ UNCHANGED <<sessionVars, totals, serials, wait_sn, actionVars, boot_ready, requests,
                 controllerVars, saved, events>>

(* The query's table replaces the one on display only between sessions.    *)
BetweenSessions_PhaseOnly == phase = "idle" /\ ~end_anim_wait_detail \* mutant
BetweenSessions == phase = "idle" /\ ~end_anim_wait_detail /\ ~last_result_valid

HandleQueryEnd ==
  /\ Handle("denom_end")
  /\ query.pending
  /\ query' = [query EXCEPT !.pending = FALSE, !.started = FALSE,
                            !.complete = query.started,
                            !.retry = IF query.started THEN 0 ELSE @]
  /\ denom' = IF BetweenSessions /\ query.started THEN query.denom ELSE denom
  /\ disturbed' = (disturbed \/ Mistaken)
  /\ UNCHANGED <<sessionVars, totals, serials, wait_sn, actionVars, boot_ready, requests,
                 controllerVars, saved, events>>

(* The session's table is followed by a request for the rejects.           *)
AskForRejects_Only == Sent(<<"rejects">>) /\ UNCHANGED wait_sn \* mutant: the chain ends there
AskForRejects == Sent(<<"rejects">>) /\ wait_sn' = TRUE

HandleSessionEnd ==
  /\ Handle("denom_end")
  /\ ~query.pending
  /\ query' = [query EXCEPT !.started = FALSE]
  /\ AskForRejects
  /\ disturbed' = (disturbed \/ Mistaken)
  /\ UNCHANGED <<sessionVars, dataVars, actionVars, boot_ready, controllerVars, saved, events>>

(* 0x0C: the end of the rejects asks for the serial numbers, once.  The    *)
(* table of rejects itself is the subject of RejectAnalysis.               *)
HandleRejectEnd ==
  /\ Handle("reject_end")
  /\ wait_sn' = FALSE
  /\ Sent(If(wait_sn, "serials"))
  /\ UNCHANGED <<sessionVars, dataVars, query, actionVars, boot_ready, controllerVars,
                 historyVars, events>>

HandleSerialStart ==
  /\ Handle("serial_start")
  /\ serials' = {}
  /\ disturbed' = (disturbed \/ Ready(history_record))
  /\ UNCHANGED <<sessionVars, totals, denom, query, wait_sn, actionVars, boot_ready, requests,
                 controllerVars, saved, events>>

HandleSerialData ==
  /\ Handle("serial_data")
  /\ serials' = serials \cup {Of}
  /\ UNCHANGED <<sessionVars, totals, denom, query, wait_sn, actionVars, boot_ready, requests,
                 controllerVars, historyVars, events>>

(* 0x49 while counting: one serial number, taken in any phase.             *)
HandlePush ==
  /\ Handle("serial_push")
  /\ serials' = serials \cup {Of}
  /\ UNCHANGED <<sessionVars, totals, denom, query, wait_sn, actionVars, boot_ready, requests,
                 controllerVars, historyVars, events>>

HandleSerialEnd ==
  /\ Handle("serial_end")
  /\ TryCommit([history_record EXCEPT !.end_seen = TRUE])
  /\ end_anim_wait_detail' = FALSE
  /\ UNCHANGED <<phase, last_result_valid, dataVars, query, wait_sn, actionVars, boot_ready,
                 requests, controllerVars, disturbed, events>>

(* 0x03: the controller counts another currency.                           *)
HandleSwitchSuccess ==
  /\ Handle("switch_success")
  /\ ResetSession /\ ResetData
  /\ wait_sn' = FALSE
  /\ start_pending' = FALSE
  /\ \E cleared \in BOOLEAN, asked \in {FALSE, boot_ready} :
       /\ clear_pending' = cleared
       /\ query' = Triggered(asked)
       /\ Sent(If(cleared, "clear") \o If(asked, "query"))
  /\ UNCHANGED <<boot_ready, controllerVars, historyVars, events>>

(* 0x03 at boot: the currency in use, before any session.                  *)
HandleBootActive ==
  /\ Handle("boot_active")
  /\ ResetSession /\ ResetData
  /\ wait_sn' = FALSE
  /\ \E asked \in {FALSE, boot_ready} : query' = Triggered(asked) /\ Sent(If(asked, "query"))
  /\ UNCHANGED <<actionVars, boot_ready, controllerVars, historyVars, events>>

-----------------------------------------------------------------------------
(* The controller, as the panel's code takes it to behave.  It is one      *)
(* program: it sends what it has to say before it does anything else, and  *)
(* refuses to start with an empty hopper, so that a session reports its    *)
(* notes at least once before it ends.                                     *)
Frame(kind, of) == [kind |-> kind, of |-> of]
Emit(list) == frames = <<>> /\ frames' = list
Rows(kind, of) == IF of = Nobody THEN <<>> ELSE <<Frame(kind, of)>>
PanelUnchanged == UNCHANGED <<sessionVars, dataVars, query, wait_sn, actionVars, boot_ready>>

Begins ==
  /\ counter = "stopped" /\ current < MaxSession
  /\ counter' = "started" /\ current' = current + 1
  /\ Emit(<<Frame("start_success", Nobody)>>)

FeedNotes ==
  /\ Begins
  /\ UNCHANGED <<requests, held, historyVars, events>> /\ PanelUnchanged

(* A report while counting: only rejects so far, or accepted notes.        *)
Report ==
  /\ \/ counter = "started" /\ counter' = "rejected" /\ Emit(<<Frame("live", Nobody)>>)
     \/ /\ counter \in {"started", "rejected"} /\ counter' = "accepted"
        /\ Emit(<<Frame("live", current)>>)
  /\ UNCHANGED <<requests, current, held, historyVars, events>> /\ PanelUnchanged

(* The serial number of a note that is being counted.                      *)
Push ==
  /\ counter # "stopped"
  /\ Emit(<<Frame("serial_push", current)>>)
  /\ UNCHANGED <<requests, controllerVars, historyVars, events>> /\ PanelUnchanged

Finish ==
  /\ counter \in {"rejected", "accepted"}
  /\ counter' = "stopped"
  /\ held' = IF counter = "accepted" THEN current ELSE Nobody
  /\ Emit(<<Frame("finished", held'), Frame("denom_start", held')>>
          \o Rows("denom_data", held') \o <<Frame("denom_end", held')>>)
  /\ UNCHANGED <<requests, current, historyVars, events>> /\ PanelUnchanged

Answer ==
  /\ requests # <<>> /\ requests' = Tail(requests)
  /\ \/ Head(requests) = "start" /\ Begins /\ UNCHANGED held
     \/ /\ Head(requests) = "start" /\ Emit(<<Frame("start_failure", Nobody)>>)
        /\ UNCHANGED controllerVars
     \/ /\ Head(requests) = "clear" /\ Emit(<<Frame("cleared", Nobody)>>)
        /\ held' = Nobody /\ UNCHANGED <<counter, current>>
     \/ /\ Head(requests) = "query"
        /\ Emit(<<Frame("denom_start", Query), Frame("denom_data", Query),
                  Frame("denom_end", Query)>>)
        /\ UNCHANGED controllerVars
     \/ /\ Head(requests) = "rejects" /\ Emit(<<Frame("reject_end", Nobody)>>)
        /\ UNCHANGED controllerVars
     \/ /\ Head(requests) = "serials"
        /\ Emit(<<Frame("serial_start", held)>> \o Rows("serial_data", held)
                \o <<Frame("serial_end", held)>>)
        /\ UNCHANGED controllerVars
  /\ disturbed' = (disturbed \/ (Head(requests) = "clear" /\
                      (history_record.valid \/ counter # "stopped")))
  /\ UNCHANGED <<saved, events>> /\ PanelUnchanged

(* 0x03: a currency change the user asked for, or the boot report.         *)
ReportCurrency ==
  /\ \/ /\ Event
        /\ counter = "stopped" /\ held' = Nobody
        /\ Emit(<<Frame("switch_success", Nobody)>>)
     \/ /\ ~boot_ready /\ current = Nobody /\ ~query.deferred
        /\ Emit(<<Frame("boot_active", Nobody)>>) /\ UNCHANGED <<held, events>>
  /\ UNCHANGED <<requests, counter, current, historyVars>> /\ PanelUnchanged

Lose ==
  /\ Event
  /\ \/ frames # <<>> /\ frames' = Tail(frames) /\ UNCHANGED requests
     \/ requests # <<>> /\ requests' = Tail(requests) /\ UNCHANGED frames
  /\ disturbed' = TRUE
  /\ UNCHANGED <<controllerVars, saved>> /\ PanelUnchanged

HandleFrame ==
  \/ HandleStartSuccess \/ HandleStartFailure \/ HandleCleared \/ HandleLive \/ HandleFinished
  \/ HandleDenomStart \/ HandleDenomData \/ HandleQueryEnd \/ HandleSessionEnd
  \/ HandleRejectEnd \/ HandleSerialStart \/ HandleSerialData \/ HandleSerialEnd
  \/ HandlePush \/ HandleSwitchSuccess \/ HandleBootActive
User == PressStart \/ Clear
Poll == StartTimesOut \/ ClearTimesOut \/ BootEnds \/ PollHistory \/ PollQuery
Controller == FeedNotes \/ Report \/ Push \/ Finish \/ Answer \/ ReportCurrency \/ Lose

Next == HandleFrame \/ User \/ Poll \/ Controller

(* The loop handles what is queued and polls; the controller answers what  *)
(* reaches it, in some way.  Nobody is obliged to count.                   *)
Fairness == WF_vars(HandleFrame) /\ WF_vars(PollHistory) /\ WF_vars(Answer)

Spec == Init /\ [][Next]_vars /\ Fairness

-----------------------------------------------------------------------------
TypeOK ==
  /\ phase \in {"idle", "active", "finished"}
  /\ end_anim_wait_detail \in BOOLEAN /\ last_result_valid \in BOOLEAN /\ wait_sn \in BOOLEAN
  /\ history_record \in [valid : BOOLEAN, end_seen : BOOLEAN,
                         save_attempts : 0 .. MaxAttempts, of : Session \cup {Nobody}]
  /\ totals \in Session \cup {Nobody}
  /\ denom \subseteq Owner /\ serials \subseteq Session
  /\ query \in [pending : BOOLEAN, started : BOOLEAN, complete : BOOLEAN,
                deferred : BOOLEAN, retry : 0 .. MaxRetry, denom : SUBSET Owner]
  /\ start_pending \in BOOLEAN /\ clear_pending \in BOOLEAN /\ boot_ready \in BOOLEAN
  /\ counter \in {"stopped", "started", "rejected", "accepted"}
  /\ current \in 0 .. MaxSession /\ held \in 0 .. MaxSession
  /\ disturbed \in BOOLEAN

(* The types hold, and a session is saved at most once, in order, however  *)
(* often its details arrive, the store fails or the session is cleared;    *)
(* only a session whose own reports were lost is saved with the totals of  *)
(* another (counting_history_service.c:125-158, counting_info_reply.c:86). *)
SavedOnce ==
  /\ TypeOK
  /\ \A i, j \in DOMAIN saved :
       (i < j /\ ~saved[j].disturbed) => saved[i].of < saved[j].of

(* Unless a frame was lost or a table mistaken, what is saved for a session*)
(* is that session's own: its table and its serial numbers, all of them    *)
(* received (counting_reject_sn_reply.c:173-193).                          *)
SavedComplete ==
  \A i \in DOMAIN saved :
    ~saved[i].disturbed => /\ saved[i].denom = {saved[i].of}
                           /\ saved[i].serials = {saved[i].of}

(* Start and clear are never both pending, so that an answer to one cannot *)
(* undo the other (counting_action_service.c:32-44).                       *)
OneAction == ~(start_pending /\ clear_pending)

(* What a counted session shows stays: a query's rows never replace its    *)
(* table while its totals are on display, in a session not disturbed, and  *)
(* once it is finished its totals change only after a start or a reset made*)
(* the panel idle, not with a report that comes after the start was lost   *)
(* (counting_denom_reply.c:103-112, counting_info_reply.c:47-50).          *)
DisplayKept ==
  [][/\ denom = {totals} /\ totals' = totals /\ ~disturbed' => denom' = denom
     /\ phase = "finished" /\ totals' # totals => phase' = "idle"]_vars

(* The chain of details comes to its end: a finished session is saved, or  *)
(* its saving failed MaxAttempts times, or a new session or a reset gave it*)
(* up, or it was disturbed.  It never just stays pending.                  *)
RecordLeaves ==
  (history_record.valid /\ ~disturbed)
    ~> (~history_record.valid \/ disturbed \/ history_record.save_attempts = MaxAttempts)
=============================================================================
