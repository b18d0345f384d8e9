-------------------------- MODULE ScreenRecording --------------------------
(***************************************************************************)
(* A recording of the screen to a USB stick: the service and its thread in *)
(* src/un260/recording/screen_recording_service.c, the button in           *)
(* lv_system/ui_screen_recording.c, and the stick in storage/usb_storage.c,*)
(* which is mounted and unmounted by whoever asks for it and can be pulled *)
(* at any moment.                                                          *)
(*                                                                         *)
(* The main loop and the thread take turns under the lock of the service;  *)
(* a step is what one of them does between two uses of what both touch.    *)
(* The file is written under the path of the mount point, and lands on     *)
(* whatever that is when it is opened.  It is synced under its temporary   *)
(* name; the rename is not, and a pull may lose it.                        *)
(***************************************************************************)
EXTENDS Naturals, Sequences

CONSTANTS
  MaxFrames,     \* avi_writer_t.max_frames
  MaxRecordings  \* bound: recordings started

ASSUME RecordingAssumption == MaxFrames \in Nat /\ MaxRecordings \in Nat

Recordings == 1..MaxRecordings

VARIABLES
  state, stop_requested, completion_pending, completion, thread_joinable, \* g_recording
  thread,     \* where the thread is: "none", "init", "opened", "loop", "closing",
              \* "closed", "done", "cleaned" or "exited"
  frames, saved,                                    \* locals of the thread
  file_open,  \* its writer has the temporary file open
  temp,       \* where the temporary file is: "none", "stick" or "root"
  whole,      \* it has its index and header
  final,      \* where each recording is under its own name, and whether it is whole;
              \* "cached": renamed, and the stick may not have the name yet;
              \* "lost": it never got it, and has the temporary file at best
  plugged,    \* the stick is in its slot
  mount,      \* the mount point: "none", "live", "dead" (the stick was pulled) or
              \* "stale" (so it was, but the device has the same name again)
  loop,       \* the main loop: "free", "clicked" or "polled"
  seen,       \* the state it read last
  dialog,     \* g_fps_overlay is open
  button,     \* g_last_state; a stopping button takes no click
  shown,      \* the button is on the screen
  enabled,    \* user_cfg_screen_recording_enabled()
  started, reports,  \* history: recordings begun, and what the user was told of each
  pulled      \* history: the recordings begun when the stick was last pulled

serviceVars == <<state, stop_requested, completion_pending, completion, thread_joinable>>
fileVars == <<frames, saved, file_open, temp, whole, final>>
threadVars == <<thread, fileVars>>
stickVars == <<plugged, mount, pulled>>
uiVars == <<loop, seen, dialog, button, shown, enabled>>
historyVars == <<started, reports>>
vars == <<serviceVars, threadVars, stickVars, uiVars, historyVars>>

States == {"idle", "starting", "active", "stopping"}
Places == {"none", "cached", "stick", "lost", "root"}
Nothing == [at |-> "none", whole |-> FALSE]

Init ==
  /\ state = "idle" /\ stop_requested = FALSE
  /\ completion_pending = FALSE /\ completion = "none" /\ thread_joinable = FALSE
  /\ thread = "none" /\ frames = 0 /\ saved = FALSE /\ file_open = FALSE
  /\ temp = "none" /\ whole = FALSE /\ final = [r \in Recordings |-> Nothing]
  /\ plugged \in BOOLEAN /\ mount = "none" /\ pulled = 0
  /\ loop = "free" /\ seen = "idle" /\ dialog = FALSE /\ button = "idle"
  /\ shown = FALSE /\ enabled \in BOOLEAN
  /\ started = 0 /\ reports = <<>>

-----------------------------------------------------------------------------
(* usb_storage.c                                                           *)
Busy == file_open /\ temp = "stick"  \* umount refuses while a file is open

(* usb_storage_mount_device(): how the mount may be, and whether it is     *)
(* taken for usable.  A mount whose device answers is kept as it is.       *)
MountOutcomes ==
  CASE mount \in {"live", "stale"} -> {<<mount, TRUE>>}
    [] mount = "dead" /\ Busy -> {<<"dead", FALSE>>}
    [] OTHER -> {<<"live", TRUE>>, <<"none", FALSE>>}

(* The screenshot and the exports prepare the stick, too; the upgrade page *)
(* looks for it over and over, and unmounts what is gone.                  *)
StickPrepared ==
  /\ loop = "free"
  /\ plugged
  /\ \E outcome \in MountOutcomes : mount' = outcome[1]
  /\ UNCHANGED <<serviceVars, threadVars, plugged, pulled, uiVars, historyVars>>

StickGone ==
  /\ loop = "free"
  /\ ~plugged /\ mount # "none" /\ ~Busy
  /\ mount' = "none"
  /\ UNCHANGED <<serviceVars, threadVars, plugged, pulled, uiVars, historyVars>>

(* What the kernel has not written by then is lost.                        *)
Settled(written) ==
  [r \in Recordings |->
     IF final[r].at # "cached" THEN final[r]
     ELSE [at |-> IF r \in written THEN "stick" ELSE "lost", whole |-> final[r].whole]]

Pull ==
  /\ plugged
  /\ plugged' = FALSE /\ pulled' = started
  /\ mount' = IF mount = "none" THEN "none" ELSE "dead"
  /\ \E written \in SUBSET Recordings : final' = Settled(written)
  /\ UNCHANGED <<serviceVars, thread, frames, saved, file_open, temp, whole, uiVars, historyVars>>

Plug ==
  /\ ~plugged
  /\ plugged' = TRUE
  /\ mount' \in IF mount = "dead" THEN {"dead", "stale"} ELSE {mount}
  /\ UNCHANGED <<serviceVars, threadVars, pulled, uiVars, historyVars>>

(* Where the path leads, and whether the file written there can be reached.*)
PathLeads == CASE mount = "none" -> "root" [] mount = "live" -> "stick" [] OTHER -> "nowhere"
TempReached == temp = PathLeads

-----------------------------------------------------------------------------
(* The thread of a recording.                                              *)
Thread(at) == thread = at
Goes(to) == thread' = to

(* What can fail before the file is opened.                                *)
PrepareFails ==
  /\ Thread("init")
  /\ Goes("done")
  /\ UNCHANGED <<serviceVars, fileVars, stickVars, uiVars, historyVars>>

(* avi_file_open() closes the file itself where the header fails.        *)
OpenFile ==
  /\ Thread("init") /\ PathLeads # "nowhere"
  /\ temp' = PathLeads
  /\ \/ file_open' = TRUE /\ Goes("opened")
     \/ Goes("done") /\ UNCHANGED file_open
  /\ UNCHANGED <<serviceVars, frames, saved, whole, final, stickVars, uiVars, historyVars>>

ActiveState_Always == "active" \* mutant
ActiveState == IF stop_requested THEN "stopping" ELSE "active"
SetActive ==
  /\ Thread("opened")
  /\ state' = ActiveState
  /\ Goes("loop")
  /\ UNCHANGED <<stop_requested, completion_pending, completion, thread_joinable,
                 fileVars, stickVars, uiVars, historyVars>>

RecordFrame ==
  /\ Thread("loop") /\ ~stop_requested /\ frames < MaxFrames
  /\ frames' = frames + 1
  /\ UNCHANGED <<thread, saved, file_open, temp, whole, final,
                 serviceVars, stickVars, uiVars, historyVars>>

RecordFails ==
  /\ Thread("loop") /\ ~stop_requested /\ frames < MaxFrames
  /\ Goes("done")
  /\ UNCHANGED <<serviceVars, fileVars, stickVars, uiVars, historyVars>>

(* Stopped, as long as it may be, or too large for the file or the stick.  *)
LoopEnds_Filled == frames > 0 \* mutant: a stop is heard after a frame only
LoopEnds == stop_requested \/ frames > 0
LeaveLoop ==
  /\ Thread("loop") /\ LoopEnds
  /\ Goes("closing")
  /\ UNCHANGED <<serviceVars, fileVars, stickVars, uiVars, historyVars>>

(* avi_writer_finish() syncs the file, which needs the stick.              *)
CanFinish_Anything == temp # "stick" \/ mount = "live" \* mutant: a file of no frames
CanFinish == frames > 0 /\ (temp = "stick" => mount = "live")
FinishFile ==
  /\ Thread("closing") /\ CanFinish
  /\ whole' = (frames > 0) /\ file_open' = FALSE
  /\ Goes("closed")
  /\ UNCHANGED <<serviceVars, frames, saved, temp, final, stickVars, uiVars, historyVars>>

FinishFails ==
  /\ Thread("closing")
  /\ Goes("done") /\ file_open' \in {TRUE, FALSE}
  /\ UNCHANGED <<serviceVars, frames, saved, temp, whole, final, stickVars, uiVars, historyVars>>

(* No directory is synced: on a stick the new name is in the cache, also on*)
(* one that has just been pulled.                                          *)
RenameFile ==
  /\ Thread("closed")
  /\ IF mount = "none" THEN temp = "root" ELSE temp = "stick"
  /\ LET place == CASE mount = "none" -> "root" [] mount = "live" -> "cached" [] OTHER -> "lost"
     IN  final' = [final EXCEPT ![started] = [at |-> place, whole |-> whole]]
  /\ temp' = "none" /\ saved' = TRUE
  /\ Goes("done")
  /\ UNCHANGED <<serviceVars, frames, file_open, whole, stickVars, uiVars, historyVars>>

RenameFails ==
  /\ Thread("closed")
  /\ Goes("done")
  /\ UNCHANGED <<serviceVars, fileVars, stickVars, uiVars, historyVars>>

(* The writer is closed, and what was not saved is removed if it is there. *)
Removed == ~saved /\ TempReached
CleanUp ==
  /\ Thread("done")
  /\ file_open' = FALSE
  /\ temp' = IF Removed THEN "none" ELSE temp
  /\ Goes("cleaned")
  /\ UNCHANGED <<serviceVars, frames, saved, whole, final, stickVars, uiVars, historyVars>>

Complete ==
  /\ Thread("cleaned")
  /\ state' = "idle"
  /\ completion' = IF saved THEN "saved" ELSE "failed"
  /\ completion_pending' = TRUE
  /\ Goes("exited")
  /\ UNCHANGED <<stop_requested, thread_joinable, fileVars, stickVars, uiVars, historyVars>>

Work ==
  \/ PrepareFails \/ OpenFile \/ SetActive \/ RecordFrame \/ RecordFails \/ LeaveLoop
  \/ FinishFile \/ FinishFails \/ RenameFile \/ RenameFails \/ CleanUp \/ Complete

-----------------------------------------------------------------------------
(* The main loop.                                                          *)

(* The click reads the state, and asks for the stop in a second step.      *)
Click ==
  /\ loop = "free" /\ shown /\ button # "stopping"
  /\ \/ state = "idle" /\ dialog' = TRUE /\ UNCHANGED loop
     \/ state \in {"starting", "active"} /\ loop' = "clicked" /\ UNCHANGED dialog
  /\ UNCHANGED <<serviceVars, threadVars, stickVars, seen, button, shown, enabled, historyVars>>

RequestStop ==
  /\ loop = "clicked"
  /\ IF state \in {"starting", "active"}
       THEN state' = "stopping" /\ stop_requested' = TRUE
       ELSE UNCHANGED <<state, stop_requested>>
  /\ button' = "stopping" /\ loop' = "free"
  /\ UNCHANGED <<completion_pending, completion, thread_joinable, threadVars, stickVars,
                 seen, dialog, shown, enabled, historyVars>>

Cancel ==
  /\ loop = "free" /\ dialog
  /\ dialog' = FALSE
  /\ UNCHANGED <<serviceVars, threadVars, stickVars, loop, seen, button, shown, enabled,
                 historyVars>>

Free_Idle == state = "idle" \* mutant
Free == state = "idle" /\ ~thread_joinable /\ ~completion_pending

Begin ==
  /\ state' = "starting" /\ stop_requested' = FALSE /\ thread_joinable' = TRUE
  /\ thread' = "init" /\ frames' = 0 /\ saved' = FALSE /\ file_open' = FALSE
  /\ temp' = "none" /\ whole' = FALSE
  /\ button' = "starting"
  /\ started' = started + 1
  /\ UNCHANGED <<completion_pending, completion, final>>

DontBegin == UNCHANGED <<serviceVars, threadVars, button, started>>

(* A rate is chosen: the stick is made ready; it may be full, and there    *)
(* may be no thread.                                                       *)
SelectRate ==
  /\ loop = "free" /\ dialog
  /\ dialog' = FALSE
  /\ IF Free /\ plugged
       THEN \E outcome \in MountOutcomes :
              /\ mount' = outcome[1]
              /\ \/ outcome[2] /\ started < MaxRecordings /\ Begin
                 \/ DontBegin
       ELSE DontBegin /\ UNCHANGED mount
  /\ UNCHANGED <<plugged, pulled, loop, seen, shown, enabled, reports>>

(* ui_screen_recording_indicator_poll() reads the state, then asks whether *)
(* a recording is over, and reads it again if one is.                      *)
PollState ==
  /\ loop = "free"
  /\ seen' = state /\ loop' = "polled"
  /\ UNCHANGED <<serviceVars, threadVars, stickVars, dialog, button, shown, enabled, historyVars>>

Apply(current) ==
  IF ~enabled /\ current = "idle"
    THEN dialog' = FALSE /\ shown' = FALSE /\ UNCHANGED button
    ELSE shown' = TRUE /\ button' = current /\ UNCHANGED dialog

(* pthread_join() waits for the little that is left of the thread.         *)
PollCompletion ==
  /\ loop = "polled"
  /\ IF completion_pending
       THEN /\ reports' = Append(reports, completion)
            /\ completion_pending' = FALSE /\ thread_joinable' = FALSE
            /\ thread' = IF thread_joinable THEN "none" ELSE thread
            /\ Apply(state)
       ELSE /\ Apply(seen)
            /\ UNCHANGED <<reports, completion_pending, thread_joinable, thread>>
  /\ loop' = "free"
  /\ UNCHANGED <<state, stop_requested, completion, fileVars, stickVars, seen, enabled, started>>

Configure ==
  /\ loop = "free"
  /\ enabled' = ~enabled
  /\ UNCHANGED <<serviceVars, threadVars, stickVars, loop, seen, dialog, button, shown,
                 historyVars>>

Poll == PollState \/ PollCompletion
Next ==
  \/ Work \/ Poll \/ RequestStop \/ Click \/ Cancel \/ SelectRate \/ Configure
  \/ StickPrepared \/ StickGone \/ Pull \/ Plug

(* The thread runs, with a stop request heard at the next frame; the main  *)
(* loop polls between two events.                                          *)
Spec == Init /\ [][Next]_vars /\ WF_vars(Work) /\ WF_vars(RequestStop) /\ SF_vars(PollState)
        /\ WF_vars(PollCompletion)

-----------------------------------------------------------------------------
Running == thread \notin {"none", "exited"}

(* The kinds of the variables.                                             *)
TypeOK ==
  /\ state \in States /\ seen \in States /\ button \in States
  /\ stop_requested \in BOOLEAN /\ completion_pending \in BOOLEAN
  /\ thread_joinable \in BOOLEAN /\ saved \in BOOLEAN /\ file_open \in BOOLEAN
  /\ whole \in BOOLEAN /\ plugged \in BOOLEAN /\ pulled \in 0..MaxRecordings
  /\ dialog \in BOOLEAN /\ shown \in BOOLEAN /\ enabled \in BOOLEAN
  /\ completion \in {"none", "saved", "failed"}
  /\ thread \in {"none", "init", "opened", "loop", "closing", "closed", "done", "cleaned",
                 "exited"}
  /\ frames \in 0..MaxFrames /\ temp \in {"none", "stick", "root"}
  /\ final \in [Recordings -> [at : Places, whole : BOOLEAN]]
  /\ mount \in {"none", "live", "dead", "stale"}
  /\ loop \in {"free", "clicked", "polled"}
  /\ started \in 0..MaxRecordings /\ reports \in Seq({"saved", "failed"})

(* The state tells whether a thread is at work, and whether it was asked   *)
(* to stop: the button never offers to start while one runs, and a request *)
(* made while it was still starting is not forgotten when it is ready.     *)
StateTrue ==
  /\ TypeOK
  /\ state # "idle" <=> Running
  /\ Running => (state = "stopping" <=> stop_requested)

(* Every recording that began is reported to the user exactly once, and    *)
(* none begins before the one before it was: no thread is left unjoined.   *)
EachReported ==
  /\ started = Len(reports) + (IF thread_joinable THEN 1 ELSE 0)
  /\ thread_joinable <=> thread # "none"
  /\ completion_pending <=> thread = "exited"

(* Told it was saved means the file is whole and was renamed, told it      *)
(* failed that there is none.  Unless the stick was pulled after the       *)
(* recording began, one that was saved is on the stick under its name or   *)
(* about to get it, and one that failed leaves nothing behind; after a pull*)
(* it may be on the disk of the panel instead, or never get the name       *)
(* (screen_recording_service.c:629-649).                                   *)
PulledSince(r) == r <= pulled
SavedTrue ==
  /\ \A r \in 1..Len(reports) :
       IF reports[r] = "saved" THEN final[r].at # "none" /\ final[r].whole
       ELSE final[r].at = "none"
  /\ \A r \in 1..started : final[r].at \in {"root", "lost"} => PulledSince(r)
  /\ ~Running /\ temp # "none" => PulledSince(started)

(* A recording that was asked to stop ends, the user is told so, and the   *)
(* button takes clicks again, even where the recording ended by itself     *)
(* between the click and the request.                                      *)
StopEnds ==
  (state = "stopping" \/ button = "stopping") ~>
    (state = "idle" /\ ~completion_pending /\ (button # "stopping" \/ ~enabled))

=============================================================================
