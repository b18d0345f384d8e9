---------------------------- MODULE StorageProofs ---------------------------
(***************************************************************************)
(* Proofs about the two components that keep files.  ScreenRecording, for  *)
(* any length and number of recordings: the state says what the thread     *)
(* does, every recording is reported once, before the next one begins, and *)
(* what is reported of its file is so.  HistoryStore, for any number of    *)
(* records, sessions, edits and faults: whatever a restart finds can be    *)
(* loaded, the panel agrees with it, and each session is counted once.     *)
(***************************************************************************)
EXTENDS ScreenRecording, HistoryStore, FiniteSetTheorems, SequenceTheorems,
        WellFoundedInduction, TLAPS

(* The two properties need each other: a recording begins where the state  *)
(* is idle and nothing is left to join, which means there is no thread.    *)
(* What is told to the user was set when the thread ended.                 *)
ThreadAgrees ==
  /\ state # "idle" <=> Running
  /\ Running => (state = "stopping" <=> stop_requested)
  /\ EachReported
  /\ completion_pending => completion # "none"

(* The types, by the part of the system the variables belong to.           *)
ServiceTyped ==
  /\ state \in States /\ stop_requested \in BOOLEAN
  /\ completion_pending \in BOOLEAN /\ thread_joinable \in BOOLEAN
  /\ completion \in {"none", "saved", "failed"}
ThreadTyped ==
  thread \in {"none", "init", "opened", "loop", "closing", "closed", "done", "cleaned", "exited"}
FileTyped ==
  /\ frames \in 0 .. MaxFrames /\ saved \in BOOLEAN /\ file_open \in BOOLEAN
  /\ temp \in {"none", "stick", "root"} /\ whole \in BOOLEAN
  /\ final \in [Recordings -> [at : Places, whole : BOOLEAN]]
StickTyped ==
  plugged \in BOOLEAN /\ pulled \in 0 .. MaxRecordings /\ mount \in {"none", "live", "dead", "stale"}
DisplayTyped ==
  /\ loop \in {"free", "clicked", "polled"} /\ seen \in States /\ button \in States
  /\ dialog \in BOOLEAN /\ shown \in BOOLEAN /\ enabled \in BOOLEAN
HistoryTyped == started \in 0 .. MaxRecordings /\ reports \in Seq({"saved", "failed"})
Typed ==
  ServiceTyped /\ ThreadTyped /\ FileTyped /\ StickTyped /\ DisplayTyped /\ HistoryTyped

LEMMA TypedParts == Typed <=> TypeOK
  BY Zenon
  DEF Typed, ServiceTyped, ThreadTyped, FileTyped, StickTyped, DisplayTyped, HistoryTyped, TypeOK

LEMMA KeepsTypes ==
  /\ ServiceTyped /\ UNCHANGED serviceVars => ServiceTyped'
  /\ ThreadTyped /\ UNCHANGED thread => ThreadTyped'
  /\ FileTyped /\ UNCHANGED fileVars => FileTyped'
  /\ StickTyped /\ UNCHANGED stickVars => StickTyped'
  /\ DisplayTyped /\ UNCHANGED uiVars => DisplayTyped'
  /\ HistoryTyped /\ UNCHANGED historyVars => HistoryTyped'
  BY DEF ServiceTyped, ThreadTyped, FileTyped, StickTyped, DisplayTyped, HistoryTyped,
         serviceVars, fileVars, stickVars, uiVars, historyVars

RecordingInv == Typed /\ ThreadAgrees

LEMMA RecordingInit == Init => RecordingInv
PROOF
  <1> SUFFICES ASSUME Init PROVE RecordingInv
    OBVIOUS
  <1>1. ServiceTyped /\ ThreadTyped /\ StickTyped
    <2>1. pulled \in 0 .. MaxRecordings
      BY RecordingAssumption DEF Init
    <2> QED
      BY <2>1 DEF Init, ServiceTyped, ThreadTyped, StickTyped, States
  <1>2. DisplayTyped
    BY DEF Init, DisplayTyped, States
  <1>3. FileTyped
    <2>1. Nothing \in [at : Places, whole : BOOLEAN]
      BY DEF Nothing, Places
    <2>2. frames \in 0 .. MaxFrames
      BY RecordingAssumption DEF Init
    <2>3. final \in [Recordings -> [at : Places, whole : BOOLEAN]]
      BY <2>1 DEF Init
    <2>4. saved \in BOOLEAN /\ file_open \in BOOLEAN /\ whole \in BOOLEAN
      BY DEF Init
    <2>5. temp \in {"none", "stick", "root"}
      BY DEF Init
    <2> QED
      BY <2>2, <2>3, <2>4, <2>5 DEF FileTyped
  <1>4. HistoryTyped
    BY RecordingAssumption DEF Init, HistoryTyped
  <1>5. ThreadAgrees
    BY DEF Init, ThreadAgrees, EachReported, Running
  <1> QED
    BY <1>1, <1>2, <1>3, <1>4, <1>5 DEF RecordingInv, Typed

(* Steps of the user, of the stick and of the display, and of the thread   *)
(* while it is at work, leave the agreement as it is.                      *)
LEMMA Unmoved ==
  ASSUME ThreadAgrees, UNCHANGED <<serviceVars, historyVars>>,
         UNCHANGED thread \/ (Running /\ Running')
  PROVE  ThreadAgrees'
  BY DEF ThreadAgrees, EachReported, Running, serviceVars, historyVars

LEMMA MountsKnown ==
  ASSUME StickTyped, NEW outcome \in MountOutcomes
  PROVE  outcome[1] \in {"none", "live", "dead", "stale"}
PROOF
  <1>1. CASE mount \in {"live", "stale"}
    <2>1. MountOutcomes = {<<mount, TRUE>>}
      BY <1>1 DEF MountOutcomes
    <2> QED
      BY <1>1, <2>1
  <1>2. CASE mount = "dead" /\ Busy
    <2>1. MountOutcomes = {<<"dead", FALSE>>}
      BY <1>2, Zenon DEF MountOutcomes
    <2> QED
      BY <2>1
  <1>3. CASE mount \notin {"live", "stale"} /\ ~(mount = "dead" /\ Busy)
    <2>1. MountOutcomes = {<<"live", TRUE>>, <<"none", FALSE>>}
      BY <1>3 DEF MountOutcomes
    <2>2. CASE outcome = <<"live", TRUE>>
      BY <2>2
    <2>3. CASE outcome = <<"none", FALSE>>
      BY <2>3
    <2> QED
      BY <2>1, <2>2, <2>3, Zenon
  <1> QED
    BY <1>1, <1>2, <1>3

-----------------------------------------------------------------------------
(* The thread.                                                             *)
LEMMA WorkTyped ==
  ASSUME Typed, Work
  PROVE  Typed'
PROOF
  <1> USE DEF Typed, Thread, Goes
  <1>1. CASE PrepareFails \/ RecordFails \/ LeaveLoop \/ RenameFails
    BY <1>1, KeepsTypes DEF PrepareFails, RecordFails, LeaveLoop, RenameFails, ThreadTyped
  <1>2. CASE OpenFile
    <2>1. ThreadTyped'
      BY <1>2 DEF OpenFile, ThreadTyped
    <2>2. FileTyped'
      BY <1>2 DEF OpenFile, PathLeads, FileTyped
    <2> QED
      BY <1>2, <2>1, <2>2, KeepsTypes DEF OpenFile
  <1>3. CASE SetActive
    <2>1. ThreadTyped'
      BY <1>3 DEF SetActive, ThreadTyped
    <2>2. ServiceTyped'
      BY <1>3 DEF SetActive, ActiveState, ServiceTyped, States
    <2> QED
      BY <1>3, <2>1, <2>2, KeepsTypes DEF SetActive
  <1>4. CASE RecordFrame
    <2>1. frames' \in 0 .. MaxFrames
      BY <1>4, RecordingAssumption DEF RecordFrame, FileTyped
    <2>2. FileTyped'
      BY <1>4, <2>1 DEF RecordFrame, FileTyped
    <2> QED
      BY <1>4, <2>2, KeepsTypes DEF RecordFrame
  <1>5. CASE FinishFile
    <2>1. ThreadTyped'
      BY <1>5 DEF FinishFile, ThreadTyped
    <2>2. FileTyped'
      <3>1. whole' \in BOOLEAN
        <4>1. whole' = (frames > 0)
          BY <1>5 DEF FinishFile
        <4>2. whole' = TRUE \/ whole' = FALSE
          BY <4>1
        <4> QED
          BY <4>2
      <3>2. file_open' \in BOOLEAN /\ UNCHANGED <<frames, saved, temp, final>>
        BY <1>5 DEF FinishFile
      <3> QED
        BY <3>1, <3>2 DEF FileTyped
    <2> QED
      BY <1>5, <2>1, <2>2, KeepsTypes DEF FinishFile
  <1>6. CASE FinishFails
    <2>1. ThreadTyped'
      BY <1>6 DEF FinishFails, ThreadTyped
    <2>2. FileTyped'
      BY <1>6 DEF FinishFails, FileTyped
    <2> QED
      BY <1>6, <2>1, <2>2, KeepsTypes DEF FinishFails
  <1>7. CASE RenameFile
    <2>1. ThreadTyped'
      BY <1>7 DEF RenameFile, ThreadTyped
    <2>2. \E place \in Places :
            /\ [at |-> place, whole |-> whole] \in [at : Places, whole : BOOLEAN]
            /\ final' = [final EXCEPT ![started] = [at |-> place, whole |-> whole]]
      BY <1>7 DEF RenameFile, FileTyped, Places
    <2>3. final' \in [Recordings -> [at : Places, whole : BOOLEAN]]
      BY <1>7, <2>2 DEF RenameFile, FileTyped
    <2>4. FileTyped'
      BY <1>7, <2>3 DEF RenameFile, FileTyped
    <2> QED
      BY <1>7, <2>1, <2>4, KeepsTypes DEF RenameFile
  <1>8. CASE CleanUp
    <2>1. ThreadTyped'
      BY <1>8 DEF CleanUp, ThreadTyped
    <2>2. FileTyped'
      BY <1>8 DEF CleanUp, FileTyped
    <2> QED
      BY <1>8, <2>1, <2>2, KeepsTypes DEF CleanUp
  <1>9. CASE Complete
    <2>1. ThreadTyped'
      BY <1>9 DEF Complete, ThreadTyped
    <2>2. ServiceTyped'
      BY <1>9 DEF Complete, ServiceTyped, States
    <2> QED
      BY <1>9, <2>1, <2>2, KeepsTypes DEF Complete
  <1> QED
    BY <1>1, <1>2, <1>3, <1>4, <1>5, <1>6, <1>7, <1>8, <1>9, Zenon DEF Work

LEMMA WorkAgrees ==
  ASSUME Typed, ThreadAgrees, Work
  PROVE  ThreadAgrees'
PROOF
  <1>1. CASE PrepareFails \/ OpenFile \/ RecordFails \/ LeaveLoop \/ FinishFile \/ FinishFails
             \/ RenameFile \/ RenameFails \/ CleanUp \/ RecordFrame
    BY <1>1, Unmoved
    DEF PrepareFails, OpenFile, RecordFails, LeaveLoop, FinishFile, FinishFails, RenameFile,
        RenameFails, CleanUp, RecordFrame, Running, Thread, Goes
  <1>2. CASE SetActive
    BY <1>2
    DEF SetActive, ActiveState, ThreadAgrees, EachReported, Running, Thread, Goes, historyVars
  <1>3. CASE Complete
    BY <1>3 DEF Complete, ThreadAgrees, EachReported, Running, Thread, Goes, historyVars
  <1> QED
    BY <1>1, <1>2, <1>3, Zenon DEF Work

-----------------------------------------------------------------------------
(* The main loop.                                                          *)

(* A recording begins where no thread is left.                             *)
LEMMA SelectKeepsInv ==
  ASSUME RecordingInv, SelectRate
  PROVE  RecordingInv'
PROOF
  <1> USE DEF RecordingInv, Typed
  <1>1. StickTyped'
    <2>1. mount' = mount \/ \E outcome \in MountOutcomes : mount' = outcome[1]
      BY Zenon DEF SelectRate
    <2>2. mount' \in {"none", "live", "dead", "stale"}
      BY <2>1, MountsKnown DEF StickTyped
    <2>3. plugged' = plugged /\ pulled' = pulled
      BY DEF SelectRate
    <2> QED
      BY <2>2, <2>3 DEF StickTyped
  <1>2. loop' = loop /\ seen' = seen /\ dialog' = FALSE /\ shown' = shown /\ enabled' = enabled
        /\ reports' = reports
    BY DEF SelectRate
  <1>3. CASE DontBegin
    <2>1. DisplayTyped' /\ HistoryTyped'
      BY <1>2, <1>3 DEF DontBegin, DisplayTyped, HistoryTyped
    <2>2. ThreadAgrees'
      BY <1>2, <1>3, Unmoved DEF DontBegin, threadVars, historyVars
    <2> QED
      BY <1>1, <1>3, <2>1, <2>2, KeepsTypes DEF DontBegin, threadVars
  <1>4. CASE Free /\ started < MaxRecordings /\ Begin
    <2>1. thread = "none" /\ ~thread_joinable /\ ~completion_pending
      BY <1>4 DEF Free, ThreadAgrees, EachReported
    <2>2. ServiceTyped' /\ ThreadTyped'
      BY <1>4 DEF Begin, ServiceTyped, ThreadTyped, States
    <2>3. FileTyped'
      <3>1. frames' \in 0 .. MaxFrames
        BY <1>4, RecordingAssumption DEF Begin
      <3> QED
        BY <1>4, <3>1 DEF Begin, FileTyped
    <2>4. DisplayTyped'
      BY <1>2, <1>4 DEF Begin, DisplayTyped, States
    <2>5. HistoryTyped'
      BY <1>2, <1>4, RecordingAssumption DEF Begin, HistoryTyped
    <2>6. ThreadAgrees'
      BY <1>2, <1>4, <2>1 DEF Begin, ThreadAgrees, EachReported, Running, HistoryTyped
    <2> QED
      BY <1>1, <2>2, <2>3, <2>4, <2>5, <2>6
  <1>5. DontBegin \/ (Free /\ started < MaxRecordings /\ Begin)
    BY Zenon DEF SelectRate
  <1> QED
    BY <1>3, <1>4, <1>5

(* A report is made of a thread that has exited, and joins it.             *)
LEMMA ReportKeepsInv ==
  ASSUME RecordingInv, PollCompletion
  PROVE  RecordingInv'
PROOF
  <1> USE DEF RecordingInv, Typed
  <1>1. DisplayTyped'
    BY DEF PollCompletion, Apply, DisplayTyped, ServiceTyped
  <1>2. UNCHANGED <<fileVars, stickVars, state, stop_requested, completion, started>>
    BY DEF PollCompletion
  <1>3. CASE completion_pending
    <2>1. thread = "exited" /\ thread_joinable /\ completion \in {"saved", "failed"}
      BY <1>3 DEF ThreadAgrees, EachReported, ServiceTyped
    <2>2. /\ ~completion_pending' /\ ~thread_joinable' /\ thread' = "none"
          /\ completion_pending' \in BOOLEAN /\ thread_joinable' \in BOOLEAN
          /\ reports' = Append(reports, completion)
      BY <1>3, <2>1 DEF PollCompletion
    <2>3. reports' \in Seq({"saved", "failed"}) /\ Len(reports') = Len(reports) + 1
      BY <2>1, <2>2 DEF HistoryTyped
    <2>4. ServiceTyped' /\ ThreadTyped' /\ HistoryTyped'
      BY <1>2, <2>2, <2>3 DEF ServiceTyped, ThreadTyped, HistoryTyped
    <2>5. ThreadAgrees'
      BY <1>2, <2>1, <2>2, <2>3 DEF ThreadAgrees, EachReported, Running, HistoryTyped
    <2> QED
      BY <1>1, <1>2, <2>4, <2>5, KeepsTypes
  <1>4. CASE ~completion_pending
    <2>1. UNCHANGED <<serviceVars, thread, historyVars>>
      BY <1>2, <1>4 DEF PollCompletion, serviceVars, historyVars
    <2> QED
      BY <1>1, <1>2, <2>1, KeepsTypes, Unmoved
  <1> QED
    BY <1>3, <1>4

LEMMA RequestStopKeepsInv ==
  ASSUME RecordingInv, RequestStop
  PROVE  RecordingInv'
PROOF
  <1> USE DEF RecordingInv, Typed
  <1>1. ServiceTyped' /\ DisplayTyped'
    BY DEF RequestStop, ServiceTyped, DisplayTyped, States
  <1>2. ThreadAgrees'
    BY DEF RequestStop, ThreadAgrees, EachReported, Running, threadVars, historyVars
  <1> QED
    BY <1>1, <1>2, KeepsTypes DEF RequestStop, threadVars

(* A pull settles where the renamed recordings are, and moves no other.    *)
LEMMA PullSettles ==
  ASSUME FileTyped, Pull
  PROVE  /\ final' \in [Recordings -> [at : Places, whole : BOOLEAN]]
         /\ \A r \in Recordings :
              /\ final'[r].whole = final[r].whole
              /\ (final'[r].at = "none") <=> (final[r].at = "none")
              /\ final'[r].at = "root" => final[r].at = "root"
PROOF
  <1>1. PICK written \in SUBSET Recordings : final' = Settled(written)
    BY DEF Pull
  <1> DEFINE settled(r) ==
        [at |-> IF r \in written THEN "stick" ELSE "lost", whole |-> final[r].whole]
  <1>2. ASSUME NEW r \in Recordings
        PROVE  /\ final[r] \in [at : Places, whole : BOOLEAN]
               /\ settled(r) \in [at : Places, whole : BOOLEAN]
               /\ final'[r] = IF final[r].at # "cached" THEN final[r] ELSE settled(r)
               /\ settled(r).whole = final[r].whole /\ settled(r).at \in {"stick", "lost"}
    BY <1>1, <1>2 DEF FileTyped, Settled, Places
  <1>3. final' \in [Recordings -> [at : Places, whole : BOOLEAN]]
    <2>1. \A r \in Recordings : final'[r] \in [at : Places, whole : BOOLEAN]
      BY <1>2
    <2>2. final' = [r \in Recordings |-> final'[r]]
      BY <1>1 DEF Settled
    <2> QED
      BY <2>1, <2>2
  <1>4. ASSUME NEW r \in Recordings
        PROVE  /\ final'[r].whole = final[r].whole
               /\ (final'[r].at = "none") <=> (final[r].at = "none")
               /\ final'[r].at = "root" => final[r].at = "root"
    <2> HIDE DEF settled
    <2>1. CASE final[r].at # "cached"
      BY <1>2, <2>1
    <2>2. CASE final[r].at = "cached"
      BY <1>2, <2>2
    <2> QED
      BY <2>1, <2>2
  <1> QED
    BY <1>3, <1>4

LEMMA RecordingStep == RecordingInv /\ [Next]_vars => RecordingInv'
PROOF
  <1> SUFFICES ASSUME RecordingInv, [Next]_vars
               PROVE  RecordingInv'
    OBVIOUS
  <1> USE DEF RecordingInv, Typed
  <1>1. CASE Work
    BY <1>1, WorkTyped, WorkAgrees
  <1>2. CASE PollState \/ Click \/ Cancel \/ Configure
    <2>1. DisplayTyped'
      BY <1>2 DEF PollState, Click, Cancel, Configure, DisplayTyped, ServiceTyped
    <2>2. UNCHANGED <<serviceVars, threadVars, stickVars, historyVars>>
      BY <1>2 DEF PollState, Click, Cancel, Configure
    <2> QED
      BY <2>1, <2>2, KeepsTypes, Unmoved DEF threadVars
  <1>3. CASE StickPrepared \/ StickGone \/ Plug
    <2>1. StickTyped'
      BY <1>3, MountsKnown DEF StickPrepared, StickGone, Plug, StickTyped
    <2>2. UNCHANGED <<serviceVars, threadVars, uiVars, historyVars>>
      BY <1>3 DEF StickPrepared, StickGone, Plug
    <2> QED
      BY <2>1, <2>2, KeepsTypes, Unmoved DEF threadVars
  <1>3a. CASE Pull
    <2>1. StickTyped'
      <3>1. plugged' = FALSE /\ pulled' = started /\ mount' \in {"none", "dead"}
        BY <1>3a DEF Pull
      <3> QED
        BY <3>1 DEF StickTyped, HistoryTyped
    <2>2. UNCHANGED <<serviceVars, thread, frames, saved, file_open, temp, whole, uiVars,
                      historyVars>>
      BY <1>3a DEF Pull
    <2>3. FileTyped'
      BY <1>3a, <2>2, PullSettles DEF FileTyped
    <2> QED
      BY <2>1, <2>2, <2>3, KeepsTypes, Unmoved
  <1>4. CASE UNCHANGED vars
    BY <1>4, KeepsTypes, Unmoved DEF vars, threadVars
  <1> QED
    BY <1>1, <1>2, <1>3, <1>3a, <1>4, SelectKeepsInv, ReportKeepsInv, RequestStopKeepsInv,
       Zenon
    DEF Next, Poll

LEMMA RecordingAlways == Spec => []RecordingInv
  BY RecordingInit, RecordingStep, PTL DEF Spec

(* For any number of recordings of any length, the state is idle exactly   *)
(* where no thread is at work, and a request to stop one that is still     *)
(* starting is not forgotten (screen_recording_service.c:456-465, 729-738).*)
THEOREM RecordingState == Spec => []StateTrue
PROOF
  <1>1. RecordingInv => StateTrue
    BY TypedParts DEF RecordingInv, ThreadAgrees, StateTrue
  <1> QED
    BY <1>1, RecordingAlways, PTL

(* For any number of recordings, each is reported once, and none begins    *)
(* before the one before it was reported and its thread joined             *)
(* (screen_recording_service.c:681-727, 750-776).                          *)
THEOREM RecordingReports == Spec => []EachReported
PROOF
  <1>1. RecordingInv => EachReported
    BY DEF RecordingInv, ThreadAgrees
  <1> QED
    BY <1>1, RecordingAlways, PTL

-----------------------------------------------------------------------------
(* The file of a recording.                                                *)
Playable(r) == final[r].at # "none" /\ final[r].whole
Missing(r) == final[r].at = "none"

(* What was told of the files, and what will be told of the latest.        *)
FilesTold ==
  /\ \A r \in 1 .. Len(reports) : IF reports[r] = "saved" THEN Playable(r) ELSE Missing(r)
  /\ \A r \in Recordings : r > started => Missing(r)
  /\ thread # "none" => IF saved THEN Playable(started) ELSE Missing(started)
  /\ thread = "exited" => completion = IF saved THEN "saved" ELSE "failed"

(* Nothing is saved before the file is whole, and none is left unsaved.    *)
FileAgrees ==
  /\ thread \in {"init", "opened", "loop", "closing", "closed"} => ~saved
  /\ thread = "closed" => whole
  /\ saved => temp = "none"

(* While nobody pulled the stick it stays mounted, and the files on it.    *)
StickAgrees ==
  /\ started > pulled =>
       /\ plugged /\ mount \in {"live", "stale"}
       /\ temp # "none" => temp = "stick" /\ mount = "live"
  /\ \A r \in 1 .. started : final[r].at \in {"root", "lost"} => r <= pulled
  /\ ~Running \/ thread = "cleaned" => temp = "none" \/ started <= pulled

SavedInv == FilesTold /\ FileAgrees /\ StickAgrees

(* The recording in hand is the latest, and not reported yet.              *)
LEMMA LatestIsNext ==
  ASSUME RecordingInv
  PROVE  /\ Len(reports) \in Nat /\ started \in Nat /\ started <= MaxRecordings
         /\ \A r \in 1 .. Len(reports) : r \in Recordings /\ reports[r] \in {"saved", "failed"}
         /\ thread # "none" => started = Len(reports) + 1 /\ started \in Recordings
         /\ thread = "none" => started = Len(reports)
PROOF
  <1>1. /\ Len(reports) \in Nat /\ started \in 0 .. MaxRecordings
        /\ \A r \in 1 .. Len(reports) : reports[r] \in {"saved", "failed"}
    BY DEF RecordingInv, Typed, HistoryTyped
  <1>2. /\ thread # "none" => started = Len(reports) + 1
        /\ thread = "none" => started = Len(reports)
    BY <1>1 DEF RecordingInv, ThreadAgrees, EachReported
  <1> QED
    BY <1>1, <1>2, RecordingAssumption DEF Recordings

LEMMA PulledIsNat == RecordingInv => pulled \in Nat
  BY RecordingAssumption DEF RecordingInv, Typed, StickTyped

(* Steps that leave the files, the reports and the thread alone.           *)
LEMMA SameFiles ==
  ASSUME SavedInv,
         UNCHANGED <<thread, frames, saved, file_open, temp, whole, final, started, reports,
                     completion>>
  PROVE  FilesTold' /\ FileAgrees'
  BY DEF SavedInv, FilesTold, FileAgrees, Playable, Missing

LEMMA SameStick ==
  ASSUME SavedInv, UNCHANGED <<thread, temp, final, started, plugged, mount, pulled>>
  PROVE  StickAgrees'
  BY DEF SavedInv, StickAgrees, Running

(* The stick: a mount that is good is kept, until the stick is pulled.     *)
LEMMA MountKept ==
  ASSUME NEW outcome \in MountOutcomes, mount \in {"live", "stale"}
  PROVE  outcome[1] = mount
PROOF
  <1>1. MountOutcomes = {<<mount, TRUE>>}
    BY DEF MountOutcomes
  <1> QED
    BY <1>1

LEMMA UsableMount ==
  ASSUME NEW outcome \in MountOutcomes, outcome[2]
  PROVE  outcome[1] \in {"live", "stale"}
PROOF
  <1>1. CASE mount \in {"live", "stale"}
    BY <1>1, MountKept
  <1>2. CASE mount = "dead" /\ Busy
    <2>1. MountOutcomes = {<<"dead", FALSE>>}
      BY <1>2, Zenon DEF MountOutcomes
    <2>2. outcome = <<"dead", FALSE>>
      BY <2>1
    <2>3. outcome[2] = FALSE
      BY <2>2
    <2> QED
      BY <2>3, Zenon
  <1>3. CASE mount \notin {"live", "stale"} /\ ~(mount = "dead" /\ Busy)
    <2>1. MountOutcomes = {<<"live", TRUE>>, <<"none", FALSE>>}
      BY <1>3 DEF MountOutcomes
    <2>2. CASE outcome = <<"live", TRUE>>
      BY <2>2
    <2>3. CASE outcome = <<"none", FALSE>>
      <3>1. outcome[2] = FALSE
        BY <2>3
      <3> QED
        BY <3>1, Zenon
    <2> QED
      BY <2>1, <2>2, <2>3, Zenon
  <1> QED
    BY <1>1, <1>2, <1>3

LEMMA StickSteps ==
  ASSUME RecordingInv, SavedInv, StickPrepared \/ StickGone \/ Plug
  PROVE  SavedInv'
PROOF
  <1>1. UNCHANGED <<thread, frames, saved, file_open, temp, whole, final, started, reports,
                    completion>>
    BY DEF StickPrepared, StickGone, Plug, threadVars, fileVars, historyVars, serviceVars
  <1>2. FilesTold' /\ FileAgrees'
    BY <1>1, SameFiles
  <1>3. StickAgrees'
    <2>1. CASE StickPrepared
      <3>1. PICK outcome \in MountOutcomes : mount' = outcome[1]
        BY <2>1 DEF StickPrepared
      <3>2. mount \in {"live", "stale"} => mount' = mount
        BY <3>1, MountKept
      <3> QED
        BY <1>1, <2>1, <3>2 DEF StickPrepared, SavedInv, StickAgrees, Running
    <2>2. CASE StickGone
      BY <1>1, <2>2 DEF StickGone, SavedInv, StickAgrees, Running
    <2>3. CASE Plug
      BY <1>1, <2>3 DEF Plug, SavedInv, StickAgrees, Running
    <2> QED
      BY <2>1, <2>2, <2>3
  <1> QED
    BY <1>2, <1>3 DEF SavedInv

(* A pull may cost a recording its name, not its mention in the directory. *)
LEMMA PullSaved ==
  ASSUME RecordingInv, SavedInv, Pull
  PROVE  SavedInv'
PROOF
  <1>1. /\ UNCHANGED <<thread, saved, temp, whole, started, reports, completion>>
        /\ pulled' = started
    BY DEF Pull, historyVars, serviceVars
  <1>2. \A r \in Recordings : /\ final'[r].whole = final[r].whole
                              /\ (final'[r].at = "none") <=> (final[r].at = "none")
    BY PullSettles DEF RecordingInv, Typed
  <1>3. /\ started \in Nat
        /\ \A r \in 1 .. Len(reports) : r \in Recordings
        /\ thread # "none" => started \in Recordings
    BY LatestIsNext
  <1>4. FilesTold'
    <2>1. \A r \in Recordings : (Playable(r) => Playable(r)') /\ (Missing(r) => Missing(r)')
      <3> TAKE r \in Recordings
      <3>1. /\ final'[r].whole = final[r].whole
            /\ (final'[r].at = "none") <=> (final[r].at = "none")
        BY <1>2
      <3> QED
        BY <3>1, Zenon DEF Playable, Missing
    <2>2. \A r \in 1 .. Len(reports) : IF reports[r] = "saved" THEN Playable(r)' ELSE Missing(r)'
      <3> TAKE r \in 1 .. Len(reports)
      <3>1. IF reports[r] = "saved" THEN Playable(r) ELSE Missing(r)
        BY DEF SavedInv, FilesTold
      <3>2. r \in Recordings
        BY <1>3
      <3> QED
        BY <2>1, <3>1, <3>2, Zenon
    <2>3. \A r \in Recordings : r > started => Missing(r)'
      BY <2>1 DEF SavedInv, FilesTold
    <2>4. thread # "none" => IF saved THEN Playable(started)' ELSE Missing(started)'
      <3>1. thread # "none" => IF saved THEN Playable(started) ELSE Missing(started)
        BY Zenon DEF SavedInv, FilesTold
      <3>2. CASE thread = "none"
        BY <3>2
      <3>3. CASE thread # "none"
        <4>1. started' = started /\ started \in Recordings
          BY <1>1, <1>3, <3>3
        <4>2. /\ final'[started].whole = final[started].whole
              /\ (final'[started].at = "none") <=> (final[started].at = "none")
          BY <1>2, <4>1
        <4> QED
          BY <3>1, <3>3, <4>1, <4>2 DEF Playable, Missing
      <3> QED
        BY <3>2, <3>3
    <2>5. thread = "exited" => completion = IF saved THEN "saved" ELSE "failed"
      BY DEF SavedInv, FilesTold
    <2> QED
      BY <1>1, <2>2, <2>3, <2>4, <2>5 DEF FilesTold, Playable, Missing
  <1>5. FileAgrees'
    BY <1>1 DEF SavedInv, FileAgrees
  <1>6. StickAgrees'
    BY <1>1, <1>3 DEF StickAgrees
  <1> QED
    BY <1>4, <1>5, <1>6 DEF SavedInv

(* The thread moves on, and changes no file.                               *)
LEMMA ThreadMoves ==
  ASSUME SavedInv, Running, thread' \in {"opened", "loop", "closing", "done"},
         thread \in {"init", "opened", "loop", "closing"} \/ thread' = "done",
         UNCHANGED <<saved, temp, final, started, reports, completion, stickVars>>
  PROVE  SavedInv'
PROOF
  <1>1. FilesTold'
    BY DEF SavedInv, FilesTold, Playable, Missing, Running
  <1>2. FileAgrees'
    BY DEF SavedInv, FileAgrees, Running
  <1>3. StickAgrees'
    BY DEF SavedInv, StickAgrees, Running, stickVars
  <1> QED
    BY <1>1, <1>2, <1>3 DEF SavedInv

LEMMA WorkSaved ==
  ASSUME RecordingInv, SavedInv, Work
  PROVE  SavedInv'
PROOF
  <1> USE DEF Thread, Goes
  <1>1. CASE PrepareFails \/ SetActive \/ RecordFails \/ LeaveLoop \/ FinishFails \/ RenameFails
    BY <1>1, ThreadMoves
    DEF PrepareFails, SetActive, RecordFails, LeaveLoop, FinishFails, RenameFails, Running,
        serviceVars, fileVars, historyVars
  <1>2. CASE OpenFile
    <2>1. /\ thread = "init" /\ thread' \in {"opened", "done"}
          /\ temp' = PathLeads /\ PathLeads # "nowhere"
          /\ UNCHANGED <<saved, final, started, reports, completion, stickVars>>
      BY <1>2 DEF OpenFile, serviceVars, historyVars
    <2>2. FilesTold' /\ FileAgrees'
      BY <2>1 DEF SavedInv, FilesTold, FileAgrees, Playable, Missing
    <2>3. started > pulled => temp' = "stick" /\ mount = "live"
      BY <2>1 DEF SavedInv, StickAgrees, PathLeads
    <2>4. StickAgrees'
      BY <2>1, <2>3 DEF SavedInv, StickAgrees, Running, stickVars
    <2> QED
      BY <2>2, <2>4 DEF SavedInv
  <1>3. CASE RecordFrame
    BY <1>3
    DEF RecordFrame, SavedInv, FilesTold, FileAgrees, StickAgrees, Playable, Missing, Running,
        serviceVars, historyVars, stickVars
  <1>4. CASE FinishFile
    <2>1. /\ thread = "closing" /\ thread' = "closed" /\ whole'
          /\ UNCHANGED <<saved, temp, final, started, reports, completion, stickVars>>
      BY <1>4 DEF FinishFile, CanFinish, serviceVars, historyVars
    <2>2. FilesTold' /\ FileAgrees'
      BY <2>1 DEF SavedInv, FilesTold, FileAgrees, Playable, Missing
    <2>3. StickAgrees'
      BY <2>1 DEF SavedInv, StickAgrees, Running, stickVars
    <2> QED
      BY <2>2, <2>3 DEF SavedInv
  <1>5. CASE RenameFile
    <2>1. /\ thread = "closed" /\ thread' = "done"
          /\ mount = "none" => temp = "root"
          /\ mount # "none" => temp = "stick"
          /\ temp' = "none" /\ saved' = TRUE
          /\ UNCHANGED <<started, reports, completion, stickVars>>
      BY <1>5 DEF RenameFile, serviceVars, historyVars
    <2>2. PICK place \in {"root", "cached", "lost"} :
            /\ final' = [final EXCEPT ![started] = [at |-> place, whole |-> whole]]
            /\ mount = "live" => place = "cached"
      BY <1>5 DEF RenameFile
    <2>3. started \in Recordings /\ started = Len(reports) + 1 /\ Len(reports) \in Nat
      BY <2>1, LatestIsNext
    <2>4. DOMAIN final = Recordings
      BY DEF RecordingInv, Typed, FileTyped
    <2>5. \A r \in Recordings : r # started => final'[r] = final[r]
      BY <2>2, <2>4
    <2>6. final'[started] = [at |-> place, whole |-> whole]
      BY <2>2, <2>3, <2>4
    <2>7. whole
      BY <2>1 DEF SavedInv, FileAgrees
    <2>8. final'[started].at = place /\ final'[started].whole
      BY <2>6, <2>7
    <2>9. FilesTold'
      <3>1. \A r \in 1 .. Len(reports) : r \in Recordings /\ r # started
        BY <2>3, LatestIsNext
      <3>2. \A r \in 1 .. Len(reports) : IF reports[r] = "saved" THEN Playable(r)' ELSE Missing(r)'
        BY <2>5, <3>1 DEF SavedInv, FilesTold, Playable, Missing
      <3>3. \A r \in Recordings : r > started => Missing(r)'
        <4>1. \A r \in Recordings : r > started => r # started
          BY <2>3 DEF Recordings
        <4> QED
          BY <2>5, <4>1 DEF SavedInv, FilesTold, Missing
      <3>4. Playable(started)'
        BY <2>1, <2>2, <2>8 DEF Playable
      <3> QED
        BY <2>1, <3>2, <3>3, <3>4 DEF FilesTold
    <2>10. FileAgrees'
      BY <2>1 DEF FileAgrees
    <2>11. StickAgrees'
      <3>1. started > pulled => mount = "live"
        BY <2>1 DEF SavedInv, StickAgrees
      <3>2. final'[started].at \in {"root", "lost"} => started <= pulled
        <4>1. final'[started].at \in {"root", "lost"} => ~(started > pulled)
          BY <2>2, <2>8, <3>1
        <4> QED
          BY <2>3, <4>1, PulledIsNat DEF Recordings
      <3>3. \A r \in 1 .. started : r \in Recordings
        BY <2>3, RecordingAssumption DEF Recordings
      <3>4. \A r \in 1 .. started : final'[r].at \in {"root", "lost"} => r <= pulled
        BY <2>5, <3>2, <3>3 DEF SavedInv, StickAgrees
      <3> QED
        BY <2>1, <3>4 DEF SavedInv, StickAgrees, Running, stickVars
    <2> QED
      BY <2>9, <2>10, <2>11 DEF SavedInv
  <1>6. CASE CleanUp
    <2>1. /\ thread = "done" /\ thread' = "cleaned"
          /\ temp' = IF Removed THEN "none" ELSE temp
          /\ UNCHANGED <<saved, final, started, reports, completion, stickVars>>
      BY <1>6 DEF CleanUp, serviceVars, historyVars
    <2>2. FilesTold' /\ FileAgrees'
      BY <2>1 DEF SavedInv, FilesTold, FileAgrees, Playable, Missing
    <2>3. started \in Nat
      BY LatestIsNext
    <2>4. temp' = "none" \/ started <= pulled
      <3>1. started > pulled /\ temp # "none" => temp = "stick" /\ mount = "live" /\ ~saved
        BY DEF SavedInv, StickAgrees, FileAgrees
      <3>2. mount = "live" => PathLeads = "stick"
        BY DEF PathLeads
      <3>3. started > pulled => temp' = "none"
        BY <2>1, <3>1, <3>2 DEF Removed, TempReached
      <3> QED
        BY <2>3, <3>3, PulledIsNat
    <2>5. StickAgrees'
      BY <2>1, <2>4 DEF SavedInv, StickAgrees, Running, stickVars
    <2> QED
      BY <2>2, <2>5 DEF SavedInv
  <1>7. CASE Complete
    <2>1. /\ thread = "cleaned" /\ thread' = "exited"
          /\ completion' = IF saved THEN "saved" ELSE "failed"
          /\ UNCHANGED <<saved, temp, whole, final, started, reports, stickVars>>
      BY <1>7 DEF Complete, fileVars, historyVars
    <2>2. FilesTold' /\ FileAgrees'
      BY <2>1 DEF SavedInv, FilesTold, FileAgrees, Playable, Missing
    <2>3. StickAgrees'
      BY <2>1 DEF SavedInv, StickAgrees, Running, stickVars
    <2> QED
      BY <2>2, <2>3 DEF SavedInv
  <1> QED
    BY <1>1, <1>2, <1>3, <1>4, <1>5, <1>6, <1>7, Zenon DEF Work

LEMMA SelectSaved ==
  ASSUME RecordingInv, SavedInv, SelectRate
  PROVE  SavedInv'
PROOF
  <1>1. reports' = reports /\ plugged' = plugged /\ pulled' = pulled
    BY DEF SelectRate
  <1>2. CASE DontBegin
    <2>1. FilesTold' /\ FileAgrees'
      BY <1>1, <1>2, SameFiles DEF DontBegin, threadVars, fileVars, serviceVars
    <2>2. mount' = mount \/ \E outcome \in MountOutcomes : mount' = outcome[1]
      BY Zenon DEF SelectRate
    <2>3. mount \in {"live", "stale"} => mount' = mount
      BY <2>2, MountKept
    <2>4. StickAgrees'
      BY <1>1, <1>2, <2>3 DEF DontBegin, threadVars, fileVars, SavedInv, StickAgrees, Running
    <2> QED
      BY <2>1, <2>4 DEF SavedInv
  <1>3. CASE ~DontBegin
    <2>1. PICK outcome \in MountOutcomes :
            /\ mount' = outcome[1] /\ outcome[2] /\ started < MaxRecordings /\ Begin
            /\ Free /\ plugged
      BY <1>3, Zenon DEF SelectRate
    <2>2. mount' \in {"live", "stale"}
      BY <2>1, UsableMount
    <2>3. thread = "none"
      BY <2>1 DEF Free, RecordingInv, ThreadAgrees, EachReported
    <2>4. /\ thread' = "init" /\ saved' = FALSE /\ temp' = "none" /\ started' = started + 1
          /\ final' = final
      BY <2>1 DEF Begin
    <2>5. /\ started \in Nat /\ started + 1 \in Recordings
          /\ \A r \in Recordings : r > started + 1 => r > started
      BY <2>1, LatestIsNext, RecordingAssumption DEF Recordings
    <2>6. Missing(started + 1)
      BY <2>5 DEF SavedInv, FilesTold
    <2>7. FilesTold'
      BY <1>1, <2>4, <2>5, <2>6 DEF SavedInv, FilesTold, Playable, Missing
    <2>8. FileAgrees'
      BY <2>4 DEF FileAgrees
    <2>9. StickAgrees'
      <3>1. \A r \in 1 .. (started + 1) : r = started + 1 \/ r \in 1 .. started
        BY <2>5
      <3>2. pulled' = pulled
        BY DEF SelectRate
      <3>3. \A r \in 1 .. (started + 1) : final[r].at \in {"root", "lost"} => r <= pulled
        BY <2>6, <3>1 DEF SavedInv, StickAgrees, Missing
      <3> QED
        BY <1>1, <2>1, <2>2, <2>4, <3>2, <3>3 DEF StickAgrees, Running
    <2> QED
      BY <2>7, <2>8, <2>9 DEF SavedInv
  <1> QED
    BY <1>2, <1>3

LEMMA ReportSaved ==
  ASSUME RecordingInv, SavedInv, PollCompletion
  PROVE  SavedInv'
PROOF
  <1>1. UNCHANGED <<completion, frames, saved, file_open, temp, whole, final, started, plugged,
                    mount, pulled>>
    BY DEF PollCompletion, fileVars, stickVars
  <1>2. CASE completion_pending
    <2>1. thread = "exited" /\ thread_joinable
      BY <1>2 DEF RecordingInv, ThreadAgrees, EachReported
    <2>2. thread' = "none" /\ reports' = Append(reports, completion)
      BY <1>2, <2>1 DEF PollCompletion
    <2>3. started = Len(reports) + 1 /\ started \in Recordings
      BY <2>1, LatestIsNext
    <2>4. /\ Len(reports') = Len(reports) + 1 /\ reports'[Len(reports) + 1] = completion
          /\ \A r \in 1 .. Len(reports) : reports'[r] = reports[r]
          /\ \A r \in 1 .. Len(reports') : r = Len(reports) + 1 \/ r \in 1 .. Len(reports)
      BY <2>2 DEF RecordingInv, Typed, HistoryTyped
    <2>5. IF completion = "saved" THEN Playable(started) ELSE Missing(started)
      BY <2>1 DEF SavedInv, FilesTold
    <2>6. FilesTold'
      BY <1>1, <2>2, <2>3, <2>4, <2>5 DEF SavedInv, FilesTold, Playable, Missing
    <2>7. FileAgrees'
      BY <1>1, <2>2 DEF SavedInv, FileAgrees
    <2>8. StickAgrees'
      BY <1>1, <2>1, <2>2 DEF SavedInv, StickAgrees, Running
    <2> QED
      BY <2>6, <2>7, <2>8 DEF SavedInv
  <1>3. CASE ~completion_pending
    <2>1. UNCHANGED <<reports, thread>>
      BY <1>3 DEF PollCompletion
    <2> QED
      BY <1>1, <2>1, SameFiles, SameStick DEF SavedInv
  <1> QED
    BY <1>2, <1>3

(* For any number of recordings of any length, wherever the stick is       *)
(* pulled: told it was saved means the file is whole, told it failed that  *)
(* there is none; and it is on the stick under its name, and of a failed   *)
(* one nothing is left, unless the stick was pulled after it began, when   *)
(* the unsynced rename may be lost (screen_recording_service.c:596-679).   *)
THEOREM RecordingSaved == Spec => []SavedTrue
PROOF
  <1>1. Init => SavedInv
    BY LatestIsNext
    DEF Init, SavedInv, FilesTold, FileAgrees, StickAgrees, Playable, Missing, Nothing, Running
  <1>2. RecordingInv /\ SavedInv /\ [Next]_vars => SavedInv'
    <2> SUFFICES ASSUME RecordingInv, SavedInv, [Next]_vars PROVE SavedInv'
      OBVIOUS
    <2>1. CASE \/ PollState \/ Click \/ Cancel \/ Configure \/ RequestStop
               \/ UNCHANGED vars
      <3>1. UNCHANGED <<completion, threadVars, stickVars, historyVars>>
        BY <2>1 DEF PollState, Click, Cancel, Configure, RequestStop, vars, serviceVars
      <3> QED
        BY <3>1, SameFiles, SameStick DEF SavedInv, threadVars, fileVars, stickVars, historyVars
    <2> QED
      BY <2>1, WorkSaved, SelectSaved, ReportSaved, StickSteps, PullSaved, Zenon DEF Next, Poll
  <1>3. RecordingInv /\ SavedInv => SavedTrue
    BY DEF SavedInv, FilesTold, StickAgrees, Playable, Missing, PulledSince, SavedTrue
  <1> QED
    BY <1>1, <1>2, <1>3, RecordingAlways, PTL DEF Spec

-----------------------------------------------------------------------------
(* The history.                                                            *)
(* A set of natural numbers has a least one, and a greatest if bounded.    *)
LEMMA LeastNat ==
  ASSUME NEW T \in SUBSET Nat, T # {}
  PROVE  \E x \in T : \A y \in T : x <= y
PROOF
  <1> DEFINE R == OpToRel(<, Nat)
  <1>1. IsWellFoundedOn(R, Nat)
    BY NatLessThanWellFounded, Zenon
  <1>2. \A x, y \in Nat : <<x, y>> \in R <=> x < y
    BY DEF OpToRel
  <1> HIDE DEF R
  <1>3. PICK x \in T : \A y \in T : ~(<<y, x>> \in R)
    BY <1>1, WFMin
  <1>4. x \in Nat /\ \A y \in T : y \in Nat /\ ~(y < x)
    BY <1>2, <1>3
  <1> QED
    BY <1>4

LEMMA GreatestNat ==
  ASSUME NEW S \in SUBSET Nat, S # {}, NEW bound \in Nat, \A s \in S : s <= bound
  PROVE  Max(S) \in S /\ \A s \in S : s <= Max(S)
PROOF
  <1> DEFINE T == {b \in Nat : \A s \in S : s <= b}
  <1>1. PICK x \in T : \A y \in T : x <= y
    <2>1. bound \in T
      OBVIOUS
    <2> HIDE DEF T
    <2>2. T \in SUBSET Nat
      BY DEF T
    <2> QED
      BY <2>1, <2>2, LeastNat
  <1>2. x \in S
    <2> SUFFICES ASSUME x \notin S PROVE FALSE
      OBVIOUS
    <2>1. PICK s0 \in S : s0 \in Nat
      OBVIOUS
    <2>2. \A s \in S : s \in Nat /\ s < x /\ s <= x - 1
      BY <1>1
    <2>3. x - 1 \in Nat
      BY <2>1, <2>2, <1>1
    <2>4. x - 1 \in T
      BY <2>2, <2>3
    <2> QED
      BY <1>1, <2>4
  <1>3. \A s \in S : s \in Nat /\ x \in Nat /\ s <= x
    BY <1>1
  <1>4. \E m \in S : \A s \in S : m >= s
    BY <1>2, <1>3
  <1>5. Max(S) \in S /\ \A s \in S : Max(S) >= s
    BY <1>4, Zenon DEF Max
  <1> QED
    BY <1>5

(* Keep takes each of the positions once.                                  *)
UpTo(K, k) == {j \in K : j <= k}

LEMMA UpToGrows ==
  ASSUME NEW n \in Nat, NEW K \in SUBSET (1 .. n)
  PROVE  /\ IsFiniteSet(K) /\ Cardinality(K) \in 0 .. n
         /\ Cardinality(UpTo(K, 0)) = 0 /\ UpTo(K, n) = K
         /\ \A k \in Nat :
              /\ Cardinality(UpTo(K, k)) \in Nat
              /\ k + 1 \in K => Cardinality(UpTo(K, k + 1)) = Cardinality(UpTo(K, k)) + 1
              /\ k + 1 \notin K => Cardinality(UpTo(K, k + 1)) = Cardinality(UpTo(K, k))
PROOF
  <1>1. IsFiniteSet(1 .. n) /\ Cardinality(1 .. n) = n
    BY FS_Interval
  <1>2. IsFiniteSet(K) /\ Cardinality(K) \in Nat /\ Cardinality(K) <= n
    BY <1>1, FS_Subset, FS_CardinalityType
  <1>0. \A j \in K : j \in Nat /\ 1 <= j /\ j <= n
    OBVIOUS
  <1>3. UpTo(K, 0) = {} /\ UpTo(K, n) = K
    <2>1. \A j \in K : ~(j <= 0) /\ j <= n
      BY <1>0
    <2> QED
      BY <2>1, Zenon DEF UpTo
  <1>4. Cardinality(UpTo(K, 0)) = 0
    BY <1>3, FS_EmptySet
  <1>5. ASSUME NEW k \in Nat
        PROVE  /\ Cardinality(UpTo(K, k)) \in Nat
               /\ k + 1 \in K => Cardinality(UpTo(K, k + 1)) = Cardinality(UpTo(K, k)) + 1
               /\ k + 1 \notin K => Cardinality(UpTo(K, k + 1)) = Cardinality(UpTo(K, k))
    <2>1. IsFiniteSet(UpTo(K, k)) /\ Cardinality(UpTo(K, k)) \in Nat
      <3>1. UpTo(K, k) \subseteq K
        BY DEF UpTo
      <3> QED
        BY <1>2, <3>1, FS_Subset, FS_CardinalityType
    <2>0. ~(k + 1 <= k) /\ k + 1 <= k + 1 /\ \A j \in K : j <= k + 1 <=> j <= k \/ j = k + 1
      BY <1>0
    <2>2. CASE k + 1 \in K
      <3>1. \A j : j \in UpTo(K, k + 1) <=> j \in UpTo(K, k) \/ j = k + 1
        BY <2>0, <2>2, Zenon DEF UpTo
      <3>2. k + 1 \notin UpTo(K, k)
        BY <2>0, Zenon DEF UpTo
      <3>3. UpTo(K, k + 1) = UpTo(K, k) \cup {k + 1}
        BY <3>1, Zenon
      <3> QED
        BY <2>1, <2>2, <3>2, <3>3, FS_AddElement
    <2>3. CASE k + 1 \notin K
      <3>1. UpTo(K, k + 1) = UpTo(K, k)
        <4>1. \A j : j \in UpTo(K, k + 1) <=> j \in UpTo(K, k)
          BY <2>0, <2>3, Zenon DEF UpTo
        <4> QED
          BY <4>1, Zenon
      <3> QED
        BY <2>1, <2>3, <3>1
    <2> QED
      BY <2>2, <2>3
  <1> QED
    BY <1>2, <1>3, <1>4, <1>5

LEMMA KeepIs ==
  ASSUME NEW R, NEW records \in Seq(R), NEW K \in SUBSET DOMAIN records
  PROVE  /\ Cardinality(K) \in 0 .. Len(records)
         /\ Keep(records, K) \in Seq(R) /\ Len(Keep(records, K)) = Cardinality(K)
         /\ \E f \in [1 .. Cardinality(K) -> K] :
              /\ \A m \in 1 .. Cardinality(K) : Keep(records, K)[m] = records[f[m]]
              /\ \A m, p \in 1 .. Cardinality(K) : m # p => f[m] # f[p]
PROOF
  <1> DEFINE n == Len(records)
             c(k) == Cardinality(UpTo(K, k))
             f == [m \in 1 .. Cardinality(K) |-> CHOOSE i \in K : c(i) = m]
  <1>1. n \in Nat /\ K \in SUBSET (1 .. n)
    OBVIOUS
  <1>2. /\ Cardinality(K) \in 0 .. n /\ c(0) = 0 /\ c(n) = Cardinality(K)
        /\ \A k \in Nat :
             /\ c(k) \in Nat
             /\ k + 1 \in K => c(k + 1) = c(k) + 1
             /\ k + 1 \notin K => c(k + 1) = c(k)
    <2> HIDE DEF n
    <2>1. /\ Cardinality(K) \in 0 .. n /\ Cardinality(UpTo(K, 0)) = 0 /\ UpTo(K, n) = K
          /\ \A k \in Nat :
               /\ Cardinality(UpTo(K, k)) \in Nat
               /\ k + 1 \in K => Cardinality(UpTo(K, k + 1)) = Cardinality(UpTo(K, k)) + 1
               /\ k + 1 \notin K => Cardinality(UpTo(K, k + 1)) = Cardinality(UpTo(K, k))
      BY <1>1, UpToGrows, Zenon
    <2> QED
      BY <2>1, Zenon
  <1> HIDE DEF c
  <1>3. ASSUME NEW m \in 1 .. Cardinality(K)
        PROVE  \E i \in K : c(i) = m
    <2> DEFINE T == {k \in Nat : c(k) >= m}
    <2>1. T \in SUBSET Nat /\ n \in T
      BY <1>1, <1>2
    <2>2. PICK x \in T : \A y \in T : x <= y
      <3> HIDE DEF T
      <3> QED
        BY <2>1, LeastNat
    <2>3. x # 0 /\ x \in Nat
      BY <1>2, <2>2
    <2>4. PICK y \in Nat : y + 1 = x
      <3>1. x - 1 \in Nat /\ (x - 1) + 1 = x
        BY <2>3
      <3> QED
        BY <3>1
    <2>5. /\ c(y) \in Nat
          /\ y + 1 \in K => c(y + 1) = c(y) + 1
          /\ y + 1 \notin K => c(y + 1) = c(y)
      BY <1>2, <2>4
    <2>6. c(y) < m
      <3>1. ~(y >= x) /\ m \in Nat
        BY <1>2, <2>3, <2>4
      <3>2. ~(c(y) >= m)
        BY <2>2, <2>4, <3>1
      <3> QED
        BY <2>5, <3>1, <3>2
    <2>7. c(x) >= m
      BY <2>2
    <2>8. x \in K /\ c(x) = m
      BY <2>4, <2>5, <2>6, <2>7
    <2> QED
      BY <2>8
  <1>4. \A m \in 1 .. Cardinality(K) : f[m] \in K /\ c(f[m]) = m
    BY <1>3
  <1>5. Keep(records, K) = [m \in 1 .. Cardinality(K) |-> records[f[m]]]
    BY DEF Keep, c, UpTo
  <1>6. f \in [1 .. Cardinality(K) -> K]
    BY <1>4
  <1> HIDE DEF f
  <1>7. \A m \in 1 .. Cardinality(K) : records[f[m]] \in R
    BY <1>1, <1>4
  <1>8. Keep(records, K) \in Seq(R) /\ Len(Keep(records, K)) = Cardinality(K)
    <2>1. Cardinality(K) \in Nat
      BY <1>1, <1>2
    <2> QED
      BY <1>5, <1>7, <2>1
  <1>9. \A m \in 1 .. Cardinality(K) : Keep(records, K)[m] = records[f[m]]
    BY <1>5
  <1>10. \A m, p \in 1 .. Cardinality(K) : m # p => f[m] # f[p]
    BY <1>4, Zenon
  <1> QED
    BY <1>2, <1>6, <1>8, <1>9, <1>10

-----------------------------------------------------------------------------
(* A store as every operation leaves it, when n sessions were counted.     *)
Store == [records : Seq(Record), next_record_no : Nat \ {0}, next_slot_no : 1 .. MaxRecords,
          total : Nat, since : Nat]
Sessions(records) == {records[i].of : i \in DOMAIN records}
Apart(records) ==
  \A i, j \in DOMAIN records :
    i # j => /\ records[i].slot_no # records[j].slot_no
             /\ records[i].record_no # records[j].record_no
             /\ records[i].of # records[j].of
Sound(store, n) ==
  /\ store \in Store /\ Len(store.records) <= MaxRecords
  /\ Apart(store.records)
  /\ \A i \in DOMAIN store.records :
       store.records[i].record_no < store.next_record_no /\ store.records[i].of <= n

LEMMA EmptySound == ASSUME NEW n \in Nat PROVE Sound(Empty, n) /\ Sessions(Empty.records) = {}
  BY StoreAssumption DEF Empty, Sound, Store, Apart, Sessions

LEMMA SoundGrows ==
  ASSUME NEW n \in Nat, NEW p \in Nat, n <= p, NEW store, Sound(store, n)
  PROVE  Sound(store, p)
PROOF
  <1>1. \A i \in DOMAIN store.records : store.records[i].of \in Nat
    <2>1. store.records \in Seq(Record)
      BY DEF Sound, Store
    <2>2. \A i \in DOMAIN store.records : store.records[i] \in Record
      BY <2>1
    <2> QED
      BY <2>2, StoreAssumption DEF Record
  <1> QED
    BY <1>1 DEF Sound

(* Such a store passes the check of the load, also after a restart.        *)
LEMMA SoundLoads ==
  ASSUME NEW n, NEW store, Sound(store, n)
  PROVE  IsStore(store) /\ Loadable(store)
PROOF
  <1> DEFINE records == store.records
             S == {0} \cup RecordNos(records)
  <1>1. /\ store \in Store /\ records \in Seq(Record) /\ Len(records) <= MaxRecords
        /\ store.next_record_no \in Nat \ {0}
    BY DEF Sound, Store
  <1>2. \A i \in DOMAIN records : records[i] \in Record
    BY <1>1
  <1>3. \A s \in S : s \in Nat /\ s < store.next_record_no
    <2>1. \A i \in DOMAIN records :
            records[i].record_no \in Nat /\ records[i].record_no < store.next_record_no
      BY <1>2 DEF Sound, Record
    <2> QED
      BY <1>1, <2>1 DEF RecordNos
  <1>4. Max(S) \in S
    <2>1. 0 \in S
      OBVIOUS
    <2> HIDE DEF S
    <2>2. S \in SUBSET Nat /\ S # {} /\ \A s \in S : s <= store.next_record_no
      BY <1>1, <1>3, <2>1
    <2> QED
      BY <1>1, <2>2, GreatestNat
  <1>5. store.next_record_no > Max(S)
    BY <1>1, <1>3, <1>4
  <1>6. Loadable(store)
    BY <1>1, <1>2, <1>5 DEF Loadable, Sound, Store, Apart, Record
  <1>7. IsStore(store)
    BY <1>1, <1>2 DEF IsStore, Store
  <1> QED
    BY <1>6, <1>7

(* What is kept of a sound list of records is one.                         *)
LEMMA KeepApart ==
  ASSUME NEW records \in Seq(Record), Apart(records), NEW K \in SUBSET DOMAIN records
  PROVE  LET kept == Keep(records, K)
         IN  /\ kept \in Seq(Record) /\ Len(kept) = Cardinality(K)
             /\ Len(kept) <= Len(records)
             /\ Apart(kept)
             /\ \A m \in DOMAIN kept : \E i \in K : kept[m] = records[i]
PROOF
  <1> DEFINE kept == Keep(records, K)
  <1>1. /\ Cardinality(K) \in 0 .. Len(records)
        /\ kept \in Seq(Record) /\ Len(kept) = Cardinality(K)
    BY KeepIs
  <1>2. PICK f \in [1 .. Cardinality(K) -> K] :
          /\ \A m \in 1 .. Cardinality(K) : kept[m] = records[f[m]]
          /\ \A m, p \in 1 .. Cardinality(K) : m # p => f[m] # f[p]
    BY KeepIs
  <1> HIDE DEF kept
  <1>3. DOMAIN kept = 1 .. Cardinality(K)
    BY <1>1
  <1>4. \A m \in DOMAIN kept : f[m] \in K /\ f[m] \in DOMAIN records /\ kept[m] = records[f[m]]
    BY <1>2, <1>3
  <1>5. Apart(kept)
    <2> SUFFICES ASSUME NEW m \in DOMAIN kept, NEW p \in DOMAIN kept, m # p
                 PROVE  /\ kept[m].slot_no # kept[p].slot_no
                        /\ kept[m].record_no # kept[p].record_no
                        /\ kept[m].of # kept[p].of
      BY DEF Apart
    <2>1. f[m] \in DOMAIN records /\ f[p] \in DOMAIN records /\ f[m] # f[p]
      BY <1>2, <1>3, <1>4
    <2> QED
      BY <1>4, <2>1 DEF Apart
  <1>6. Len(kept) <= Len(records)
    BY <1>1
  <1>7. \A m \in DOMAIN kept : \E i \in K : kept[m] = records[i]
    BY <1>4
  <1> QED
    BY <1>1, <1>5, <1>6, <1>7 DEF kept

(* A record put in front of others it is apart from.                       *)
LEMMA InFront ==
  ASSUME NEW record \in Record, NEW others \in Seq(Record), Apart(others),
         \A i \in DOMAIN others : /\ others[i].slot_no # record.slot_no
                                  /\ others[i].record_no # record.record_no
                                  /\ others[i].of # record.of
  PROVE  LET list == <<record>> \o others
         IN  /\ list \in Seq(Record) /\ Len(list) = Len(others) + 1
             /\ Apart(list)
             /\ \A m \in DOMAIN list : list[m] = record \/ \E i \in DOMAIN others : list[m] = others[i]
PROOF
  <1> DEFINE list == <<record>> \o others
  <1>1. list \in Seq(Record) /\ Len(list) = Len(others) + 1 /\ Len(others) \in Nat
    OBVIOUS
  <1>2. list[1] = record /\ \A m \in 2 .. Len(list) : list[m] = others[m - 1]
    OBVIOUS
  <1> HIDE DEF list
  <1>3. DOMAIN list = 1 .. Len(list) /\ DOMAIN others = 1 .. Len(others)
    BY <1>1
  <1>4. \A m \in DOMAIN list : m # 1 => m - 1 \in DOMAIN others /\ list[m] = others[m - 1]
    BY <1>1, <1>2, <1>3
  <1>5. Apart(list)
    <2> SUFFICES ASSUME NEW i \in DOMAIN list, NEW j \in DOMAIN list, i # j
                 PROVE  /\ list[i].slot_no # list[j].slot_no
                        /\ list[i].record_no # list[j].record_no
                        /\ list[i].of # list[j].of
      BY DEF Apart
    <2>1. CASE i = 1
      BY <1>2, <1>4, <2>1
    <2>2. CASE j = 1
      BY <1>2, <1>4, <2>2
    <2>3. CASE i # 1 /\ j # 1
      <3>1. /\ i - 1 \in DOMAIN others /\ list[i] = others[i - 1]
            /\ j - 1 \in DOMAIN others /\ list[j] = others[j - 1]
        BY <1>4, <2>3
      <3>2. i - 1 # j - 1
        BY <1>1, <1>3
      <3> QED
        BY <3>1, <3>2, Zenon DEF Apart
    <2> QED
      BY <2>1, <2>2, <2>3
  <1>6. \A m \in DOMAIN list : list[m] = record \/ \E i \in DOMAIN others : list[m] = others[i]
    BY <1>2, <1>4
  <1> QED
    BY <1>1, <1>5, <1>6 DEF list

(* An append: the new record takes the next number, and the place of the   *)
(* record that has its slot or else of the oldest when the list is full.   *)
LEMMA InsertFrontSound ==
  ASSUME NEW record \in Record, NEW records \in Seq(Record), Apart(records),
         \A i \in DOMAIN records : /\ records[i].record_no # record.record_no
                                   /\ records[i].of # record.of
  PROVE  LET list == InsertFront(record, records)
         IN  /\ list \in Seq(Record) /\ Len(list) <= MaxRecords
             /\ Apart(list)
             /\ \A m \in DOMAIN list :
                  list[m] = record \/ \E i \in DOMAIN records : list[m] = records[i]
PROOF
  <1> DEFINE K == {i \in DOMAIN records : records[i].slot_no # record.slot_no}
             others == Keep(records, K)
             rest == IF Len(others) >= MaxRecords THEN SubSeq(others, 1, MaxRecords - 1)
                                                  ELSE others
             list == <<record>> \o rest
  <1>1. InsertFront(record, records) = list
    BY DEF InsertFront
  <1>2. K \in SUBSET DOMAIN records /\ \A i \in K : records[i].slot_no # record.slot_no
    OBVIOUS
  <1> HIDE DEF K
  <1>3. /\ others \in Seq(Record) /\ Apart(others)
        /\ \A m \in DOMAIN others : \E i \in K : others[m] = records[i]
    BY <1>2, KeepApart
  <1> HIDE DEF others
  <1>4. /\ rest \in Seq(Record) /\ Len(rest) <= MaxRecords - 1
        /\ DOMAIN rest \subseteq DOMAIN others /\ \A m \in DOMAIN rest : rest[m] = others[m]
    <2>1. CASE Len(others) >= MaxRecords
      <3>1. rest = SubSeq(others, 1, MaxRecords - 1) /\ MaxRecords - 1 \in 0 .. Len(others)
        BY <1>3, <2>1, StoreAssumption
      <3> QED
        BY <1>3, <3>1, StoreAssumption, SubSeqProperties
    <2>2. CASE ~(Len(others) >= MaxRecords)
      BY <1>3, <2>2, StoreAssumption
    <2> QED
      BY <2>1, <2>2
  <1> HIDE DEF rest
  <1>5. Apart(rest)
    BY <1>3, <1>4 DEF Apart
  <1>6. \A m \in DOMAIN rest : \E i \in DOMAIN records :
          rest[m] = records[i] /\ records[i].slot_no # record.slot_no
    BY <1>2, <1>3, <1>4
  <1>7. /\ list \in Seq(Record) /\ Len(list) = Len(rest) + 1 /\ Apart(list)
        /\ \A m \in DOMAIN list :
             list[m] = record \/ \E i \in DOMAIN rest : list[m] = rest[i]
    BY <1>4, <1>5, <1>6, InFront
  <1> HIDE DEF list
  <1>8. Len(list) <= MaxRecords
    BY <1>4, <1>7, StoreAssumption
  <1> QED
    BY <1>1, <1>6, <1>7, <1>8

LEMMA NextSlotIn ==
  ASSUME NEW slot \in 1 .. MaxRecords
  PROVE  NextSlot(slot) \in 1 .. MaxRecords
  BY StoreAssumption DEF NextSlot

LEMMA AppendedSound ==
  ASSUME NEW n \in 0 .. MaxSession, NEW store, Sound(store, n),
         NEW record \in [of : 1 .. n, total_after : Nat], record.of \notin Sessions(store.records)
  PROVE  LET after == Appended(store, record)
         IN  /\ Sound(after, n)
             /\ Sessions(after.records) \subseteq Sessions(store.records) \cup {record.of}
             /\ after.total = record.total_after /\ after.since = store.since + 1
PROOF
  <1> DEFINE new == [slot_no |-> store.next_slot_no, selected |-> FALSE,
                     record_no |-> store.next_record_no, of |-> record.of]
             list == InsertFront(new, store.records)
             after == Appended(store, record)
  <1>1. /\ store \in Store /\ store.records \in Seq(Record) /\ Apart(store.records)
        /\ store.next_record_no \in Nat \ {0} /\ store.next_slot_no \in 1 .. MaxRecords
        /\ store.since \in Nat
        /\ \A i \in DOMAIN store.records :
             store.records[i].record_no < store.next_record_no /\ store.records[i].of <= n
    BY DEF Sound, Store
  <1>2. new \in Record /\ record.of \in 1 .. n /\ record.total_after \in Nat
    BY <1>1, StoreAssumption DEF Record
  <1>3. \A i \in DOMAIN store.records : /\ store.records[i].record_no # new.record_no
                                        /\ store.records[i].of # new.of
    <2>1. \A i \in DOMAIN store.records : store.records[i].of \in Sessions(store.records)
      BY DEF Sessions
    <2>2. \A i \in DOMAIN store.records :
            store.records[i].record_no \in Nat
            /\ store.records[i].record_no < store.next_record_no
      <3>1. \A i \in DOMAIN store.records : store.records[i] \in Record
        BY <1>1
      <3> QED
        BY <1>1, <3>1 DEF Record
    <2> QED
      BY <1>1, <2>1, <2>2
  <1>4. after = [records |-> list, next_record_no |-> store.next_record_no + 1,
                 next_slot_no |-> NextSlot(store.next_slot_no),
                 total |-> record.total_after, since |-> store.since + 1]
    <2> HIDE DEF list
    <2>1. after = [store EXCEPT !.records = list, !.total = record.total_after,
                                !.next_record_no = store.next_record_no + 1,
                                !.next_slot_no = NextSlot(store.next_slot_no),
                                !.since = store.since + 1]
      BY Zenon DEF Appended, list
    <2> HIDE DEF after, new
    <2> QED
      BY <1>1, <2>1 DEF Store
  <1>5. new.record_no = store.next_record_no /\ new.of = record.of
    OBVIOUS
  <1> HIDE DEF new
  <1>6. /\ list \in Seq(Record) /\ Len(list) <= MaxRecords /\ Apart(list)
        /\ \A m \in DOMAIN list :
             list[m] = new \/ \E i \in DOMAIN store.records : list[m] = store.records[i]
    BY <1>1, <1>2, <1>3, InsertFrontSound
  <1> HIDE DEF list, after
  <1>7. after \in Store
    <2> DEFINE number == store.next_record_no + 1
               slot == NextSlot(store.next_slot_no)
               total == record.total_after
               since == store.since + 1
    <2>1. number \in Nat \ {0} /\ since \in Nat
      BY <1>1
    <2>2. slot \in 1 .. MaxRecords /\ total \in Nat
      BY <1>1, <1>2, NextSlotIn
    <2>3. after = [records |-> list, next_record_no |-> number, next_slot_no |-> slot,
                   total |-> total, since |-> since]
      BY <1>4
    <2> HIDE DEF number, slot, total, since
    <2> QED
      BY <1>6, <2>1, <2>2, <2>3 DEF Store
  <1>8. \A m \in DOMAIN list : list[m].record_no < store.next_record_no + 1 /\ list[m].of <= n
    <2> SUFFICES ASSUME NEW m \in DOMAIN list
                 PROVE  list[m].record_no < store.next_record_no + 1 /\ list[m].of <= n
      OBVIOUS
    <2>1. CASE list[m] = new
      BY <1>1, <1>2, <1>5, <2>1
    <2>2. CASE \E i \in DOMAIN store.records : list[m] = store.records[i]
      <3>1. PICK i \in DOMAIN store.records : list[m] = store.records[i]
        BY <2>2
      <3>2. store.records[i] \in Record
        BY <1>1
      <3>3. /\ list[m].record_no \in Nat /\ list[m].record_no < store.next_record_no
            /\ list[m].of <= n
        <4>1. store.records[i].record_no \in Nat
          BY <3>2, Zenon DEF Record
        <4> QED
          BY <1>1, <3>1, <4>1
      <3> QED
        BY <1>1, <3>3
    <2> QED
      BY <1>6, <2>1, <2>2
  <1>9. Sound(after, n)
    BY <1>4, <1>6, <1>7, <1>8 DEF Sound
  <1>10. Sessions(after.records) \subseteq Sessions(store.records) \cup {record.of}
    <2>1. \A m \in DOMAIN list : list[m].of \in Sessions(store.records) \cup {record.of}
      BY <1>5, <1>6 DEF Sessions
    <2> QED
      BY <1>4, <2>1 DEF Sessions
  <1> QED
    BY <1>4, <1>9, <1>10 DEF after

-----------------------------------------------------------------------------
(* What the history page does to a store: it only takes records away.      *)
Edited(store, after, n) ==
  Sound(after, n) /\ Sessions(after.records) \subseteq Sessions(store.records)

LEMMA ClearedSound ==
  ASSUME NEW n, NEW store, Sound(store, n)
  PROVE  Edited(store, [store EXCEPT !.total = 0, !.since = 0], n)
PROOF
  <1> DEFINE after == [store EXCEPT !.total = 0, !.since = 0]
  <1>1. /\ after \in Store /\ after.records = store.records
        /\ after.next_record_no = store.next_record_no
    BY DEF Sound, Store
  <1> QED
    BY <1>1 DEF Sound, Edited

(* Marked records differ in the mark alone.                                *)
LEMMA Marked ==
  ASSUME NEW r \in Record, NEW mark \in BOOLEAN
  PROVE  LET m == [r EXCEPT !.selected = mark]
         IN  m \in Record /\ m.slot_no = r.slot_no /\ m.record_no = r.record_no /\ m.of = r.of
  BY DEF Record

LEMMA MarkedSound ==
  ASSUME NEW n, NEW store, Sound(store, n), NEW after \in Selections(store)
  PROVE  Edited(store, after, n) /\ after.total = store.total /\ after.since = store.since
PROOF
  <1>1. store \in Store /\ store.records \in Seq(Record)
    BY DEF Sound, Store
  <1>2. PICK S : after = [store EXCEPT !.records =
                            [i \in DOMAIN @ |-> [@[i] EXCEPT !.selected = i \in S]]]
    BY DEF Selections
  <1> DEFINE list == [i \in DOMAIN store.records |->
                        [store.records[i] EXCEPT !.selected = i \in S]]
  <1>3. after = [store EXCEPT !.records = list]
    BY <1>2
  <1>4. \A i \in DOMAIN store.records :
          /\ list[i] \in Record
          /\ list[i].slot_no = store.records[i].slot_no
          /\ list[i].record_no = store.records[i].record_no
          /\ list[i].of = store.records[i].of
    <2> TAKE i \in DOMAIN store.records
    <2> DEFINE r == store.records[i]
               mark == i \in S
    <2>1. r \in Record /\ mark \in BOOLEAN
      BY <1>1
    <2>2. list[i] = [r EXCEPT !.selected = mark]
      OBVIOUS
    <2> HIDE DEF mark, list, r
    <2>3. /\ list[i] \in Record /\ list[i].slot_no = r.slot_no
          /\ list[i].record_no = r.record_no /\ list[i].of = r.of
      BY <2>1, <2>2, Marked
    <2> QED
      BY <2>3 DEF r
  <1>5. DOMAIN list = DOMAIN store.records
    OBVIOUS
  <1>6. list \in Seq(Record) /\ Len(list) = Len(store.records)
    <2>1. DOMAIN store.records = 1 .. Len(store.records) /\ Len(store.records) \in Nat
      BY <1>1
    <2>2. list \in [1 .. Len(store.records) -> Record]
      BY <1>4, <2>1
    <2> HIDE DEF list
    <2> QED
      BY <2>1, <2>2
  <1> HIDE DEF list
  <1>7. /\ after \in Store /\ after.records = list
        /\ after.next_record_no = store.next_record_no
        /\ after.total = store.total /\ after.since = store.since
    BY <1>1, <1>3, <1>6 DEF Store
  <1>8. Sessions(list) = Sessions(store.records)
    BY <1>4, <1>5 DEF Sessions
  <1>9. Apart(list)
    BY <1>4, <1>5 DEF Apart, Sound
  <1> QED
    BY <1>4, <1>5, <1>6, <1>7, <1>8, <1>9 DEF Sound, Edited

(* A deletion: the records that stay get their place as their slot, so the *)
(* next slot is free since something was deleted.                          *)
LEMMA DeletedSound ==
  ASSUME NEW n, NEW store, Sound(store, n),
         \E i \in DOMAIN store.records : store.records[i].selected
  PROVE  LET after == Deleted(store)
         IN  Edited(store, after, n) /\ after.total = store.total /\ after.since = store.since
PROOF
  <1> DEFINE records == store.records
             K == {i \in DOMAIN records : ~records[i].selected}
             kept == Keep(records, K)
             list == [i \in DOMAIN kept |-> [kept[i] EXCEPT !.slot_no = i]]
             top == Max({0} \cup RecordNos(kept))
             after == Deleted(store)
  <1>1. /\ store \in Store /\ records \in Seq(Record) /\ Len(records) <= MaxRecords
        /\ Apart(records) /\ Len(records) \in Nat /\ DOMAIN records = 1 .. Len(records)
        /\ store.next_record_no \in Nat \ {0}
        /\ \A i \in DOMAIN records :
             records[i].record_no < store.next_record_no /\ records[i].of <= n
    BY DEF Sound, Store
  <1>2. after = [store EXCEPT !.records = list, !.next_slot_no = Len(kept) + 1,
                              !.next_record_no = top + 1]
    BY DEF Deleted
  <1>3. K \in SUBSET DOMAIN records /\ K # DOMAIN records
    OBVIOUS
  <1> HIDE DEF K, records
  <1>4. /\ kept \in Seq(Record) /\ Len(kept) = Cardinality(K) /\ Len(kept) <= Len(records)
        /\ Apart(kept)
        /\ \A m \in DOMAIN kept : \E i \in K : kept[m] = records[i]
    BY <1>1, <1>3, KeepApart
  <1>5. Len(kept) + 1 \in 1 .. MaxRecords
    <2> DEFINE size == Len(records)
    <2>0. size \in Nat /\ 1 \in Int /\ size \in Int
      BY <1>1
    <2>1. IsFiniteSet(1 .. size) /\ Cardinality(1 .. size) = size
      <3> HIDE DEF size
      <3>1. IsFiniteSet(1 .. size)
            /\ Cardinality(1 .. size) = IF 1 > size THEN 0 ELSE size - 1 + 1
        BY <2>0, FS_Interval, Zenon
      <3> QED
        BY <2>0, <3>1
    <2>2. Cardinality(K) # Len(records)
      BY <1>1, <1>3, <2>1, FS_Subset, Zenon
    <2> QED
      BY <1>1, <1>4, <2>2, StoreAssumption
  <1> HIDE DEF kept
  <1>6. Len(kept) \in Nat /\ DOMAIN kept = 1 .. Len(kept)
    BY <1>4
  <1>7. \A m \in DOMAIN kept :
          /\ kept[m] \in Record /\ kept[m].record_no \in Nat
          /\ kept[m].record_no < store.next_record_no /\ kept[m].of <= n
          /\ kept[m].of \in Sessions(records)
    <2> SUFFICES ASSUME NEW m \in DOMAIN kept
                 PROVE  /\ kept[m] \in Record /\ kept[m].record_no \in Nat
                        /\ kept[m].record_no < store.next_record_no /\ kept[m].of <= n
                        /\ kept[m].of \in Sessions(records)
      OBVIOUS
    <2>1. PICK i \in DOMAIN records : kept[m] = records[i]
      BY <1>3, <1>4
    <2>2. records[i] \in Record
      BY <1>1
    <2>3. records[i].record_no \in Nat
      BY <2>2 DEF Record
    <2> QED
      BY <1>1, <2>1, <2>2, <2>3 DEF Sessions
  <1>8. top \in Nat /\ \A m \in DOMAIN kept : kept[m].record_no <= top
    <2> DEFINE T == {0} \cup RecordNos(kept)
    <2>1. \A t \in T : t \in Nat /\ t <= store.next_record_no
      BY <1>1, <1>7 DEF RecordNos
    <2>2. 0 \in T /\ \A m \in DOMAIN kept : kept[m].record_no \in T
      BY DEF RecordNos
    <2> HIDE DEF T
    <2>3. T \in SUBSET Nat /\ T # {} /\ \A t \in T : t <= store.next_record_no
      BY <2>1, <2>2
    <2>4. Max(T) \in T /\ \A t \in T : t <= Max(T)
      BY <1>1, <2>3, GreatestNat
    <2>5. Max(T) \in Nat /\ \A m \in DOMAIN kept : kept[m].record_no <= Max(T)
      BY <2>1, <2>2, <2>4
    <2> QED
      BY <2>5 DEF T
  <1> HIDE DEF top
  <1>9. \A m \in DOMAIN kept :
          /\ list[m] \in Record /\ list[m].slot_no = m
          /\ list[m].record_no = kept[m].record_no /\ list[m].of = kept[m].of
    <2> TAKE m \in DOMAIN kept
    <2>1. m \in 1 .. MaxRecords /\ kept[m] \in Record
      BY <1>5, <1>6, <1>7, StoreAssumption
    <2>2. list[m] = [kept[m] EXCEPT !.slot_no = m]
      OBVIOUS
    <2> HIDE DEF list
    <2> QED
      BY <2>1, <2>2 DEF Record
  <1>10. list \in Seq(Record) /\ Len(list) = Len(kept) /\ DOMAIN list = DOMAIN kept
    <2>1. list \in [1 .. Len(kept) -> Record]
      BY <1>6, <1>9
    <2> HIDE DEF list
    <2> QED
      BY <1>6, <2>1
  <1> HIDE DEF list, after
  <1>11. /\ after \in Store /\ after.records = list /\ after.next_record_no = top + 1
         /\ after.total = store.total /\ after.since = store.since
    <2> DEFINE next == Len(kept) + 1
               number == top + 1
    <2>1. next \in 1 .. MaxRecords /\ number \in Nat \ {0}
      BY <1>5, <1>8
    <2>2. after = [store EXCEPT !.records = list, !.next_slot_no = next,
                                !.next_record_no = number]
      BY <1>2
    <2>3. number = top + 1
      OBVIOUS
    <2> HIDE DEF next, number
    <2> QED
      BY <1>1, <1>10, <2>1, <2>2, <2>3 DEF Store
  <1>12. Apart(list)
    BY <1>4, <1>9, <1>10 DEF Apart
  <1>13. \A m \in DOMAIN list : list[m].record_no < top + 1 /\ list[m].of <= n
    BY <1>7, <1>8, <1>9, <1>10
  <1>14. Sessions(list) \subseteq Sessions(records)
    BY <1>7, <1>9, <1>10 DEF Sessions
  <1>15. Sound(after, n)
    BY <1>1, <1>4, <1>10, <1>11, <1>12, <1>13, StoreAssumption DEF Sound
  <1> QED
    BY <1>11, <1>14, <1>15 DEF Edited, after, records

-----------------------------------------------------------------------------
(* The inductive invariant.                                                *)
StoreTyped ==
  /\ g_history_loaded \in BOOLEAN /\ appending \in BOOLEAN /\ overtaken \in BOOLEAN
  /\ pc \in {"idle", "write", "flushed", "synced", "renamed"}
  /\ pending \in [of : 0 .. MaxSession, total_after : Nat]
  /\ session \in 0 .. MaxSession

(* Every store in memory, in the index and in what a power loss may bring  *)
(* back is sound.                                                          *)
AllSound ==
  /\ Sound(g_history_store, session) /\ Sound(index.store, session)
  /\ \A content \in old : Sound(content.store, session)

(* No torn index was ever renamed into place.                              *)
NeverTorn ==
  /\ firm = TRUE
  /\ \A content \in old \cup {index} : content = NoIndex \/ content = Written(content.store)

(* Where a save is, and what the index holds by then.                      *)
InSave ==
  /\ pc # "idle" => g_history_loaded
  /\ pc = "renamed" => index.store = g_history_store
  /\ ~Unreadable /\ Ready => g_history_store = index.store

(* The session that waits is in memory only while its append is saved, and *)
(* in the index only once that is renamed.                                 *)
Saving == appending /\ pc # "idle"
Replaced == appending /\ pc = "renamed"
Waiting ==
  pending # NoPending =>
    /\ pending.of \in 1 .. session
    /\ pending.of \in Sessions(g_history_store.records) => Saving
    /\ pending.of \in Sessions(index.store.records) => Replaced

(* Each total is that of the sessions counted since it was cleared, and    *)
(* the total that waits is one more.                                       *)
Counted(store) == store.total = store.since
Totals ==
  ~overtaken =>
    /\ Counted(g_history_store) /\ Counted(index.store)
    /\ \A content \in old : Counted(content.store)
    /\ pending # NoPending =>
         /\ ~Replaced => pending.total_after = index.store.total + 1
         /\ g_history_loaded /\ ~Saving => pending.total_after = g_history_store.total + 1

StoreInv == StoreTyped /\ AllSound /\ NeverTorn /\ InSave /\ Waiting
HistoryInv == StoreInv /\ (~Unreadable => Totals)

LEMMA HistoryStarts == HistoryInit => HistoryInv
PROOF
  <1> SUFFICES ASSUME HistoryInit PROVE HistoryInv
    OBVIOUS
  <1> USE DEF HistoryInit
  <1>1. StoreTyped
    <2>1. NoPending \in [of : 0 .. MaxSession, total_after : Nat] /\ 0 \in 0 .. MaxSession
      BY StoreAssumption DEF NoPending
    <2> QED
      BY <2>1 DEF StoreTyped
  <1>2. index.store = Empty
    BY DEF NoIndex
  <1>3. AllSound
    BY <1>2, EmptySound DEF AllSound
  <1>4. NeverTorn
    BY DEF NeverTorn
  <1>5. InSave
    BY DEF InSave, Ready
  <1>6. Waiting
    BY DEF Waiting
  <1>7. Totals
    BY <1>2 DEF Totals, Counted, Empty
  <1> QED
    BY <1>1, <1>3, <1>4, <1>5, <1>6, <1>7 DEF HistoryInv, StoreInv

(* Such an index loads, so a restart finds what it holds.                  *)
LEMMA FoundIs ==
  ASSUME NEW content, content = NoIndex \/ content = Written(content.store),
         NEW n, Sound(content.store, n)
  PROVE  Found(content) = content.store /\ (content = NoIndex \/ Usable(content))
PROOF
  <1>1. Loadable(content.store)
    BY SoundLoads
  <1>2. CASE content = NoIndex
    BY <1>2 DEF NoIndex, Found, Usable
  <1>3. CASE content = Written(content.store)
    <2>1. content.kind = "index"
      BY <1>3 DEF Written
    <2> QED
      BY <1>1, <2>1 DEF Found, Usable
  <1> QED
    BY <1>2, <1>3

LEMMA IndexFound == StoreInv => Found(index) = index.store /\ OnDisk = index
  BY FoundIs DEF StoreInv, NeverTorn, AllSound, OnDisk

(* What each step does to the store in memory.                             *)
LEMMA LoadKeepsInv == StoreInv /\ Load => StoreInv'
PROOF
  <1> SUFFICES ASSUME StoreInv, Load PROVE StoreInv'
    OBVIOUS
  <1>2. /\ g_history_store' = index.store
        /\ g_history_loaded' = TRUE /\ ~g_history_loaded
        /\ UNCHANGED <<pc, appending, pending, index, firm, old, session, overtaken>>
    BY IndexFound DEF Load, diskVars, boundVars
  <1>3. pc = "idle"
    BY <1>2 DEF StoreInv, InSave
  <1>4. StoreTyped'
    BY <1>2 DEF StoreInv, StoreTyped
  <1>5. AllSound'
    BY <1>2 DEF StoreInv, AllSound
  <1>6. NeverTorn'
    BY <1>2 DEF StoreInv, NeverTorn
  <1>7. InSave'
    BY <1>2, <1>3 DEF InSave, Ready
  <1>8. Waiting'
    BY <1>2, <1>3 DEF StoreInv, Waiting, Saving, Replaced
  <1> QED
    BY <1>4, <1>5, <1>6, <1>7, <1>8 DEF StoreInv

LEMMA LoadKeepsTotals == StoreInv /\ ~Unreadable /\ Totals /\ Load => Totals'
PROOF
  <1> SUFFICES ASSUME StoreInv, ~Unreadable, Totals, Load PROVE Totals'
    OBVIOUS
  <1>1. /\ g_history_store' = index.store /\ ~g_history_loaded
        /\ UNCHANGED <<pc, appending, pending, index, old, overtaken>>
    BY IndexFound DEF Load, diskVars, boundVars
  <1>2. pc = "idle"
    BY <1>1 DEF StoreInv, InSave
  <1> QED
    BY <1>1, <1>2 DEF Totals, Saving, Replaced, Counted

LEMMA SessionKeepsInv == StoreInv /\ SessionFinishes => StoreInv'
PROOF
  <1> SUFFICES ASSUME StoreInv, SessionFinishes PROVE StoreInv'
    OBVIOUS
  <1>1. /\ session' = session + 1 /\ session' \in 0 .. MaxSession /\ session \in Nat
        /\ pending' = [of |-> session', total_after |-> g_history_store.total + 1]
        /\ pc = "idle" /\ g_history_loaded
        /\ UNCHANGED <<g_history_store, g_history_loaded, pc, appending, index, firm, old,
                       overtaken>>
    BY StoreAssumption DEF SessionFinishes, Ready, diskVars, StoreInv, StoreTyped
  <1>2. /\ Sound(g_history_store, session) /\ Sound(index.store, session)
        /\ \A content \in old : Sound(content.store, session)
    BY DEF StoreInv, AllSound
  <1>3. StoreTyped'
    <2>1. g_history_store.total + 1 \in Nat
      BY <1>2 DEF Sound, Store
    <2>2. pending' \in [of : 0 .. MaxSession, total_after : Nat]
      BY <1>1, <2>1
    <2> QED
      BY <1>1, <2>2 DEF StoreInv, StoreTyped
  <1>4. AllSound'
    <2>1. \A store : Sound(store, session) => Sound(store, session')
      BY <1>1, SoundGrows
    <2> QED
      BY <1>1, <1>2, <2>1 DEF AllSound
  <1>5. NeverTorn'
    BY <1>1 DEF StoreInv, NeverTorn
  <1>6. InSave'
    BY <1>1 DEF StoreInv, InSave, Ready
  <1>7. Waiting'
    <2>1. ASSUME NEW store, Sound(store, session)
          PROVE  session' \notin Sessions(store.records)
      <3>1. store.records \in Seq(Record)
        BY <2>1 DEF Sound, Store
      <3>2. \A i \in DOMAIN store.records : store.records[i] \in Record
        BY <3>1
      <3>3. \A i \in DOMAIN store.records :
              store.records[i].of \in Nat /\ store.records[i].of <= session
        BY <2>1, <3>2, StoreAssumption DEF Sound, Record
      <3> QED
        BY <1>1, <3>3 DEF Sessions
    <2>2. pending'.of = session' /\ session' \in 1 .. session'
      BY <1>1
    <2>3. /\ session' \notin Sessions(g_history_store'.records)
          /\ session' \notin Sessions(index'.store.records)
      BY <1>1, <1>2, <2>1
    <2> QED
      BY <2>2, <2>3, Zenon DEF Waiting
  <1> QED
    BY <1>3, <1>4, <1>5, <1>6, <1>7 DEF StoreInv

LEMMA SessionKeepsTotals == StoreInv /\ ~Unreadable /\ Totals /\ SessionFinishes => Totals'
PROOF
  <1> SUFFICES ASSUME StoreInv, ~Unreadable, Totals, SessionFinishes PROVE Totals'
    OBVIOUS
  <1>1. /\ pending'.total_after = g_history_store.total + 1
        /\ g_history_store = index.store
        /\ UNCHANGED <<g_history_store, index, old, overtaken>>
    BY DEF SessionFinishes, Ready, diskVars, StoreInv, InSave
  <1> QED
    BY <1>1 DEF Totals, Counted

LEMMA AppendKeepsInv == StoreInv /\ AppendPending => StoreInv'
PROOF
  <1> SUFFICES ASSUME StoreInv, AppendPending PROVE StoreInv'
    OBVIOUS
  <1>1. /\ pc = "idle" /\ g_history_loaded /\ pending # NoPending
        /\ g_history_store' = Appended(g_history_store, pending)
        /\ pc' = "write" /\ appending' = TRUE
        /\ UNCHANGED <<g_history_loaded, pending, index, firm, old, session, overtaken>>
    BY DEF AppendPending, Ready, diskVars, boundVars
  <1>2. /\ pending.of \in 1 .. session
        /\ pending.of \notin Sessions(g_history_store.records)
        /\ pending.of \notin Sessions(index.store.records)
    BY <1>1 DEF StoreInv, Waiting, Saving, Replaced
  <1>3. session \in 0 .. MaxSession /\ pending \in [of : 1 .. session, total_after : Nat]
    BY <1>2 DEF StoreInv, StoreTyped
  <1>4. Sound(g_history_store', session)
    BY <1>1, <1>2, <1>3, AppendedSound DEF StoreInv, AllSound
  <1>5. StoreTyped'
    BY <1>1 DEF StoreInv, StoreTyped
  <1>6. AllSound'
    BY <1>1, <1>4 DEF StoreInv, AllSound
  <1>7. NeverTorn'
    BY <1>1 DEF StoreInv, NeverTorn
  <1>8. InSave'
    BY <1>1 DEF InSave, Ready
  <1>9. Waiting'
    BY <1>1, <1>2 DEF Waiting, Saving, Replaced
  <1> QED
    BY <1>5, <1>6, <1>7, <1>8, <1>9 DEF StoreInv

LEMMA AppendKeepsTotals == StoreInv /\ ~Unreadable /\ Totals /\ AppendPending => Totals'
PROOF
  <1> SUFFICES ASSUME StoreInv, ~Unreadable, Totals, AppendPending PROVE Totals'
    OBVIOUS
  <1>1. /\ pc = "idle" /\ g_history_loaded /\ pending # NoPending
        /\ g_history_store' = Appended(g_history_store, pending)
        /\ pc' = "write" /\ appending' = TRUE
        /\ UNCHANGED <<pending, index, old, overtaken>>
    BY DEF AppendPending, Ready, diskVars, boundVars
  <1>2. /\ g_history_store'.total = pending.total_after
        /\ g_history_store'.since = g_history_store.since + 1
    <2>1. /\ pending.of \in 1 .. session
          /\ pending.of \notin Sessions(g_history_store.records)
      BY <1>1 DEF StoreInv, Waiting, Saving
    <2>2. session \in 0 .. MaxSession /\ pending \in [of : 1 .. session, total_after : Nat]
      BY <2>1 DEF StoreInv, StoreTyped
    <2> QED
      BY <1>1, <2>1, <2>2, AppendedSound DEF StoreInv, AllSound
  <1> QED
    BY <1>1, <1>2 DEF Totals, Counted, Saving, Replaced

LEMMA EditKeepsInv ==
  ASSUME StoreInv, NEW after, Edit(after), Edited(g_history_store, after, session),
         overtaken' \in BOOLEAN
  PROVE  StoreInv'
PROOF
  <1>1. /\ pc = "idle" /\ g_history_loaded
        /\ g_history_store' = after /\ pc' = "write" /\ appending' = FALSE
        /\ UNCHANGED <<g_history_loaded, pending, index, firm, old, session>>
    BY DEF Edit, Ready, diskVars
  <1>2. /\ Sound(g_history_store', session)
        /\ Sessions(g_history_store'.records) \subseteq Sessions(g_history_store.records)
    BY <1>1 DEF Edited
  <1>3. StoreTyped'
    BY <1>1 DEF StoreInv, StoreTyped
  <1>4. AllSound'
    BY <1>1, <1>2 DEF StoreInv, AllSound
  <1>5. NeverTorn'
    BY <1>1 DEF StoreInv, NeverTorn
  <1>6. InSave'
    BY <1>1 DEF InSave, Ready
  <1>7. Waiting'
    BY <1>1, <1>2 DEF StoreInv, Waiting, Saving, Replaced
  <1> QED
    BY <1>3, <1>4, <1>5, <1>6, <1>7 DEF StoreInv

LEMMA UserKeepsInv == StoreInv /\ User => StoreInv'
PROOF
  <1> SUFFICES ASSUME StoreInv, User PROVE StoreInv'
    OBVIOUS
  <1>1. Sound(g_history_store, session) /\ overtaken \in BOOLEAN
    BY DEF StoreInv, AllSound, StoreTyped
  <1>2. CASE Select
    BY <1>1, <1>2, MarkedSound, EditKeepsInv DEF Select
  <1>3. CASE DeleteSelected
    BY <1>1, <1>3, DeletedSound, EditKeepsInv DEF DeleteSelected
  <1>4. CASE ClearTotal
    <2>1. overtaken' \in BOOLEAN
      BY <1>1, <1>4, Zenon DEF ClearTotal
    <2> QED
      BY <1>1, <1>4, <2>1, ClearedSound, EditKeepsInv DEF ClearTotal
  <1> QED
    BY <1>2, <1>3, <1>4 DEF User

LEMMA UserKeepsTotals == StoreInv /\ ~Unreadable /\ Totals /\ User => Totals'
PROOF
  <1> SUFFICES ASSUME StoreInv, ~Unreadable, Totals, User PROVE Totals'
    OBVIOUS
  <1>1. Sound(g_history_store, session)
    BY DEF StoreInv, AllSound
  <1>2. ASSUME NEW after, Edit(after), UNCHANGED overtaken,
               after.total = g_history_store.total, after.since = g_history_store.since
        PROVE  Totals'
    <2>1. /\ pc = "idle" /\ g_history_loaded
          /\ g_history_store' = after /\ pc' = "write" /\ appending' = FALSE
          /\ UNCHANGED <<g_history_loaded, pending, index, old>>
      BY <1>2 DEF Edit, Ready, diskVars
    <2> QED
      BY <1>2, <2>1 DEF Totals, Counted, Saving, Replaced
  <1>3. CASE Select
    BY <1>1, <1>2, <1>3, MarkedSound DEF Select
  <1>4. CASE DeleteSelected
    BY <1>1, <1>2, <1>4, DeletedSound DEF DeleteSelected
  <1>5. CASE ClearTotal
    <2> DEFINE after == [g_history_store EXCEPT !.total = 0, !.since = 0]
    <2>1. after.total = 0 /\ after.since = 0
      BY <1>1 DEF Sound, Store
    <2>2. Edit(after) /\ overtaken' = (overtaken \/ pending # NoPending)
      BY <1>5 DEF ClearTotal
    <2> HIDE DEF after
    <2>3. /\ g_history_store' = after /\ UNCHANGED <<pending, index, old>>
      BY <2>2 DEF Edit, diskVars
    <2> QED
      BY <2>1, <2>2, <2>3 DEF Totals, Counted
  <1> QED
    BY <1>3, <1>4, <1>5 DEF User

LEMMA SaveKeepsInv == StoreInv /\ Save => StoreInv'
PROOF
  <1> SUFFICES ASSUME StoreInv, Save PROVE StoreInv'
    OBVIOUS
  <1> USE DEF diskVars, boundVars
  <1>0. /\ AllSound /\ NeverTorn /\ InSave /\ Waiting /\ StoreTyped
        /\ OnDisk = index
    BY IndexFound DEF StoreInv
  <1>1. CASE WriteTemporary \/ SyncTemporary
    <2>1. /\ pc \in {"write", "flushed"} /\ pc' \in {"flushed", "synced"}
          /\ old' \subseteq old
          /\ UNCHANGED <<g_history_store, g_history_loaded, appending, pending, index, firm,
                         session, overtaken>>
      BY <1>1 DEF WriteTemporary, SyncTemporary, SyncDirectory
    <2>2. StoreTyped'
      BY <1>0, <2>1 DEF StoreTyped
    <2>3. AllSound' /\ NeverTorn'
      BY <1>0, <2>1 DEF AllSound, NeverTorn
    <2>4. InSave' /\ Waiting'
      BY <1>0, <2>1 DEF InSave, Ready, Waiting, Saving, Replaced
    <2> QED
      BY <2>2, <2>3, <2>4 DEF StoreInv
  <1>2. CASE Rename
    <2>1. /\ pc = "synced" /\ pc' = "renamed"
          /\ index' = Written(g_history_store) /\ firm' = TRUE
          /\ old' = old \cup {index}
          /\ UNCHANGED <<g_history_store, g_history_loaded, appending, pending, session,
                         overtaken>>
      BY <1>0, <1>2 DEF Rename, Renamed
    <2>2. index'.store = g_history_store
      BY <2>1 DEF Written
    <2>3. StoreTyped'
      BY <1>0, <2>1 DEF StoreTyped
    <2>4. AllSound'
      BY <1>0, <2>1, <2>2 DEF AllSound
    <2>5. NeverTorn'
      BY <1>0, <2>1, <2>2 DEF NeverTorn
    <2>6. InSave' /\ Waiting'
      BY <1>0, <2>1, <2>2 DEF InSave, Ready, Waiting, Saving, Replaced
    <2> QED
      BY <2>3, <2>4, <2>5, <2>6 DEF StoreInv
  <1>3. CASE SaveDone
    <2>1. /\ pc = "renamed" /\ pc' = "idle" /\ old' \subseteq old
          /\ pending' = IF appending THEN NoPending ELSE pending
          /\ UNCHANGED <<g_history_store, g_history_loaded, appending, index, firm, session,
                         overtaken>>
      BY <1>3 DEF SaveDone, SyncDirectory
    <2>2. NoPending \in [of : 0 .. MaxSession, total_after : Nat]
      BY StoreAssumption DEF NoPending
    <2>3. StoreTyped'
      BY <1>0, <2>1, <2>2 DEF StoreTyped
    <2>4. AllSound' /\ NeverTorn'
      BY <1>0, <2>1 DEF AllSound, NeverTorn
    <2>5. InSave' /\ Waiting'
      BY <1>0, <2>1 DEF InSave, Ready, Waiting, Saving, Replaced
    <2> QED
      BY <2>3, <2>4, <2>5 DEF StoreInv
  <1>4. CASE SaveFails
    <2>1. /\ pc \in {"write", "flushed", "synced"} /\ pc' = "idle"
          /\ g_history_store' \in {index.store, Empty}
          /\ ~Unreadable => g_history_store' = index.store
          /\ UNCHANGED <<g_history_loaded, appending, pending, index, firm, old, session,
                         overtaken>>
      BY <1>4, IndexFound DEF SaveFails, Reload
    <2>2. Sound(Empty, session) /\ Sessions(Empty.records) = {}
      BY <1>0, EmptySound DEF StoreTyped
    <2>3. StoreTyped'
      BY <1>0, <2>1 DEF StoreTyped
    <2>4. AllSound' /\ NeverTorn'
      BY <1>0, <2>1, <2>2 DEF AllSound, NeverTorn
    <2>5. InSave' /\ Waiting'
      BY <1>0, <2>1, <2>2 DEF InSave, Ready, Waiting, Saving, Replaced
    <2> QED
      BY <2>3, <2>4, <2>5 DEF StoreInv
  <1> QED
    BY <1>1, <1>2, <1>3, <1>4 DEF Save

LEMMA SaveKeepsTotals == StoreInv /\ ~Unreadable /\ Totals /\ Save => Totals'
PROOF
  <1> SUFFICES ASSUME StoreInv, ~Unreadable, Totals, Save PROVE Totals'
    OBVIOUS
  <1> USE DEF diskVars, boundVars, Totals
  <1>0. InSave /\ OnDisk = index
    BY IndexFound DEF StoreInv
  <1>1. CASE WriteTemporary \/ SyncTemporary
    <2>1. /\ pc \in {"write", "flushed"} /\ pc' \in {"flushed", "synced"}
          /\ old' \subseteq old
          /\ UNCHANGED <<g_history_store, g_history_loaded, appending, pending, index,
                         overtaken>>
      BY <1>1 DEF WriteTemporary, SyncTemporary, SyncDirectory
    <2> QED
      BY <2>1 DEF Counted, Saving, Replaced
  <1>2. CASE Rename
    <2>1. /\ pc = "synced" /\ pc' = "renamed"
          /\ index'.store = g_history_store /\ old' = old \cup {index}
          /\ UNCHANGED <<g_history_store, g_history_loaded, appending, pending, overtaken>>
      BY <1>0, <1>2 DEF Rename, Renamed, Written
    <2> QED
      BY <1>0, <2>1 DEF Counted, Saving, Replaced, InSave
  <1>3. CASE SaveDone
    <2>1. /\ pc = "renamed" /\ pc' = "idle" /\ old' \subseteq old
          /\ pending' = IF appending THEN NoPending ELSE pending
          /\ UNCHANGED <<g_history_store, g_history_loaded, appending, index, overtaken>>
      BY <1>3 DEF SaveDone, SyncDirectory
    <2> QED
      BY <2>1 DEF Counted, Saving, Replaced
  <1>4. CASE SaveFails
    <2>1. /\ pc \in {"write", "flushed", "synced"} /\ pc' = "idle"
          /\ g_history_store' = index.store
          /\ UNCHANGED <<g_history_loaded, appending, pending, index, old, overtaken>>
      BY <1>4, IndexFound DEF SaveFails, Reload
    <2> QED
      BY <2>1 DEF Counted, Saving, Replaced
  <1> QED
    BY <1>1, <1>2, <1>3, <1>4 DEF Save

LEMMA StopKeepsInv ==
  StoreInv /\ (Restart \/ PowerLoss) => StoreInv' /\ (Totals => Totals')
PROOF
  <1> SUFFICES ASSUME StoreInv, Restart \/ PowerLoss
               PROVE  StoreInv' /\ (Totals => Totals')
    OBVIOUS
  <1>0. /\ AllSound /\ NeverTorn /\ StoreTyped /\ OnDisk = index
    BY IndexFound DEF StoreInv
  <1>1. /\ g_history_store' = Empty /\ g_history_loaded' = FALSE
        /\ pc' = "idle" /\ appending' = FALSE /\ pending' = NoPending
        /\ UNCHANGED <<session, overtaken>>
    BY DEF Restart, PowerLoss, Stops
  <1>2. /\ index' \in old \cup {index} /\ old' \subseteq old /\ firm' = TRUE
    <2>1. CASE Restart
      BY <1>0, <2>1 DEF Restart, diskVars, NeverTorn
    <2>2. CASE PowerLoss
      BY <1>0, <2>2 DEF PowerLoss
    <2> QED
      BY <2>1, <2>2
  <1>3. Sound(Empty, session) /\ Counted(Empty)
    BY <1>0, EmptySound DEF StoreTyped, Counted, Empty
  <1>4. StoreTyped'
    <2>1. NoPending \in [of : 0 .. MaxSession, total_after : Nat]
      BY StoreAssumption DEF NoPending
    <2> QED
      BY <1>0, <1>1, <2>1 DEF StoreTyped
  <1>5. AllSound'
    BY <1>0, <1>1, <1>2, <1>3 DEF AllSound
  <1>6. NeverTorn'
    BY <1>0, <1>2 DEF NeverTorn
  <1>7. InSave' /\ Waiting'
    BY <1>1 DEF InSave, Ready, Waiting
  <1>8. Totals => Totals'
    <2> SUFFICES ASSUME Totals PROVE Totals'
      OBVIOUS
    <2>1. ~overtaken => \A content \in old \cup {index} : Counted(content.store)
      BY DEF Totals
    <2> QED
      BY <1>1, <1>2, <1>3, <2>1 DEF Totals, Counted
  <1> QED
    BY <1>4, <1>5, <1>6, <1>7, <1>8 DEF StoreInv

LEMMA HistoryStep == HistoryInv /\ [HistoryNext]_storeVars => HistoryInv'
PROOF
  <1> SUFFICES ASSUME HistoryInv, [HistoryNext]_storeVars PROVE HistoryInv'
    OBVIOUS
  <1>0. StoreInv /\ (~Unreadable => Totals)
    BY DEF HistoryInv
  <1>1. CASE Load
    BY <1>0, <1>1, LoadKeepsInv, LoadKeepsTotals DEF HistoryInv
  <1>2. CASE SessionFinishes
    BY <1>0, <1>2, SessionKeepsInv, SessionKeepsTotals DEF HistoryInv
  <1>3. CASE AppendPending
    BY <1>0, <1>3, AppendKeepsInv, AppendKeepsTotals DEF HistoryInv
  <1>4. CASE User
    BY <1>0, <1>4, UserKeepsInv, UserKeepsTotals DEF HistoryInv
  <1>5. CASE Save
    BY <1>0, <1>5, SaveKeepsInv, SaveKeepsTotals DEF HistoryInv
  <1>6. CASE Restart \/ PowerLoss
    BY <1>0, <1>6, StopKeepsInv DEF HistoryInv
  <1>7. CASE UNCHANGED storeVars
    <2> USE <1>7 DEF storeVars, diskVars, boundVars
    <2>1. StoreTyped' /\ NeverTorn'
      BY <1>0 DEF StoreInv, StoreTyped, NeverTorn
    <2>2. AllSound'
      BY <1>0 DEF StoreInv, AllSound
    <2>3. InSave' /\ Waiting'
      BY <1>0 DEF StoreInv, InSave, Ready, Waiting, Saving, Replaced
    <2>4. Totals => Totals'
      BY DEF Totals, Counted, Saving, Replaced
    <2> QED
      BY <1>0, <2>1, <2>2, <2>3, <2>4 DEF HistoryInv, StoreInv
  <1> QED
    BY <1>1, <1>2, <1>3, <1>4, <1>5, <1>6, <1>7 DEF HistoryNext

LEMMA HistoryAlways == HistorySpec => []HistoryInv
  BY HistoryStarts, HistoryStep, PTL DEF HistorySpec

(* Whatever a restart or a power loss finds can be loaded, for any number  *)
(* of records, sessions, edits and faults (StoreLoads).                    *)
THEOREM HistoryLoads == HistorySpec => []StoreLoads
PROOF
  <1>1. HistoryInv => StoreLoads
    <2> SUFFICES ASSUME StoreInv PROVE StoreLoads
      BY DEF HistoryInv
    <2>1. /\ Sound(g_history_store, session) /\ Sound(index.store, session)
          /\ \A content \in old : Sound(content.store, session)
          /\ firm = TRUE /\ OnDisk = index
          /\ \A content \in old \cup {index} :
               content = NoIndex \/ content = Written(content.store)
      BY IndexFound DEF StoreInv, AllSound, NeverTorn
    <2>2. /\ IsStore(g_history_store)
          /\ \A content \in old \cup {index} : IsStore(content.store)
      BY <2>1, SoundLoads
    <2>3. HistoryTypeOK
      BY <2>1, <2>2 DEF StoreInv, StoreTyped, HistoryTypeOK
    <2>4. \A content \in old \cup {OnDisk} : content = NoIndex \/ Usable(content)
      BY <2>1, FoundIs
    <2> QED
      BY <2>3, <2>4 DEF StoreLoads
  <1> QED
    BY <1>1, HistoryAlways, PTL

(* Between two operations the panel shows what a restart would find, as    *)
(* long as an index that is there can be read: one that cannot leaves an   *)
(* empty history in memory and the old one on the disk (RestartAgrees).    *)
THEOREM HistoryAgrees == ~Unreadable => (HistorySpec => []RestartAgrees)
PROOF
  <1> SUFFICES ASSUME ~Unreadable PROVE HistorySpec => []RestartAgrees
    OBVIOUS
  <1>1. HistoryInv => RestartAgrees
    BY IndexFound DEF HistoryInv, StoreInv, InSave, RestartAgrees
  <1> QED
    BY <1>1, HistoryAlways, PTL

(* Each session is in the history at most once and its notes are in the    *)
(* total once, whatever was saved again after a failure or a restart       *)
(* (CountedOnce).                                                          *)
THEOREM HistoryCounted == ~Unreadable => (HistorySpec => []CountedOnce)
PROOF
  <1> SUFFICES ASSUME ~Unreadable PROVE HistorySpec => []CountedOnce
    OBVIOUS
  <1>1. HistoryInv => CountedOnce
    <2> SUFFICES ASSUME HistoryInv PROVE CountedOnce
      OBVIOUS
    <2>1. Apart(g_history_store.records)
      BY DEF HistoryInv, StoreInv, AllSound, Sound
    <2>2. ~overtaken => g_history_store.total = g_history_store.since
      BY DEF HistoryInv, Totals, Counted
    <2> QED
      BY <2>1, <2>2 DEF CountedOnce, Apart
  <1> QED
    BY <1>1, HistoryAlways, PTL

(* In any list of records the slots, the record numbers and the sessions   *)
(* are apart, also where an index could not be read.                       *)
THEOREM HistoryApart == HistorySpec => []Apart(g_history_store.records)
PROOF
  <1>1. HistoryInv => Apart(g_history_store.records)
    BY DEF HistoryInv, StoreInv, AllSound, Sound
  <1> QED
    BY <1>1, HistoryAlways, PTL
=============================================================================
