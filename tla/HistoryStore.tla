---------------------------- MODULE HistoryStore ----------------------------
(***************************************************************************)
(* The history of counted sessions: src/un260/lv_system/                   *)
(* ui_history_data_fs.c, with the pending record of                        *)
(* counting/counting_history_service.c that is appended to it.             *)
(*                                                                         *)
(* Every change is made in memory and then saved: index.cfg is written to  *)
(* a temporary file, synced and renamed, and the directory is synced.  A   *)
(* save that fails is undone by loading the index again.  The slot files   *)
(* and meta.cfg are written after the index and never read; they are left  *)
(* out.  A record is the session it is of, one session counts one note,    *)
(* and the process may stop or the power go between any two steps.         *)
(***************************************************************************)
EXTENDS Naturals, Sequences, FiniteSets, FiniteSetsExt

CONSTANTS
  MaxRecords,   \* UI_HISTORY_MAX_RECORDS
  MaxSession,   \* bound: sessions counted
  MaxEdits,     \* bound: selections, deletions and clears by the user
  MaxFaults,    \* bound: calls that fail, restarts and power losses
  Unreadable    \* whether the load after a failed save may fail to open or to
                \* read an index that is there

ASSUME StoreAssumption ==
  /\ MaxRecords \in Nat \ {0} /\ MaxSession \in Nat
  /\ MaxEdits \in Nat /\ MaxFaults \in Nat /\ Unreadable \in BOOLEAN

VARIABLES
  g_history_store,
  g_history_loaded,
  pc,        \* "idle", or how far history_save_all() is: "write", "flushed",
             \* "synced" (the temporary file), "renamed"
  appending, \* the save is that of ui_history_record_append_from_session()
  pending,   \* session->history_record: its session and total_after
  index,     \* what index.cfg holds
  firm,      \* the contents of index.cfg are on the disk, not only in its cache
  old,       \* what a power loss may bring back instead of index
  session, edits, faults,
  overtaken  \* history: the total was cleared while a record was pending

diskVars == <<index, firm, old>>
boundVars == <<session, edits, faults, overtaken>>
storeVars == <<g_history_store, g_history_loaded, pc, appending, pending, diskVars, boundVars>>

(* history_store_reset().  The last field is history: the sessions         *)
(* appended since the total was cleared.                                   *)
Empty == [records |-> <<>>, next_record_no |-> 1, next_slot_no |-> 1, total |-> 0,
          since |-> 0]
NoPending == [of |-> 0, total_after |-> 0]

(* The contents of index.cfg.                                              *)
NoIndex == [kind |-> "none", store |-> Empty]
Torn == [kind |-> "torn", store |-> Empty]
Written(store) == [kind |-> "index", store |-> store]

HistoryInit ==
  /\ g_history_store = Empty /\ g_history_loaded = FALSE
  /\ pc = "idle" /\ appending = FALSE /\ pending = NoPending
  /\ index = NoIndex /\ firm = TRUE /\ old = {}
  /\ session = 0 /\ edits = 0 /\ faults = 0 /\ overtaken = FALSE

Fault == faults < MaxFaults /\ faults' = faults + 1

-----------------------------------------------------------------------------
(* The operations on the store in memory.                                  *)
RecordNos(records) == {records[i].record_no : i \in DOMAIN records}

(* The records at the given positions, in their order.                     *)
Keep(records, positions) ==
  [n \in 1 .. Cardinality(positions) |->
     records[CHOOSE i \in positions : Cardinality({j \in positions : j <= i}) = n]]

(* history_insert_front(): replaces the record that has the slot.          *)
InsertFront(record, records) ==
  LET others == Keep(records, {i \in DOMAIN records : records[i].slot_no # record.slot_no})
  IN  <<record>> \o (IF Len(others) >= MaxRecords THEN SubSeq(others, 1, MaxRecords - 1)
                                                  ELSE others)

NextSlot(slot) == (slot % MaxRecords) + 1

Appended(store, record) ==
  [store EXCEPT
     !.records = InsertFront([slot_no |-> store.next_slot_no, selected |-> FALSE,
                              record_no |-> store.next_record_no, of |-> record.of], @),
     !.total = record.total_after,
     !.next_record_no = @ + 1,
     !.next_slot_no = NextSlot(@),
     !.since = @ + 1]

(* ui_history_record_delete_selected(): the rest gets slots 1, 2, ... anew.*)
Deleted(store) ==
  LET kept == Keep(store.records,
                   {i \in DOMAIN store.records : ~store.records[i].selected})
  IN  [store EXCEPT !.records = [i \in DOMAIN kept |-> [kept[i] EXCEPT !.slot_no = i]],
                    !.next_slot_no = Len(kept) + 1,
                    !.next_record_no = Max({0} \cup RecordNos(kept)) + 1]

Selections(store) == \* toggled, all selected or none
  LET Marked(S) == [store EXCEPT !.records = [i \in DOMAIN @ |-> [@[i] EXCEPT !.selected = i \in S]]]
      now == {i \in DOMAIN store.records : store.records[i].selected}
  IN  {Marked((now \cup {i}) \ (now \cap {i})) : i \in DOMAIN store.records}
        \cup {Marked({}), Marked(DOMAIN store.records)}

-----------------------------------------------------------------------------
(* history_load_from_file(): an index it cannot use counts as no index.    *)
Loadable(store) ==
  LET records == store.records
  IN  /\ \A i, j \in DOMAIN records :
           i # j => /\ records[i].slot_no # records[j].slot_no
                    /\ records[i].record_no # records[j].record_no
      /\ \A i \in DOMAIN records : records[i].slot_no \in 1 .. MaxRecords
      /\ store.next_slot_no \in 1 .. MaxRecords
      /\ store.next_record_no > Max({0} \cup RecordNos(records))

Usable(content) == content.kind = "index" /\ Loadable(content.store)
Found(content) == IF Usable(content) THEN content.store ELSE Empty

Load ==
  /\ ~g_history_loaded
  /\ g_history_loaded' = TRUE
  /\ g_history_store' = Found(index)
  /\ UNCHANGED <<pc, appending, pending, diskVars, boundVars>>

Ready == pc = "idle" /\ g_history_loaded

-----------------------------------------------------------------------------
(* The counting side.  A record that waits is appended once its details    *)
(* are in, and again after a save that failed, until a new session         *)
(* replaces it.                                                            *)
SessionFinishes ==
  /\ Ready
  /\ session < MaxSession /\ session' = session + 1
  /\ pending' = [of |-> session', total_after |-> g_history_store.total + 1]
  /\ UNCHANGED <<g_history_store, g_history_loaded, pc, appending, diskVars, edits, faults,
                 overtaken>>

AppendPending ==
  /\ Ready
  /\ pending # NoPending
  /\ g_history_store' = Appended(g_history_store, pending)
  /\ pc' = "write" /\ appending' = TRUE
  /\ UNCHANGED <<g_history_loaded, pending, diskVars, boundVars>>

(* The history page.                                                       *)
Edit(store) ==
  /\ Ready
  /\ edits < MaxEdits /\ edits' = edits + 1
  /\ g_history_store' = store
  /\ pc' = "write" /\ appending' = FALSE
  /\ UNCHANGED <<g_history_loaded, pending, diskVars, session, faults>>

Select ==
  /\ \E store \in Selections(g_history_store) : Edit(store)
  /\ UNCHANGED overtaken

DeleteSelected ==
  /\ \E i \in DOMAIN g_history_store.records : g_history_store.records[i].selected
  /\ Edit(Deleted(g_history_store))
  /\ UNCHANGED overtaken

ClearTotal ==
  /\ Edit([g_history_store EXCEPT !.total = 0, !.since = 0])
  /\ overtaken' = (overtaken \/ pending # NoPending)

-----------------------------------------------------------------------------
(* history_save_or_reload(), one step per call that the disk can tell      *)
(* apart.  Errors of a directory sync are ignored.                         *)
OnDisk == IF firm THEN index ELSE Torn
SyncDirectory == old' \in {old, {}}

WriteTemporary ==
  /\ pc = "write"
  /\ pc' = "flushed"
  /\ SyncDirectory
  /\ UNCHANGED <<g_history_store, g_history_loaded, appending, pending, index, firm, boundVars>>

SyncTemporary ==
  /\ pc = "flushed"
  /\ pc' = "synced"
  /\ UNCHANGED <<g_history_store, g_history_loaded, appending, pending, diskVars, boundVars>>

Renamed ==
  /\ pc' = "renamed"
  /\ index' = Written(g_history_store)
  /\ firm' = (pc = "synced")
  /\ old' = old \cup {OnDisk}
  /\ UNCHANGED <<g_history_store, g_history_loaded, appending, pending, boundVars>>
Rename_Unsynced == pc \in {"flushed", "synced"} /\ Renamed \* mutant: renames what is not synced
Rename == pc = "synced" /\ Renamed

(* The save succeeded, and with it the append.                             *)
SaveDone_SyncMatters == \* mutant: fails when the directory could not be synced
  /\ pc = "renamed"
  /\ pc' = "idle"
  /\ SyncDirectory
  /\ pending' = IF appending /\ old' = {} THEN NoPending ELSE pending
  /\ UNCHANGED <<g_history_store, g_history_loaded, appending, index, firm, boundVars>>
SaveDone ==
  /\ pc = "renamed"
  /\ pc' = "idle"
  /\ SyncDirectory
  /\ pending' = IF appending THEN NoPending ELSE pending
  /\ UNCHANGED <<g_history_store, g_history_loaded, appending, index, firm, boundVars>>

(* Up to the rename a call may fail; then the store is loaded again at     *)
(* once, and is empty where the index does not open.                       *)
Reload_KeepsMemory == UNCHANGED g_history_store \* mutant
Reload == g_history_store' = Found(index) \/ (Unreadable /\ g_history_store' = Empty)

SaveFails ==
  /\ pc \in {"write", "flushed", "synced"}
  /\ Fault
  /\ pc' = "idle"
  /\ Reload
  /\ UNCHANGED <<g_history_loaded, appending, pending, diskVars, session, edits, overtaken>>

-----------------------------------------------------------------------------
(* The panel starts anew, after a stop of the program or a loss of power.  *)
Stops ==
  /\ Fault
  /\ g_history_store' = Empty /\ g_history_loaded' = FALSE
  /\ pc' = "idle" /\ appending' = FALSE /\ pending' = NoPending
  /\ UNCHANGED <<session, edits, overtaken>>

Restart == Stops /\ UNCHANGED diskVars

PowerLoss ==
  /\ Stops
  /\ index' \in old \cup {OnDisk}
  /\ firm' = TRUE /\ old' = {}

Save == WriteTemporary \/ SyncTemporary \/ Rename \/ SaveDone \/ SaveFails
User == Select \/ DeleteSelected \/ ClearTotal

HistoryNext == Load \/ SessionFinishes \/ AppendPending \/ User \/ Save \/ Restart \/ PowerLoss

HistorySpec == HistoryInit /\ [][HistoryNext]_storeVars

-----------------------------------------------------------------------------
Record == [slot_no : 1 .. MaxRecords, selected : BOOLEAN, record_no : Nat \ {0},
           of : 1 .. MaxSession]
IsStore(store) ==
  /\ Len(store.records) <= MaxRecords
  /\ \A i \in DOMAIN store.records : store.records[i] \in Record
  /\ store.next_slot_no \in 1 .. MaxRecords
  /\ store.next_record_no \in Nat \ {0} /\ store.total \in Nat

HistoryTypeOK ==
  /\ IsStore(g_history_store)
  /\ g_history_loaded \in BOOLEAN /\ appending \in BOOLEAN /\ overtaken \in BOOLEAN
  /\ pc \in {"idle", "write", "flushed", "synced", "renamed"}
  /\ pending \in [of : 0 .. MaxSession, total_after : Nat]
  /\ \A content \in old \cup {index} : IsStore(content.store)
  /\ firm \in BOOLEAN

(* Whatever a restart or a power loss finds, it can load: a check that one *)
(* index fails costs the whole history.  So appends and deletions in any   *)
(* order keep slots and record numbers apart and next_record_no ahead, and *)
(* no index is renamed into place before it is on the disk                 *)
(* (ui_history_data_fs.c:62-96, 673-705).                                  *)
StoreLoads == HistoryTypeOK /\ \A content \in old \cup {OnDisk} : content = NoIndex \/ Usable(content)

(* Between two operations the panel shows what a restart would find: "drop *)
(* changes in memory that did not reach the disk, so that the UI agrees    *)
(* with the state after a restart" (ui_history_data_fs.c:579-589, the      *)
(* comment at 585).                                                        *)
RestartAgrees == Ready => g_history_store = Found(index)

(* A session whose save is repeated after a failure, or after a restart,   *)
(* is in the history once, and its notes are in the total once: what       *)
(* happens after the rename is no reason to save again                     *)
(* (ui_history_data_fs.c:91).  Only a clear of the total while a record    *)
(* waits is overwritten by the total computed before it                    *)
(* (counting_info_reply.c:112, ui_history_data_fs.c:925).                  *)
CountedOnce ==
  /\ \A i, j \in DOMAIN g_history_store.records :
       g_history_store.records[i].of = g_history_store.records[j].of => i = j
  /\ Ready /\ ~overtaken => g_history_store.total = g_history_store.since
=============================================================================
