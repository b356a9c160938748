---------------------------- MODULE AdoRecordset ----------------------------
(***************************************************************************)
(* The database wrapper (Baselib/AdoDatabase.cpp): a CADORecordset on a    *)
(* CADODatabase, used by one thread.  The wrapper keeps m_nEditStatus of    *)
(* its own beside the edit mode ADO keeps for the current record; ADO is    *)
(* external and modelled by what its documentation has the wrapper rely on: *)
(* moving to another record, and AddNew, first save the record being edited *)
(* (and may fail at it), Close while a record is edited fails, closing the  *)
(* connection closes its recordsets.                                       *)
(*                                                                         *)
(* What the caller puts in a field is a value of its own, so that the       *)
(* property can say where it ended.  A call that lets a _com_error escape   *)
(* changes what it had changed until then.                                 *)
(***************************************************************************)
EXTENDS Integers, FiniteSets, Sequences

CONSTANTS
    Values   \* what the caller puts, each once

VARIABLES
    connected,     \* the connection's state
    recordset,     \* the recordset's: "closed" or "open"
    m_nEditStatus, \* "none", "new" or "edit": dbEditNone, dbEditNew, dbEdit
    pending,       \* ADO: the current record is being edited
    buffered,      \* ADO: the values of the edit that are not saved
    saved,         \* the values in the table
    mine,          \* the values put since the caller's last Edit, AddNew or answer
    confirmed,     \* those an Update returned TRUE for
    withdrawn,     \* those an Update returned FALSE for, or the caller cancelled
    implicit       \* those ADO saved on its own, on a move or an AddNew

adoVars == <<connected, recordset, m_nEditStatus, pending, buffered, saved, mine,
             confirmed, withdrawn, implicit>>
tableVars == <<saved, confirmed, withdrawn, implicit>>

AdoInit ==
    /\ connected = FALSE /\ recordset = "closed"
    /\ m_nEditStatus = "none" /\ pending = FALSE
    /\ buffered = {} /\ saved = {} /\ mine = {}
    /\ confirmed = {} /\ withdrawn = {} /\ implicit = {}

IsOpen == connected /\ recordset = "open"

\* ADO's CancelUpdate, Update that works, and one that fails.
AdoCancel == pending' = FALSE /\ buffered' = {}
AdoSave ==
    /\ pending' = FALSE /\ buffered' = {}
    /\ saved' = saved \union buffered

-----------------------------------------------------------------------------
(* The connection: CADODatabase::Open and Close, and its loss. *)

OpenConnection ==
    /\ ~connected
    /\ connected' = TRUE
    /\ UNCHANGED <<recordset, m_nEditStatus, pending, buffered, mine, tableVars>>

\* Closed by the caller or lost: ADO closes the recordset and drops the edit.
\* m_nEditStatus is not told.
CloseConnection ==
    /\ connected
    /\ connected' = FALSE /\ recordset' = "closed"
    /\ AdoCancel
    /\ withdrawn' = withdrawn \union mine /\ mine' = {}
    /\ UNCHANGED <<m_nEditStatus, saved, confirmed, implicit>>

-----------------------------------------------------------------------------
(* Open and Close. *)

\* Close cancels an edit it knows of.  ADO refuses to close a record that is being
\* edited all the same, and the error escapes from Close and from what calls it.
Refused == IsOpen /\ m_nEditStatus = "none" /\ pending
EndEdit ==
    IF IsOpen /\ m_nEditStatus # "none"
    THEN /\ AdoCancel /\ m_nEditStatus' = "none"
         /\ withdrawn' = withdrawn \union mine /\ mine' = {}
    ELSE UNCHANGED <<m_nEditStatus, pending, buffered, withdrawn, mine>>

CloseRecordset ==
    /\ IsOpen /\ ~Refused
    /\ EndEdit
    /\ recordset' = "closed"
    /\ UNCHANGED <<connected, saved, confirmed, implicit>>

\* Open and Execute close first, and may then fail.
OpenRecordset ==
    /\ connected /\ ~Refused
    /\ EndEdit
    /\ recordset' \in {"open", "closed"}
    /\ UNCHANGED <<connected, saved, confirmed, implicit>>

-----------------------------------------------------------------------------
(* The record: Edit, AddNew, PutFieldValue, Update, CancelUpdate, Delete. *)

Edit ==
    /\ IsOpen
    /\ m_nEditStatus' = "edit"
    /\ UNCHANGED <<connected, recordset, pending, buffered, mine, tableVars>>

\* ADO's part of AddNew and of the moves when a record is being edited: it is saved,
\* or the call fails and nothing has happened.
SaveBefore == AdoSave /\ implicit' = implicit \union buffered

\* AddNew forgets the edit before it asks ADO.
AddNew ==
    /\ IsOpen
    /\ \/ /\ saved' = saved \union buffered /\ implicit' = implicit \union buffered
          /\ pending' = TRUE /\ buffered' = {}
          /\ m_nEditStatus' = "new" /\ mine' = {}
       \/ /\ m_nEditStatus' = "none"
          /\ UNCHANGED <<pending, buffered, saved, implicit, mine>>
    /\ UNCHANGED <<connected, recordset, confirmed, withdrawn>>

\* SetFieldValue, SetFieldEmpty and PutFieldValue: FALSE without an edit.
PutFieldValue(v) ==
    /\ IsOpen /\ m_nEditStatus # "none"
    /\ v \notin saved \union withdrawn \union mine \union buffered
    /\ pending' = TRUE
    /\ buffered' = buffered \union {v} /\ mine' = mine \union {v}
    /\ UNCHANGED <<connected, recordset, m_nEditStatus, tableVars>>

\* AppendChunk gives ADO the bytes without asking for an edit: ADO begins one that
\* the wrapper does not know of when there was none.
AppendChunk(v) ==
    /\ IsOpen
    /\ v \notin saved \union withdrawn \union mine \union buffered
    /\ pending' = TRUE
    /\ buffered' = buffered \union {v}
    /\ mine' = IF m_nEditStatus = "none" THEN mine ELSE mine \union {v}
    /\ UNCHANGED <<connected, recordset, m_nEditStatus, tableVars>>

\* AddNew with a CADORecordBinding adds the record and saves it at once, and looks
\* at the first of the two results only; the status is not touched.
AddNewBound(v) ==
    /\ IsOpen
    /\ v \notin saved \union withdrawn \union mine \union buffered
    /\ implicit' = implicit \union buffered
    /\ \/ saved' = saved \union buffered \union {v} /\ AdoCancel
       \/ saved' = saved \union buffered /\ pending' = TRUE /\ buffered' = {v}
    /\ UNCHANGED <<connected, recordset, m_nEditStatus, mine, confirmed, withdrawn>>

\* An Update that ADO fails is cancelled, so that its values cannot be saved later.
\* Without an edit it returns TRUE and does nothing.
UpdateLeavesEdit ==
    /\ IsOpen /\ m_nEditStatus # "none"
    /\ \/ AdoSave /\ confirmed' = confirmed \union mine /\ UNCHANGED withdrawn
       \/ /\ withdrawn' = withdrawn \union mine
          /\ UNCHANGED <<pending, buffered, saved, confirmed>>
    /\ m_nEditStatus' = "none" /\ mine' = {}
    /\ UNCHANGED <<connected, recordset, implicit>>
Update ==
    /\ IsOpen /\ m_nEditStatus # "none"
    /\ \/ AdoSave /\ confirmed' = confirmed \union mine /\ UNCHANGED withdrawn
       \/ /\ AdoCancel
          /\ withdrawn' = withdrawn \union mine
          /\ UNCHANGED <<saved, confirmed>>
    /\ m_nEditStatus' = "none" /\ mine' = {}
    /\ UNCHANGED <<connected, recordset, implicit>>

CancelUpdate ==
    /\ IsOpen
    /\ AdoCancel
    /\ m_nEditStatus' = "none"
    /\ withdrawn' = withdrawn \union mine /\ mine' = {}
    /\ UNCHANGED <<connected, recordset, saved, confirmed, implicit>>

\* The current record goes, with its edit.  The status stays if the Update that
\* follows fails; a Delete that ADO refuses leaves everything as it was.
Delete ==
    /\ IsOpen
    /\ AdoCancel
    /\ m_nEditStatus' \in {"none", m_nEditStatus}
    /\ withdrawn' = withdrawn \union mine /\ mine' = {}
    /\ UNCHANGED <<connected, recordset, saved, confirmed, implicit>>

\* MoveFirst, MoveNext, MovePrevious, MoveLast, the counting loop of GetRecordCount,
\* SetBookmark, FindFirst and FindNext.  The wrapper's own status stays.
Move ==
    /\ IsOpen /\ pending
    /\ SaveBefore
    /\ UNCHANGED <<connected, recordset, m_nEditStatus, mine, confirmed, withdrawn>>

AdoNext ==
    \/ OpenConnection \/ CloseConnection \/ OpenRecordset \/ CloseRecordset
    \/ Edit \/ AddNew \/ Update \/ CancelUpdate
    \/ \E v \in Values : PutFieldValue(v) \/ AppendChunk(v) \/ AddNewBound(v)
    \/ Delete \/ Move

AdoSpec == AdoInit /\ [][AdoNext]_adoVars

-----------------------------------------------------------------------------
\* The wrapper's answers are true of the table: what an Update returned TRUE for is
\* in it, and what the caller cancelled, closed over or got FALSE for never comes to
\* be in it, however the calls go on.  What ADO saves on its own, when the caller
\* moves or adds a record in the middle of an edit, is the exception: the wrapper
\* does not notice it (AdoDatabase.cpp 937-947 and 1279-1345).
UpdateKeepsItsWord ==
    /\ confirmed \subseteq saved
    /\ saved \cap withdrawn \subseteq implicit
=============================================================================
