------------------------------ MODULE FileStore ------------------------------
(***************************************************************************)
(* The files of the stages.  A file is in two places: its bytes on the     *)
(* disk of the service and its row in the database.  An upload writes the  *)
(* disk first and commits the row last, a deletion only marks the row, and *)
(* a download reads the row, looks for the bytes, and sends them when its  *)
(* session is closed.  Requests overlap as the process lets them, each may *)
(* fail between two of its steps, and the process may die.                 *)
(*                                                                         *)
(* An upload locks nothing others need, and two deletions write the same   *)
(* mark, so the UPDATE or INSERT of a request is one step with its commit. *)
(***************************************************************************)
EXTENDS ServerProcess, Authorization, Sequences, FiniteSetsExt

CONSTANTS
    Kinds,          \* what requests may ask
    Legacy,         \* files stored by an older build, under "uploads/"
    Sanitized,      \* Sanitized[name]: what sanitize_uploaded_filename makes of it
    Invalid,        \* a name of which nothing is left
    StageTeam       \* the assigned team of the stages, or NoTeam

\* The id of an uploaded file is fresh (uuid4): the identity of its upload.
Files == Requests \cup Legacy
FileTypes == {"Client RFQ", "Estimation Workbook", "Other"}

Uploads == [op : {"upload"}, name : DOMAIN Sanitized, type : FileTypes, fits : BOOLEAN]
Downloads == [op : {"download"}, file : Files]
Deletions == [op : {"delete"}, file : Files]

Required(ask) ==
    CASE ask.op = "upload"   -> Permission("rfq_stage", "add_file")
      [] ask.op = "download" -> Permission("file", "download")
      [] ask.op = "delete"   -> Permission("file", "delete")

ASSUME FilesAssumption ==
    /\ Kinds \subseteq Uploads \cup Downloads \cup Deletions
    /\ Requests \cap Legacy = {}
    /\ "uploads" \notin Files

VARIABLES
    disk,           \* the contents of the paths that exist
    rows,           \* the committed rows
    clock,          \* now() of the database: upload transactions begun so far
    tx              \* tx[p]: where request p is

store == <<disk, rows, clock>>
vars == <<processVars, store, tx>>

Whole(f) == [of |-> f, whole |-> TRUE]
Partial(f) == [of |-> f, whole |-> FALSE]

\* A plausible slip: a path without the id of the file.
PathByName(f, name) == <<Sanitized[name]>>

\* rfq_id/stage_id are the same for all files of a stage and left out.
PathOf(f, name) == <<f, Sanitized[name]>>

\* resolve_stored_file_path strips the prefix older builds stored.
Resolved(path) == IF Head(path) = "uploads" THEN Tail(path) ELSE path

LegacyPath(f) == <<"uploads", f>>

LegacyRow(f) == [path |-> LegacyPath(f), type |-> "Client RFQ", at |-> 0, deleted |-> FALSE]

NoAsk == [op |-> "none"]
NotAsked == [pc |-> "idle", ask |-> NoAsk, at |-> 0, path |-> <<>>, sent |-> {}, outcome |-> "none"]

Ended(outcome) == [NotAsked EXCEPT !.pc = "end", !.outcome = outcome]

Init ==
    /\ ProcessInit
    /\ disk = [path \in {Resolved(LegacyPath(f)) : f \in Legacy} |-> Whole(path[1])]
    /\ rows = [f \in Legacy |-> LegacyRow(f)]
    /\ clock = 0
    /\ tx = [p \in Requests |-> NotAsked]

-----------------------------------------------------------------------------
(* What the queries see.                                                   *)

\* get_by_id and list_by_stage: WHERE deleted_at IS NULL.
Listed == {f \in DOMAIN rows : ~ rows[f].deleted}

OfType(type) == {f \in Listed : rows[f].type = type}

\* _get_intelligence_milestones: when the latest file of a type was uploaded,
\* 0 for not available.
UpdatedAt(type) == IF OfType(type) = {} THEN 0 ELSE Max({rows[f].at : f \in OfType(type)})

-----------------------------------------------------------------------------
(* The requests.                                                           *)

Goes(p, pc) == tx' = [tx EXCEPT ![p].pc = pc]

\* The handler is over; its session is still open.
Returns(p, outcome) ==
    /\ tx' = [tx EXCEPT ![p].pc = "close", ![p].outcome = outcome]
    /\ LeavesLoop(p)

\* What the route passes to its handler: delete_file alone says who asks.
Passed(ask, auth) ==
    IF ask.op = "delete" THEN [op |-> "delete", file |-> ask.file, by |-> auth] ELSE ask

\* The dependencies admit the request, in a thread and before its session has
\* a connection, and the loop hands it to its handler.
Ask(p) ==
    /\ tx[p].pc = "idle"
    /\ \E ask \in Kinds, auth \in AuthContexts :
          /\ Admits(auth, Required(ask))
          /\ tx' = [tx EXCEPT ![p].pc = ask.op, ![p].ask = Passed(ask, auth)]
          /\ IF ask.op = "upload" THEN RunsOnLoop(p) ELSE LoopIsFree /\ UNCHANGED loop
    /\ UNCHANGED <<conns, store>>

\* No token, IAM does not vouch for it or cannot be asked, or the permission is
\* missing.
TurnAway(p) ==
    /\ tx[p].pc = "idle"
    /\ LoopIsFree
    /\ \/ ~ Bypass
       \/ \E ask \in Kinds, auth \in AuthContexts : ~ Admits(auth, Required(ask))
    /\ tx' = [tx EXCEPT ![p] = Ended("refused")]
    /\ UNCHANGED <<processVars, store>>

\* The lookup of the stage begins the transaction, and now() stays at that.
BeginUpload(p) ==
    /\ tx[p].pc = "upload"
    /\ Connects(p)
    /\ clock' = clock + 1
    /\ tx' = [tx EXCEPT ![p].pc = "open", ![p].at = clock + 1]
    /\ UNCHANGED <<loop, disk, rows>>

\* sanitize_uploaded_filename has something left.
NameIsValid(name) == Sanitized[name] # Invalid

\* The checks of the size and the name, and open(path, "wb").
OpenFile(p) ==
    /\ tx[p].pc = "open"
    /\ LET ask == tx[p].ask
           path == PathOf(p, ask.name)
       IN  IF ask.fits /\ NameIsValid(ask.name)
             THEN /\ disk' = [q \in DOMAIN disk \cup {path} |-> IF q = path THEN Partial(p) ELSE disk[q]]
                  /\ tx' = [tx EXCEPT ![p].pc = "write", ![p].path = path]
                  /\ UNCHANGED loop
             ELSE Returns(p, "refused") /\ UNCHANGED disk
    /\ UNCHANGED <<conns, rows, clock>>

WriteFile(p) ==
    /\ tx[p].pc = "write"
    /\ disk' = [disk EXCEPT ![tx[p].path] = Whole(p)]
    /\ Goes(p, "insert")
    /\ UNCHANGED <<processVars, rows, clock>>

\* add_file and the commit, which gives the connection back.
InsertRow(p) ==
    /\ tx[p].pc = "insert"
    /\ rows' = [f \in DOMAIN rows \cup {p} |->
                   IF f = p THEN [path |-> tx[p].path, type |-> tx[p].ask.type,
                                  at |-> tx[p].at, deleted |-> FALSE]
                   ELSE rows[f]]
    /\ Disconnects(p)
    /\ Goes(p, "reload")
    /\ UNCHANGED <<loop, disk, clock>>

\* file_to_schema reads the row again, on a connection of its own.
ReloadRow(p) ==
    /\ tx[p].pc = "reload"
    /\ Connects(p)
    /\ Returns(p, "stored")
    /\ UNCHANGED store

FindToDelete(p) ==
    /\ tx[p].pc = "delete"
    /\ Connects(p)
    /\ LET ask == tx[p].ask IN
       IF ask.file \in Listed /\ MayDelete(ask.by, StageTeam)
         THEN Goes(p, "mark") /\ UNCHANGED loop
         ELSE Returns(p, "refused")
    /\ UNCHANGED store

\* Plausible slips: the bytes go as well, or the row instead of a mark.
RemoveFile(p) ==
    LET f == tx[p].ask.file IN
    /\ tx[p].pc = "mark"
    /\ rows' = [rows EXCEPT ![f].deleted = TRUE]
    /\ disk' = [q \in DOMAIN disk \ {Resolved(rows[f].path)} |-> disk[q]]
    /\ Disconnects(p)
    /\ Returns(p, "deleted")
    /\ UNCHANGED clock

RemoveRow(p) ==
    /\ tx[p].pc = "mark"
    /\ rows' = [f \in DOMAIN rows \ {tx[p].ask.file} |-> rows[f]]
    /\ Disconnects(p)
    /\ Returns(p, "deleted")
    /\ UNCHANGED <<disk, clock>>

\* soft_delete and the commit.
MarkDeleted(p) ==
    /\ tx[p].pc = "mark"
    /\ rows' = [rows EXCEPT ![tx[p].ask.file].deleted = TRUE]
    /\ Disconnects(p)
    /\ Returns(p, "deleted")
    /\ UNCHANGED <<disk, clock>>

\* get_file_path: the row, and whether the path exists.
FindToSend(p) ==
    /\ tx[p].pc = "download"
    /\ Connects(p)
    /\ LET f == tx[p].ask.file IN
       IF f \in Listed /\ Resolved(rows[f].path) \in DOMAIN disk
         THEN /\ tx' = [tx EXCEPT ![p].pc = "close", ![p].outcome = "found",
                                  ![p].path = Resolved(rows[f].path)]
              /\ UNCHANGED loop
         ELSE Returns(p, "refused")
    /\ UNCHANGED store

\* The statement a handler is about to make finds no connection in time; an
\* upload may have been committed before.
PoolTimeout(p) ==
    /\ tx[p].pc \in {"upload", "reload", "delete", "download"}
    /\ TimesOut(p)
    /\ Returns(p, "failed")
    /\ UNCHANGED <<conns, store>>

\* The loop closes the session; a download is then answered with its file.
Close(p) ==
    /\ tx[p].pc = "close"
    /\ LoopIsFree
    /\ Disconnects(p)
    /\ IF tx[p].outcome = "found" THEN Goes(p, "send")
       ELSE tx' = [tx EXCEPT ![p] = Ended(tx[p].outcome)]
    /\ UNCHANGED <<loop, store>>

\* FileResponse sends what it finds at the path, if anything.
Send(p) ==
    /\ tx[p].pc = "send"
    /\ LoopIsFree
    /\ tx' = [tx EXCEPT ![p].pc = "end", ![p].outcome = "sent",
                        ![p].sent = IF tx[p].path \in DOMAIN disk THEN {disk[tx[p].path]} ELSE {}]
    /\ UNCHANGED <<processVars, store>>

Running == {"upload", "open", "write", "insert", "reload", "delete", "mark", "download"}

\* The disk is full or the database fails: the handler raises.
Fail(p) ==
    /\ tx[p].pc \in Running
    /\ Returns(p, "failed")
    /\ UNCHANGED <<conns, store>>

Active == {p \in Requests : tx[p].pc \notin {"idle", "end"}}

\* The process dies with all it was doing; it is started again at once.
Crash ==
    /\ Active # {}
    /\ ProcessDies
    /\ tx' = [p \in Requests |-> IF p \in Active
                                  THEN Ended("failed") ELSE tx[p]]
    /\ UNCHANGED store

Step(p) ==
    \/ BeginUpload(p) \/ OpenFile(p) \/ WriteFile(p) \/ InsertRow(p) \/ ReloadRow(p)
    \/ FindToDelete(p) \/ MarkDeleted(p)
    \/ FindToSend(p) \/ Send(p)
    \/ PoolTimeout(p) \/ Close(p)

Next ==
    \/ \E p \in Requests : Ask(p) \/ TurnAway(p) \/ Step(p) \/ Fail(p)
    \/ Crash

Spec == Init /\ [][Next]_vars

\* As long as some request can go on, one of them does.
FairSpec == Spec /\ WF_vars(\E p \in Requests : Step(p))

-----------------------------------------------------------------------------
(* What the two places tell of each other.                                 *)

TypeOK ==
    /\ loop \in Requests \cup {Nobody}
    /\ conns \subseteq Active /\ Cardinality(conns) <= PoolSize
    /\ \A q \in DOMAIN disk : q[1] \in Files /\ disk[q] \in [of : Files, whole : BOOLEAN]
    /\ DOMAIN rows \subseteq Files
    /\ \A f \in DOMAIN rows :
          /\ rows[f].type \in FileTypes
          /\ rows[f].at \in 0..clock
          /\ rows[f].deleted \in BOOLEAN
    /\ DOMAIN tx = Requests
    /\ \A p \in Requests :
          /\ tx[p].pc \in Running \cup {"idle", "close", "send", "end"}
          /\ tx[p].at \in 0..clock

\* Every row, deleted or not, leads to all the bytes of its own upload: no
\* request sees a row before its file is complete, files of the same name do
\* not overwrite each other, and rows of older builds still resolve.
RowsHaveTheirBytes ==
    \A f \in DOMAIN rows :
        LET path == Resolved(rows[f].path) IN path \in DOMAIN disk /\ disk[path] = Whole(f)

\* A download that was accepted sends the whole of the file it was asked for,
\* also when the file is deleted between the check and the stream.
AcceptedIsDelivered ==
    \A p \in Requests : tx[p].outcome = "sent" => tx[p].sent = {Whole(tx[p].ask.file)}

\* Bytes without a row are those of an upload under way or of one that failed:
\* an upload that was answered is never forgotten, whatever is deleted.
StrayBytesFailed ==
    \A q \in DOMAIN disk :
        LET f == disk[q].of IN
        f \notin DOMAIN rows =>
            f \in Requests /\ (tx[f].pc \in {"write", "insert"} \/ tx[f].outcome = "failed")

\* Each new file moves the milestone of its type (source package, workbook)
\* forward to its own time: uploaded_at is the beginning of the upload, and no
\* other upload may begin before it is committed, because uploads run on the
\* event loop.
NewFileMovesMilestone ==
    [][\A type \in FileTypes : \A f \in DOMAIN rows' \ DOMAIN rows :
          rows'[f].type = type =>
              UpdatedAt(type)' = rows'[f].at /\ UpdatedAt(type) < rows'[f].at]_vars

\* The process does not hang: an upload on the loop may wait for a connection
\* that only the loop can free, but not longer than the pool lets it.
RequestsEnd == Active # {} ~> Active = {}
=============================================================================
