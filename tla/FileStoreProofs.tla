--------------------------- MODULE FileStoreProofs ---------------------------
(***************************************************************************)
(* Proofs about FileStore, for any number of requests, any files of older  *)
(* builds, any pool and any way of sanitizing names: rows and bytes keep   *)
(* to each other through every overlap, failure and crash.                 *)
(***************************************************************************)
EXTENDS FileStore, FiniteSetTheorems, WellFoundedInduction, TLAPS

\* The types, which the prover needs whole.
Contents == [of : Files, whole : BOOLEAN]

Asks == Kinds \cup {NoAsk} \cup {Passed(ask, auth) : ask \in Kinds, auth \in AuthContexts}

OwnPaths == UNION {{PathOf(f, n) : n \in DOMAIN Sanitized} : f \in Files}

OldPaths == {LegacyPath(f) : f \in Legacy}

Paths == {<<>>} \cup OwnPaths \cup {Resolved(path) : path \in OldPaths}

PCs == Running \cup {"idle", "close", "send", "end"}

Outcomes == {"none", "refused", "failed", "stored", "deleted", "found", "sent"}

Sessions == [pc : PCs, ask : Asks, at : Nat, path : Paths, sent : SUBSET Contents,
             outcome : Outcomes]

RowTypes == [path : OwnPaths \cup OldPaths, type : FileTypes, at : Nat, deleted : BOOLEAN]

Types ==
    /\ loop \in Requests \cup {Nobody}
    /\ conns \subseteq Requests /\ IsFiniteSet(conns) /\ Cardinality(conns) <= PoolSize
    /\ disk \in [DOMAIN disk -> Contents]
    /\ DOMAIN rows \subseteq Files /\ rows \in [DOMAIN rows -> RowTypes]
    /\ clock \in Nat
    /\ tx \in [Requests -> Sessions]

RowsAreOld == \A f \in DOMAIN rows : rows[f].at \in 0..clock

\* A path begins with the file its bytes are of: no file writes over another.
PathsAreOwn == \A q \in DOMAIN disk : q[1] = disk[q].of

Uploading == {"upload", "open", "write", "insert"}

\* What request p may have reached, and in its session t with it.
Fits(p, t) ==
    /\ t.at \in 0..clock
    /\ t.pc \in Uploading => t.ask \in Uploads
    /\ t.pc \in Uploading \cup {"idle"} => p \notin DOMAIN rows
    /\ t.pc \in {"write", "insert"} =>
          /\ t.path \in OwnPaths \cap DOMAIN disk
          /\ disk[t.path].of = p
    /\ t.pc = "insert" => disk[t.path] = Whole(p)
    /\ t.pc \in Running \cup {"idle"} => t.outcome = "none"
    /\ p \in conns => t.pc \notin {"idle", "send", "end"}
    /\ t.pc = "send" => t.outcome = "found"
    /\ t.outcome = "found" =>
          /\ t.pc \in {"close", "send"}
          /\ t.ask.file \in DOMAIN rows
          /\ t.path \in DOMAIN disk
          /\ disk[t.path] = Whole(t.ask.file)
    /\ t.outcome = "sent" => t.pc = "end" /\ t.sent = {Whole(t.ask.file)}

IInv ==
    /\ Types
    /\ RowsAreOld
    /\ PathsAreOwn
    /\ \A p \in Requests : Fits(p, tx[p])
    /\ RowsHaveTheirBytes
    /\ StrayBytesFailed

-----------------------------------------------------------------------------
(* Paths.                                                                   *)

LEMMA OwnPathFacts ==
    ASSUME NEW f \in Files, NEW n \in DOMAIN Sanitized
    PROVE  /\ PathOf(f, n) \in OwnPaths
           /\ PathOf(f, n)[1] = f
           /\ Resolved(PathOf(f, n)) = PathOf(f, n)
<1>1. f # "uploads"
  BY FilesAssumption
<1> QED BY <1>1 DEF OwnPaths, PathOf, Resolved

LEMMA OwnPathsResolve ==
    ASSUME NEW path \in OwnPaths
    PROVE  Resolved(path) = path
<1>1. PICK f \in Files : path \in {PathOf(f, n) : n \in DOMAIN Sanitized}
  BY DEF OwnPaths
<1>2. PICK n \in DOMAIN Sanitized : path = PathOf(f, n)
  BY <1>1
<1> QED BY <1>1, <1>2, OwnPathFacts

LEMMA OldPathFacts ==
    ASSUME NEW f \in Legacy
    PROVE  /\ LegacyPath(f) \in OldPaths
           /\ Resolved(LegacyPath(f)) = <<f>>
           /\ <<f>>[1] = f
<1>1. Head(LegacyPath(f)) = "uploads" /\ Tail(LegacyPath(f)) = <<f>>
  BY DEF LegacyPath
<1> QED BY <1>1 DEF OldPaths, Resolved

LEMMA IInvInit == ASSUME Init PROVE IInv
<1> USE DEF Init, ProcessInit, vars, processVars, store
<1>1. DOMAIN disk = {<<f>> : f \in Legacy}
  BY OldPathFacts
<1>2. \A f \in Legacy : disk[<<f>>] = Whole(f) /\ <<f>>[1] = f
  BY <1>1, OldPathFacts
<1>3. \A f \in Legacy : LegacyRow(f) \in RowTypes
  BY OldPathFacts DEF LegacyRow, RowTypes, FileTypes
<1>4. \A f \in Legacy : f \in Files /\ f \notin Requests
  BY FilesAssumption DEF Files
<1>5. NotAsked \in Sessions
  BY DEF NotAsked, Sessions, PCs, Asks, Paths, Outcomes
<1>6. Types
  <2>1. disk \in [DOMAIN disk -> Contents]
    BY <1>1, <1>2, <1>4 DEF Contents, Whole
  <2>3. DOMAIN rows \subseteq Files /\ rows \in [DOMAIN rows -> RowTypes]
    BY <1>3, <1>4
  <2> QED BY <1>5, <2>1, <2>3, FS_EmptySet, PoolAssumption DEF Types
<1>7. RowsAreOld
  <2>1. \A f \in DOMAIN rows : rows[f].at = 0
    BY DEF LegacyRow
  <2>2. clock = 0
    OBVIOUS
  <2> QED BY <2>1, <2>2 DEF RowsAreOld
<1>8. PathsAreOwn
  BY <1>1, <1>2 DEF PathsAreOwn, Whole
<1>9. \A p \in Requests : Fits(p, tx[p])
  BY <1>4 DEF Fits, NotAsked, Uploading, Running
<1>10. RowsHaveTheirBytes
  BY <1>1, <1>2, OldPathFacts DEF RowsHaveTheirBytes, LegacyRow
<1>11. StrayBytesFailed
  BY <1>1, <1>2, <1>4 DEF StrayBytesFailed, Whole
<1> QED BY <1>6, <1>7, <1>8, <1>9, <1>10, <1>11 DEF IInv
-----------------------------------------------------------------------------
(* The process.                                                             *)

LEMMA PoolKept ==
    ASSUME Types, NEW p \in Requests, Connects(p) \/ Disconnects(p) \/ UNCHANGED conns
    PROVE  /\ conns' \subseteq conns \cup {p}
           /\ IsFiniteSet(conns')
           /\ Cardinality(conns') <= PoolSize
<1>1. IsFiniteSet(conns) /\ Cardinality(conns) \in Nat /\ Cardinality(conns) <= PoolSize
  BY FS_CardinalityType DEF Types
<1>2. CASE UNCHANGED conns
  BY <1>1, <1>2
<1>3. CASE conns' = conns \cup {p} /\ p \notin conns /\ ~ Exhausted
  <2>1. IsFiniteSet(conns \cup {p}) /\ Cardinality(conns \cup {p}) = Cardinality(conns) + 1
    BY <1>1, <1>3, FS_AddElement
  <2>2. Cardinality(conns) < PoolSize
    BY <1>1, <1>3, PoolAssumption DEF Exhausted
  <2> QED BY <1>1, <1>3, <2>1, <2>2, PoolAssumption
<1>4. CASE conns' = conns \ {p}
  <2>1. /\ IsFiniteSet(conns \ {p})
        /\ Cardinality(conns \ {p}) = IF p \in conns THEN Cardinality(conns) - 1 ELSE Cardinality(conns)
    BY <1>1, FS_RemoveElement
  <2> QED BY <1>1, <1>4, <2>1, PoolAssumption
<1> QED BY <1>2, <1>3, <1>4 DEF Connects, Disconnects

LEMMA LoopKept ==
    ASSUME Types, NEW p \in Requests,
           RunsOnLoop(p) \/ LeavesLoop(p) \/ UNCHANGED loop
    PROVE  loop' \in Requests \cup {Nobody}
BY DEF Types, RunsOnLoop, LeavesLoop

\* A step of p that leaves rows and bytes alone.
LEMMA QuietStep ==
    ASSUME IInv, NEW p \in Requests, NEW t \in Sessions,
           tx' = [tx EXCEPT ![p] = t],
           UNCHANGED <<disk, rows>>,
           clock' \in {clock, clock + 1},
           RunsOnLoop(p) \/ LeavesLoop(p) \/ UNCHANGED loop,
           Connects(p) \/ Disconnects(p) \/ UNCHANGED conns,
           Fits(p, t)',
           tx[p].pc \in {"write", "insert"} => t.pc \in {"write", "insert"} \/ t.outcome = "failed",
           tx[p].outcome = "failed" => t.outcome = "failed"
    PROVE  IInv'
<1>1. tx' \in [Requests -> Sessions] /\ tx'[p] = t /\ \A q \in Requests \ {p} : tx'[q] = tx[q]
  BY DEF IInv, Types
<1>2. Types'
  BY <1>1, PoolKept, LoopKept DEF IInv, Types
<1>3. RowsAreOld'
  BY DEF IInv, Types, RowsAreOld
<1>4. PathsAreOwn'
  BY DEF IInv, PathsAreOwn
<1>5. ASSUME NEW q \in Requests PROVE Fits(q, tx[q])'
  <2>1. CASE q = p
    BY <1>1, <2>1
  <2>2. CASE q # p
    <3>1. Fits(q, tx[q]) /\ tx'[q] = tx[q] /\ (q \in conns' => q \in conns)
      BY <1>1, <2>2, PoolKept DEF IInv
    <3>2. clock \in Nat /\ tx[q].at \in 0..clock'
      BY <3>1 DEF IInv, Types, Fits
    <3> QED BY <3>1, <3>2 DEF Fits
  <2> QED BY <2>1, <2>2
<1>6. RowsHaveTheirBytes'
  BY DEF IInv, RowsHaveTheirBytes
<1>7. StrayBytesFailed'
  BY <1>1 DEF IInv, StrayBytesFailed
<1> QED BY <1>2, <1>3, <1>4, <1>5, <1>6, <1>7 DEF IInv

-----------------------------------------------------------------------------
(* The requests, one lemma for each action.                                 *)

LEMMA EndedIsSession == \A outcome \in Outcomes : Ended(outcome) \in Sessions
<1>1. "end" \in PCs /\ NoAsk \in Asks /\ <<>> \in Paths
  BY DEF PCs, Asks, Paths
<1> QED BY <1>1 DEF Sessions, Ended, NotAsked

\* A handler that ends without having changed anything.
LEMMA ReturnStep ==
    ASSUME IInv, NEW p \in Requests, NEW outcome \in {"refused", "failed"},
           Returns(p, outcome), UNCHANGED store,
           tx[p].pc \in Running, outcome = "refused" => tx[p].pc \notin {"write", "insert"},
           Connects(p) \/ UNCHANGED conns
    PROVE  IInv'
<1>1. tx[p] \in Sessions /\ Fits(p, tx[p])
  BY DEF IInv, Types
<1>2. PICK t \in Sessions : t = [tx[p] EXCEPT !.pc = "close", !.outcome = outcome]
  BY <1>1 DEF Sessions, PCs, Outcomes
<1>3. tx' = [tx EXCEPT ![p] = t] /\ UNCHANGED <<disk, rows, clock>>
  BY <1>2 DEF Returns, store
<1>4. t.pc = "close" /\ t.outcome = outcome /\ t.at = tx[p].at
  BY <1>1, <1>2 DEF Sessions
<1>5. Fits(p, t)'
  BY <1>1, <1>3, <1>4 DEF Fits, Uploading, Running
<1>6. tx[p].outcome = "none"
  BY <1>1 DEF Fits
<1>7. LeavesLoop(p)
  BY DEF Returns
<1> QED BY <1>2, <1>3, <1>4, <1>5, <1>6, <1>7, QuietStep

LEMMA AskStep == ASSUME IInv, NEW p \in Requests, Ask(p) PROVE IInv'
<1>1. PICK ask \in Kinds, auth \in AuthContexts :
         /\ tx' = [tx EXCEPT ![p].pc = ask.op, ![p].ask = Passed(ask, auth)]
         /\ IF ask.op = "upload" THEN RunsOnLoop(p) ELSE LoopIsFree /\ UNCHANGED loop
  BY DEF Ask
<1>2. tx[p] \in Sessions /\ Fits(p, tx[p]) /\ tx[p].pc = "idle"
  BY DEF IInv, Types, Ask
<1>3. /\ ask.op \in {"upload", "download", "delete"}
      /\ ask.op = "upload" => ask \in Uploads /\ Passed(ask, auth) = ask
  BY FilesAssumption DEF Uploads, Downloads, Deletions, Passed
<1>4. PICK t \in Sessions : t = [tx[p] EXCEPT !.pc = ask.op, !.ask = Passed(ask, auth)]
  <2>1. ask.op \in PCs /\ Passed(ask, auth) \in Asks
    BY <1>3 DEF PCs, Running, Asks
  <2>2. [tx[p] EXCEPT !.pc = ask.op, !.ask = Passed(ask, auth)] \in Sessions
    BY <1>2, <2>1 DEF Sessions
  <2> QED BY <2>2
<1>5. tx' = [tx EXCEPT ![p] = t] /\ UNCHANGED <<disk, rows, clock, conns>>
  BY <1>1, <1>4 DEF Ask, store
<1>6. t.pc = ask.op /\ t.ask = Passed(ask, auth) /\ t.outcome = tx[p].outcome /\ t.at = tx[p].at
  BY <1>2, <1>4 DEF Sessions
<1>7. Fits(p, t)'
  BY <1>2, <1>3, <1>5, <1>6 DEF Fits, Uploading, Running
<1>8. RunsOnLoop(p) \/ UNCHANGED loop
  BY <1>1
<1> QED BY <1>2, <1>4, <1>5, <1>6, <1>7, <1>8, QuietStep

LEMMA TurnAwayStep == ASSUME IInv, NEW p \in Requests, TurnAway(p) PROVE IInv'
<1>1. tx[p] \in Sessions /\ Fits(p, tx[p]) /\ tx[p].pc = "idle"
  BY DEF IInv, Types, TurnAway
<1>2. PICK t \in Sessions : t = Ended("refused")
  BY EndedIsSession DEF Outcomes
<1>3. tx' = [tx EXCEPT ![p] = t] /\ UNCHANGED <<disk, rows, clock, conns, loop>>
  BY <1>2 DEF TurnAway, store, processVars
<1>4. t.pc = "end" /\ t.outcome = "refused" /\ t.at = 0
  BY <1>2 DEF Ended, NotAsked
<1>5. Fits(p, t)'
  BY <1>1, <1>3, <1>4 DEF Fits, Uploading, Running, IInv, Types
<1>6. tx[p].outcome = "none"
  BY <1>1 DEF Fits
<1> QED BY <1>1, <1>2, <1>3, <1>5, <1>6, QuietStep

LEMMA BeginUploadStep == ASSUME IInv, NEW p \in Requests, BeginUpload(p) PROVE IInv'
<1>1. tx[p] \in Sessions /\ Fits(p, tx[p]) /\ tx[p].pc = "upload" /\ clock \in Nat
  BY DEF IInv, Types, BeginUpload
<1>2. PICK t \in Sessions : t = [tx[p] EXCEPT !.pc = "open", !.at = clock + 1]
  <2>1. "open" \in PCs /\ clock + 1 \in Nat
    BY <1>1 DEF PCs, Running
  <2>2. [tx[p] EXCEPT !.pc = "open", !.at = clock + 1] \in Sessions
    BY <1>1, <2>1 DEF Sessions
  <2> QED BY <2>2
<1>3. tx' = [tx EXCEPT ![p] = t] /\ UNCHANGED <<disk, rows, loop>> /\ clock' = clock + 1
  BY <1>2 DEF BeginUpload
<1>4. t.pc = "open" /\ t.outcome = tx[p].outcome /\ t.at = clock + 1 /\ t.ask = tx[p].ask
  BY <1>1, <1>2 DEF Sessions
<1>5. Fits(p, t)'
  BY <1>1, <1>3, <1>4 DEF Fits, Uploading, Running
<1>6. Connects(p)
  BY DEF BeginUpload
<1> QED BY <1>1, <1>2, <1>3, <1>4, <1>5, <1>6, QuietStep

LEMMA RowsAreOfOthers ==
    ASSUME RowsHaveTheirBytes, NEW p, p \notin DOMAIN rows
    PROVE  \A f \in DOMAIN rows : disk[Resolved(rows[f].path)].of # p
<1> TAKE f \in DOMAIN rows
<1>1. disk[Resolved(rows[f].path)] = Whole(f)
  BY DEF RowsHaveTheirBytes
<1>2. Whole(f).of = f
  BY DEF Whole
<1> QED BY <1>1, <1>2

\* The path of p has no bytes that anybody counts on.
LEMMA OpenFileStep == ASSUME IInv, NEW p \in Requests, OpenFile(p) PROVE IInv'
<1> DEFINE path == PathOf(p, tx[p].ask.name)
<1>1. tx[p] \in Sessions /\ Fits(p, tx[p]) /\ tx[p].pc = "open"
  BY DEF IInv, Types, OpenFile
<1>2. tx[p].ask \in Uploads /\ p \notin DOMAIN rows /\ tx[p].outcome = "none"
  BY <1>1 DEF Fits, Uploading, Running
<1>3. CASE tx[p].ask.fits /\ NameIsValid(tx[p].ask.name)
  <2>1. PICK t \in Sessions : t = [tx[p] EXCEPT !.pc = "write", !.path = path]
    <3>1. "write" \in PCs /\ path \in Paths
      BY <1>2, OwnPathFacts DEF PCs, Running, Paths, Uploads, Files
    <3>2. [tx[p] EXCEPT !.pc = "write", !.path = path] \in Sessions
      BY <1>1, <3>1 DEF Sessions
    <3> QED BY <3>2
  <2>2. /\ tx' = [tx EXCEPT ![p] = t]
        /\ UNCHANGED <<loop, conns, rows, clock>>
        /\ disk' = [q \in DOMAIN disk \cup {path} |-> IF q = path THEN Partial(p) ELSE disk[q]]
    BY <1>3, <2>1 DEF OpenFile
  <2>3. /\ t.pc = "write" /\ t.path = path /\ t.outcome = "none"
        /\ t.ask = tx[p].ask /\ t.at = tx[p].at
    BY <1>1, <1>2, <2>1 DEF Sessions
  <2>4. path \in OwnPaths /\ path[1] = p
    BY <1>2, OwnPathFacts DEF Uploads, Files
  <2> HIDE DEF path
  <2>5. tx' \in [Requests -> Sessions] /\ tx'[p] = t /\ \A q \in Requests \ {p} : tx'[q] = tx[q]
    BY <2>2 DEF IInv, Types
  <2>6. \A q \in DOMAIN disk : disk[q].of # p => q \in DOMAIN disk' /\ disk'[q] = disk[q]
    BY <2>2, <2>4 DEF IInv, PathsAreOwn
  <2>7. path \in DOMAIN disk' /\ disk'[path] = Partial(p) /\ DOMAIN disk' = DOMAIN disk \cup {path}
    BY <2>2
  <2>8. Types'
    <3>1. Partial(p) \in Contents
      BY DEF Partial, Contents, Files
    <3> QED BY <2>2, <2>5, <3>1 DEF IInv, Types
  <2>9. RowsAreOld'
    BY <2>2 DEF IInv, RowsAreOld
  <2>10. PathsAreOwn'
    BY <2>2, <2>4 DEF IInv, PathsAreOwn, Partial
  <2>11. ASSUME NEW q \in Requests PROVE Fits(q, tx[q])'
    <3>1. CASE q = p
      BY <1>1, <1>2, <2>2, <2>3, <2>4, <2>5, <2>7, <3>1 DEF Fits, Uploading, Running, Partial
    <3>2. CASE q # p
      <4>1. Fits(q, tx[q]) /\ tx'[q] = tx[q]
        BY <2>5, <3>2 DEF IInv
      <4>2. /\ tx[q].pc \in {"write", "insert"} => disk[tx[q].path].of # p
            /\ tx[q].outcome = "found" => disk[tx[q].path].of # p
        BY <1>2, <3>2, <4>1 DEF Fits, Whole
      <4> QED BY <2>2, <2>6, <4>1, <4>2 DEF Fits
    <3> QED BY <3>1, <3>2
  <2>12. RowsHaveTheirBytes'
    <3>1. \A f \in DOMAIN rows : disk[Resolved(rows[f].path)].of # p
      BY <1>2, RowsAreOfOthers DEF IInv
    <3> QED BY <2>2, <2>6, <3>1 DEF IInv, RowsHaveTheirBytes
  <2>13. StrayBytesFailed'
    BY <2>2, <2>3, <2>5, <2>7 DEF IInv, StrayBytesFailed, Partial
  <2> QED BY <2>8, <2>9, <2>10, <2>11, <2>12, <2>13 DEF IInv
<1>4. CASE ~ (tx[p].ask.fits /\ NameIsValid(tx[p].ask.name))
  <2>1. Returns(p, "refused") /\ UNCHANGED store /\ UNCHANGED conns
    BY <1>4 DEF OpenFile, store
  <2> QED BY <1>1, <2>1, ReturnStep DEF Running
<1> QED BY <1>3, <1>4

LEMMA WriteFileStep == ASSUME IInv, NEW p \in Requests, WriteFile(p) PROVE IInv'
<1>1. tx[p] \in Sessions /\ Fits(p, tx[p]) /\ tx[p].pc = "write"
  BY DEF IInv, Types, WriteFile
<1>2. /\ p \notin DOMAIN rows /\ tx[p].outcome = "none"
      /\ tx[p].path \in DOMAIN disk /\ disk[tx[p].path].of = p
  BY <1>1 DEF Fits, Uploading, Running
<1>3. PICK t \in Sessions : t = [tx[p] EXCEPT !.pc = "insert"]
  BY <1>1 DEF Sessions, PCs, Running
<1>4. /\ tx' = [tx EXCEPT ![p] = t]
      /\ UNCHANGED <<loop, conns, rows, clock>>
      /\ disk' = [disk EXCEPT ![tx[p].path] = Whole(p)]
  BY <1>3 DEF WriteFile, Goes, processVars
<1>5. t.pc = "insert" /\ t.path = tx[p].path /\ t.outcome = "none" /\ t.ask = tx[p].ask /\ t.at = tx[p].at
  BY <1>1, <1>2, <1>3 DEF Sessions
<1>6. tx' \in [Requests -> Sessions] /\ tx'[p] = t /\ \A q \in Requests \ {p} : tx'[q] = tx[q]
  BY <1>4 DEF IInv, Types
<1>7. /\ DOMAIN disk' = DOMAIN disk
      /\ disk'[tx[p].path] = Whole(p)
      /\ \A q \in DOMAIN disk : disk[q].of # p => disk'[q] = disk[q]
      /\ \A q \in DOMAIN disk : disk'[q].of = disk[q].of
  BY <1>2, <1>4 DEF IInv, Types, Whole
<1>8. Types'
  <2>1. Whole(p) \in Contents
    BY DEF Whole, Contents, Files
  <2> QED BY <1>4, <1>6, <2>1 DEF IInv, Types
<1>9. RowsAreOld'
  BY <1>4 DEF IInv, RowsAreOld
<1>10. PathsAreOwn'
  BY <1>7 DEF IInv, PathsAreOwn
<1>11. ASSUME NEW q \in Requests PROVE Fits(q, tx[q])'
  <2>1. CASE q = p
    BY <1>1, <1>2, <1>4, <1>5, <1>6, <1>7, <2>1 DEF Fits, Uploading, Running, Whole
  <2>2. CASE q # p
    <3>1. Fits(q, tx[q]) /\ tx'[q] = tx[q]
      BY <1>6, <2>2 DEF IInv
    <3>2. tx[q].outcome = "found" \/ tx[q].pc = "insert" => disk[tx[q].path].of # p
      BY <1>2, <2>2, <3>1 DEF Fits, Whole
    <3> QED BY <1>4, <1>7, <3>1, <3>2 DEF Fits
  <2> QED BY <2>1, <2>2
<1>12. RowsHaveTheirBytes'
  <2>1. \A f \in DOMAIN rows : disk[Resolved(rows[f].path)].of # p
    BY <1>2, RowsAreOfOthers DEF IInv
  <2> QED BY <1>4, <1>7, <2>1 DEF IInv, RowsHaveTheirBytes
<1>13. StrayBytesFailed'
  BY <1>1, <1>4, <1>5, <1>6, <1>7 DEF IInv, StrayBytesFailed
<1> QED BY <1>8, <1>9, <1>10, <1>11, <1>12, <1>13 DEF IInv

LEMMA InsertRowStep == ASSUME IInv, NEW p \in Requests, InsertRow(p) PROVE IInv'
<1> DEFINE row == [path |-> tx[p].path, type |-> tx[p].ask.type, at |-> tx[p].at, deleted |-> FALSE]
<1>1. tx[p] \in Sessions /\ Fits(p, tx[p]) /\ tx[p].pc = "insert"
  BY DEF IInv, Types, InsertRow
<1>2. /\ tx[p].path \in OwnPaths \cap DOMAIN disk
      /\ disk[tx[p].path] = Whole(p)
      /\ tx[p].ask \in Uploads /\ tx[p].outcome = "none" /\ tx[p].at \in 0..clock
  BY <1>1 DEF Fits, Uploading, Running
<1>3. PICK t \in Sessions : t = [tx[p] EXCEPT !.pc = "reload"]
  BY <1>1 DEF Sessions, PCs, Running
<1>4. /\ tx' = [tx EXCEPT ![p] = t]
      /\ UNCHANGED <<loop, disk, clock>>
      /\ Disconnects(p)
      /\ DOMAIN rows' = DOMAIN rows \cup {p} /\ rows'[p] = row
      /\ \A f \in DOMAIN rows \ {p} : rows'[f] = rows[f]
      /\ rows' = [f \in DOMAIN rows \cup {p} |-> IF f = p THEN row ELSE rows[f]]
  BY <1>3 DEF InsertRow, Goes
<1>5. t.pc = "reload" /\ t.outcome = "none" /\ t.at = tx[p].at
  BY <1>1, <1>2, <1>3 DEF Sessions
<1>6. tx' \in [Requests -> Sessions] /\ tx'[p] = t /\ \A q \in Requests \ {p} : tx'[q] = tx[q]
  BY <1>4 DEF IInv, Types
<1>7. row \in RowTypes /\ row.path = tx[p].path /\ row.at = tx[p].at
  BY <1>1, <1>2 DEF RowTypes, Uploads, Sessions
<1> HIDE DEF row
<1>8. Types'
  <2>1. rows' \in [DOMAIN rows' -> RowTypes] /\ DOMAIN rows' \subseteq Files
    BY <1>4, <1>7 DEF IInv, Types, Files
  <2> QED BY <1>4, <1>6, <2>1, PoolKept DEF IInv, Types
<1>9. RowsAreOld'
  BY <1>2, <1>4, <1>7 DEF IInv, RowsAreOld
<1>10. PathsAreOwn'
  BY <1>4 DEF IInv, PathsAreOwn
<1>11. ASSUME NEW q \in Requests PROVE Fits(q, tx[q])'
  <2>1. CASE q = p
    BY <1>2, <1>4, <1>5, <1>6, <2>1 DEF Fits, Uploading, Running
  <2>2. CASE q # p
    <3>1. Fits(q, tx[q]) /\ tx'[q] = tx[q] /\ (q \in conns' => q \in conns)
      BY <1>4, <1>6, <2>2 DEF IInv, Disconnects
    <3> QED BY <1>4, <2>2, <3>1 DEF Fits
  <2> QED BY <2>1, <2>2
<1>12. RowsHaveTheirBytes'
  <2>1. Resolved(row.path) = tx[p].path
    BY <1>2, <1>7, OwnPathsResolve
  <2> QED BY <1>2, <1>4, <2>1 DEF IInv, RowsHaveTheirBytes
<1>13. StrayBytesFailed'
  BY <1>4, <1>6 DEF IInv, StrayBytesFailed
<1> QED BY <1>8, <1>9, <1>10, <1>11, <1>12, <1>13 DEF IInv

\* A handler that ends, and a file that was found or stored.
LEMMA ReloadRowStep == ASSUME IInv, NEW p \in Requests, ReloadRow(p) PROVE IInv'
<1>1. tx[p] \in Sessions /\ Fits(p, tx[p]) /\ tx[p].pc = "reload" /\ Connects(p) /\ Returns(p, "stored")
  BY DEF IInv, Types, ReloadRow
<1>2. PICK t \in Sessions : t = [tx[p] EXCEPT !.pc = "close", !.outcome = "stored"]
  BY <1>1 DEF Sessions, PCs, Outcomes
<1>3. tx' = [tx EXCEPT ![p] = t] /\ UNCHANGED <<disk, rows, clock>> /\ LeavesLoop(p)
  BY <1>1, <1>2 DEF ReloadRow, Returns, store
<1>4. t.pc = "close" /\ t.outcome = "stored" /\ t.at = tx[p].at
  BY <1>1, <1>2 DEF Sessions
<1>5. Fits(p, t)' /\ tx[p].outcome = "none"
  BY <1>1, <1>3, <1>4 DEF Fits, Uploading, Running
<1> QED BY <1>1, <1>3, <1>5, QuietStep

LEMMA FindToDeleteStep == ASSUME IInv, NEW p \in Requests, FindToDelete(p) PROVE IInv'
<1>1. tx[p] \in Sessions /\ Fits(p, tx[p]) /\ tx[p].pc = "delete" /\ Connects(p)
  BY DEF IInv, Types, FindToDelete
<1>2. CASE Returns(p, "refused")
  BY <1>1, <1>2, ReturnStep DEF FindToDelete, Running
<1>3. CASE Goes(p, "mark") /\ UNCHANGED loop
  <2>1. PICK t \in Sessions : t = [tx[p] EXCEPT !.pc = "mark"]
    BY <1>1 DEF Sessions, PCs, Running
  <2>2. tx' = [tx EXCEPT ![p] = t] /\ UNCHANGED <<disk, rows, clock, loop>>
    BY <1>3, <2>1 DEF FindToDelete, Goes, store
  <2>3. t.pc = "mark" /\ t.outcome = tx[p].outcome /\ t.at = tx[p].at
    BY <1>1, <2>1 DEF Sessions
  <2>4. Fits(p, t)'
    BY <1>1, <2>2, <2>3 DEF Fits, Uploading, Running
  <2> QED BY <1>1, <2>2, <2>3, <2>4, QuietStep
<1> QED BY <1>2, <1>3 DEF FindToDelete

LEMMA FindToSendStep == ASSUME IInv, NEW p \in Requests, FindToSend(p) PROVE IInv'
<1> DEFINE f == tx[p].ask.file
           path == Resolved(rows[f].path)
<1>1. tx[p] \in Sessions /\ Fits(p, tx[p]) /\ tx[p].pc = "download" /\ Connects(p)
  BY DEF IInv, Types, FindToSend
<1>2. CASE Returns(p, "refused")
  BY <1>1, <1>2, ReturnStep DEF FindToSend, Running
<1>3. CASE /\ f \in Listed
           /\ tx' = [tx EXCEPT ![p].pc = "close", ![p].outcome = "found", ![p].path = path]
           /\ UNCHANGED loop
  <2>1. f \in DOMAIN rows /\ path \in DOMAIN disk /\ disk[path] = Whole(f)
    BY <1>3 DEF Listed, IInv, RowsHaveTheirBytes
  <2>2. path \in Paths
    <3>1. rows[f].path \in OwnPaths \cup OldPaths
      BY <2>1 DEF IInv, Types, RowTypes
    <3> QED BY <3>1, OwnPathsResolve DEF Paths
  <2>3. PICK t \in Sessions : t = [tx[p] EXCEPT !.pc = "close", !.outcome = "found", !.path = path]
    <3>1. [tx[p] EXCEPT !.pc = "close", !.outcome = "found", !.path = path] \in Sessions
      BY <1>1, <2>2 DEF Sessions, PCs, Outcomes
    <3> QED BY <3>1
  <2>4. tx' = [tx EXCEPT ![p] = t] /\ UNCHANGED <<disk, rows, clock, loop>>
    BY <1>3, <2>3 DEF FindToSend, store
  <2>5. t.pc = "close" /\ t.outcome = "found" /\ t.at = tx[p].at /\ t.path = path /\ t.ask = tx[p].ask
    BY <1>1, <2>3 DEF Sessions
  <2>6. Fits(p, t)' /\ tx[p].outcome = "none"
    BY <1>1, <2>1, <2>4, <2>5 DEF Fits, Uploading, Running
  <2> QED BY <1>1, <2>4, <2>6, QuietStep
<1> QED BY <1>2, <1>3 DEF FindToSend

LEMMA PoolTimeoutStep == ASSUME IInv, NEW p \in Requests, PoolTimeout(p) PROVE IInv'
BY ReturnStep DEF PoolTimeout, Running

LEMMA FailStep == ASSUME IInv, NEW p \in Requests, Fail(p) PROVE IInv'
BY ReturnStep DEF Fail, Running

\* A mark moves nothing.
LEMMA MarkDeletedStep == ASSUME IInv, NEW p \in Requests, MarkDeleted(p) PROVE IInv'
<1>1. tx[p] \in Sessions /\ Fits(p, tx[p]) /\ tx[p].pc = "mark"
  BY DEF IInv, Types, MarkDeleted
<1>2. PICK t \in Sessions : t = [tx[p] EXCEPT !.pc = "close", !.outcome = "deleted"]
  BY <1>1 DEF Sessions, PCs, Outcomes
<1>3. /\ tx' = [tx EXCEPT ![p] = t]
      /\ UNCHANGED <<disk, clock>>
      /\ Disconnects(p) /\ LeavesLoop(p)
      /\ rows' = [rows EXCEPT ![tx[p].ask.file].deleted = TRUE]
  BY <1>2 DEF MarkDeleted, Returns
<1>4. t.pc = "close" /\ t.outcome = "deleted" /\ t.at = tx[p].at
  BY <1>1, <1>2 DEF Sessions
<1>5. tx' \in [Requests -> Sessions] /\ tx'[p] = t /\ \A q \in Requests \ {p} : tx'[q] = tx[q]
  BY <1>3 DEF IInv, Types
<1>6. /\ DOMAIN rows' = DOMAIN rows /\ rows' \in [DOMAIN rows -> RowTypes]
      /\ \A f \in DOMAIN rows : rows'[f].path = rows[f].path /\ rows'[f].at = rows[f].at
  BY <1>3 DEF IInv, Types, RowTypes
<1>7. Types'
  BY <1>3, <1>5, <1>6, PoolKept, LoopKept DEF IInv, Types
<1>8. RowsAreOld' /\ PathsAreOwn' /\ RowsHaveTheirBytes'
  BY <1>3, <1>6 DEF IInv, RowsAreOld, PathsAreOwn, RowsHaveTheirBytes
<1>9. ASSUME NEW q \in Requests PROVE Fits(q, tx[q])'
  <2>1. CASE q = p
    BY <1>1, <1>3, <1>4, <1>5, <1>6, <2>1 DEF Fits, Uploading, Running
  <2>2. CASE q # p
    <3>1. Fits(q, tx[q]) /\ tx'[q] = tx[q] /\ (q \in conns' => q \in conns)
      BY <1>3, <1>5, <2>2 DEF IInv, Disconnects
    <3> QED BY <1>3, <1>6, <3>1 DEF Fits
  <2> QED BY <2>1, <2>2
<1>10. StrayBytesFailed'
  BY <1>1, <1>3, <1>5, <1>6 DEF IInv, StrayBytesFailed, Fits, Running
<1> QED BY <1>7, <1>8, <1>9, <1>10 DEF IInv

LEMMA CloseStep == ASSUME IInv, NEW p \in Requests, Close(p) PROVE IInv'
<1>1. tx[p] \in Sessions /\ Fits(p, tx[p]) /\ tx[p].pc = "close" /\ clock \in Nat
  BY DEF IInv, Types, Close
<1>2. UNCHANGED <<disk, rows, clock, loop>> /\ Disconnects(p) /\ p \notin conns'
  BY DEF Close, store, Disconnects
<1>3. CASE tx[p].outcome = "found"
  <2>1. PICK t \in Sessions : t = [tx[p] EXCEPT !.pc = "send"]
    BY <1>1 DEF Sessions, PCs
  <2>2. tx' = [tx EXCEPT ![p] = t]
    BY <1>3, <2>1 DEF Close, Goes
  <2>3. /\ t.pc = "send" /\ t.outcome = tx[p].outcome /\ t.at = tx[p].at
        /\ t.path = tx[p].path /\ t.ask = tx[p].ask
    BY <1>1, <2>1 DEF Sessions
  <2>4. Fits(p, t)'
    BY <1>1, <1>2, <1>3, <2>3 DEF Fits, Uploading, Running
  <2> QED BY <1>1, <1>2, <2>2, <2>3, <2>4, QuietStep
<1>4. CASE tx[p].outcome # "found"
  <2>1. PICK t \in Sessions : t = Ended(tx[p].outcome)
    BY <1>1, EndedIsSession DEF Sessions
  <2>2. tx' = [tx EXCEPT ![p] = t]
    BY <1>4, <2>1 DEF Close
  <2>3. t.pc = "end" /\ t.outcome = tx[p].outcome /\ t.at = 0
    BY <2>1 DEF Ended, NotAsked
  <2>4. tx[p].outcome # "sent"
    BY <1>1 DEF Fits
  <2>5. Fits(p, t)'
    BY <1>1, <1>2, <1>4, <2>3, <2>4 DEF Fits, Uploading, Running
  <2> QED BY <1>1, <1>2, <2>2, <2>3, <2>5, QuietStep
<1> QED BY <1>3, <1>4

LEMMA SendStep == ASSUME IInv, NEW p \in Requests, Send(p) PROVE IInv'
<1> DEFINE sent == IF tx[p].path \in DOMAIN disk THEN {disk[tx[p].path]} ELSE {}
<1>1. tx[p] \in Sessions /\ Fits(p, tx[p]) /\ tx[p].pc = "send"
  BY DEF IInv, Types, Send
<1>2. sent = {Whole(tx[p].ask.file)} /\ p \notin conns /\ tx[p].outcome = "found"
  BY <1>1 DEF Fits
<1>3. PICK t \in Sessions : t = [tx[p] EXCEPT !.pc = "end", !.outcome = "sent", !.sent = sent]
  <2>1. sent \in SUBSET Contents
    BY DEF IInv, Types
  <2>2. [tx[p] EXCEPT !.pc = "end", !.outcome = "sent", !.sent = sent] \in Sessions
    BY <1>1, <2>1 DEF Sessions, PCs, Outcomes
  <2> QED BY <2>2
<1>4. tx' = [tx EXCEPT ![p] = t] /\ UNCHANGED <<disk, rows, clock, conns, loop>>
  BY <1>3 DEF Send, store, processVars
<1>5. /\ t.pc = "end" /\ t.outcome = "sent" /\ t.sent = {Whole(t.ask.file)}
      /\ t.at = tx[p].at /\ t.ask = tx[p].ask
  BY <1>1, <1>2, <1>3 DEF Sessions
<1>6. Fits(p, t)'
  BY <1>1, <1>2, <1>4, <1>5 DEF Fits, Uploading, Running
<1> QED BY <1>1, <1>2, <1>4, <1>6, QuietStep

\* All that were at work have failed, and what is stored is as it was.
LEMMA CrashStep == ASSUME IInv, Crash PROVE IInv'
<1> DEFINE t == Ended("failed")
<1>1. t \in Sessions /\ t.pc = "end" /\ t.outcome = "failed" /\ t.at = 0
  BY EndedIsSession DEF Outcomes, Ended, NotAsked
<1>2. /\ tx' = [p \in Requests |-> IF p \in Active THEN t ELSE tx[p]]
      /\ UNCHANGED <<disk, rows, clock>>
      /\ loop' = Nobody /\ conns' = {}
  BY DEF Crash, ProcessDies, store
<1> HIDE DEF t
<1>3. Types'
  BY <1>1, <1>2, FS_EmptySet, PoolAssumption DEF IInv, Types
<1>4. RowsAreOld' /\ PathsAreOwn' /\ RowsHaveTheirBytes'
  BY <1>2 DEF IInv, RowsAreOld, PathsAreOwn, RowsHaveTheirBytes
<1>5. ASSUME NEW q \in Requests PROVE Fits(q, tx[q])'
  <2>1. CASE q \in Active
    <3>1. tx'[q] = t /\ clock \in Nat
      BY <1>2, <2>1 DEF IInv, Types
    <3> QED BY <1>1, <1>2, <3>1 DEF Fits, Uploading, Running
  <2>2. CASE q \notin Active
    <3>1. tx'[q] = tx[q] /\ Fits(q, tx[q])
      BY <1>2, <2>2 DEF IInv
    <3> QED BY <1>2, <3>1 DEF Fits
  <2> QED BY <2>1, <2>2
<1>6. StrayBytesFailed'
  <2>1. ASSUME NEW p \in Requests PROVE tx'[p].outcome = "failed" \/ (tx'[p] = tx[p] /\ p \notin Active)
    BY <1>1, <1>2
  <2>2. \A p \in Requests : p \notin Active => tx[p].pc \notin {"write", "insert"}
    BY DEF Active
  <2> QED BY <1>2, <2>1, <2>2 DEF IInv, StrayBytesFailed
<1> QED BY <1>3, <1>4, <1>5, <1>6 DEF IInv

LEMMA IInvStep == ASSUME IInv, [Next]_vars PROVE IInv'
<1>1. CASE UNCHANGED vars
  BY <1>1 DEF vars, processVars, store, IInv, Types, RowsAreOld, PathsAreOwn, Fits,
             RowsHaveTheirBytes, StrayBytesFailed
<1>2. CASE Crash
  BY <1>2, CrashStep
<1>3. ASSUME NEW p \in Requests, Ask(p) \/ TurnAway(p) \/ Step(p) \/ Fail(p) PROVE IInv'
  BY <1>3, AskStep, TurnAwayStep, FailStep, BeginUploadStep, OpenFileStep, WriteFileStep,
     InsertRowStep, ReloadRowStep, FindToDeleteStep, MarkDeletedStep, FindToSendStep,
     SendStep, PoolTimeoutStep, CloseStep DEF Step
<1> QED BY <1>1, <1>2, <1>3 DEF Next

LEMMA Invariance == Spec => []IInv
<1>1. Init => IInv
  BY IInvInit
<1>2. IInv /\ [Next]_vars => IInv'
  BY IInvStep
<1> QED BY <1>1, <1>2, PTL DEF Spec

-----------------------------------------------------------------------------
(* One upload at a time.                                                    *)

\* From the moment the loop hands an upload to its handler until that returns.
UploadPCs == Uploading \cup {"reload"}

\* An upload runs on the loop, so there is at most one; once it has begun, its
\* time is the latest that now() has told, and no row has it yet.
Alone(p) ==
    /\ tx[p].pc \in UploadPCs => loop = p
    /\ tx[p].pc \in {"open", "write", "insert"} =>
          tx[p].at = clock /\ clock > 0 /\ \A f \in DOMAIN rows : rows[f].at < clock

OneUpload == \A p \in Requests : Alone(p)

\* A step of p that begins and commits no upload leaves all others to theirs.
LEMMA OthersStayAlone ==
    ASSUME OneUpload, NEW p \in Requests,
           \A q \in Requests \ {p} : tx'[q] = tx[q],
           \/ tx[p].pc \in UploadPCs /\ (LeavesLoop(p) \/ UNCHANGED loop)
           \/ /\ RunsOnLoop(p) \/ LeavesLoop(p) \/ UNCHANGED loop
              /\ clock' = clock
              /\ \A f \in DOMAIN rows' : f \in DOMAIN rows /\ rows'[f].at = rows[f].at,
           Alone(p)'
    PROVE  OneUpload'
<1> SUFFICES ASSUME NEW q \in Requests, q # p PROVE Alone(q)'
  BY DEF OneUpload
<1>1. tx'[q] = tx[q] /\ Alone(q) /\ Alone(p) /\ q # Nobody
  BY PoolAssumption DEF OneUpload
<1>2. CASE tx[q].pc \in UploadPCs
  <2>1. loop = q
    BY <1>1, <1>2 DEF Alone
  <2>2. loop' = q
    BY <1>1, <2>1 DEF RunsOnLoop, LoopIsFree, LeavesLoop
  <2>3. tx[p].pc \notin UploadPCs
    BY <1>1, <2>1 DEF Alone
  <2> QED BY <1>1, <2>2, <2>3 DEF Alone
<1>3. CASE tx[q].pc \notin UploadPCs
  BY <1>1, <1>3 DEF Alone, UploadPCs, Uploading
<1> QED BY <1>2, <1>3

\* A handler that ends gives the loop back.
LEMMA ReturnedIsAlone ==
    ASSUME IInv, OneUpload, NEW p \in Requests, NEW outcome, Returns(p, outcome),
           clock' = clock,
           \A f \in DOMAIN rows' : f \in DOMAIN rows /\ rows'[f].at = rows[f].at
    PROVE  OneUpload'
<1>1. /\ tx[p] \in Sessions
      /\ tx'[p].pc = "close" /\ \A q \in Requests \ {p} : tx'[q] = tx[q]
  BY DEF IInv, Types, Returns, Sessions
<1>2. Alone(p)' /\ LeavesLoop(p)
  BY <1>1 DEF Alone, UploadPCs, Uploading, Returns
<1> QED BY <1>1, <1>2, OthersStayAlone

LEMMA MovedIsAlone ==
    ASSUME IInv, OneUpload, NEW p \in Requests, Goes(p, "mark") \/ Goes(p, "send"),
           UNCHANGED <<loop, rows, clock>>
    PROVE  OneUpload'
<1>1. /\ tx[p] \in Sessions
      /\ tx'[p].pc \in {"mark", "send"} /\ \A q \in Requests \ {p} : tx'[q] = tx[q]
  BY DEF IInv, Types, Goes, Sessions
<1>2. Alone(p)'
  BY <1>1 DEF Alone, UploadPCs, Uploading
<1> QED BY <1>1, <1>2, OthersStayAlone

LEMMA UploadStaysAlone ==
    ASSUME IInv, OneUpload, NEW p \in Requests,
           BeginUpload(p) \/ OpenFile(p) \/ WriteFile(p) \/ InsertRow(p) \/ ReloadRow(p)
    PROVE  OneUpload'
<1>1. tx[p] \in Sessions /\ tx[p].pc \in UploadPCs /\ loop = p /\ Alone(p) /\ clock \in Nat
  BY DEF IInv, Types, OneUpload, Alone, UploadPCs, Uploading, BeginUpload, OpenFile, WriteFile,
         InsertRow, ReloadRow
<1>2. CASE BeginUpload(p)
  <2>1. /\ \A q \in Requests \ {p} : tx'[q] = tx[q]
        /\ tx'[p].pc = "open" /\ tx'[p].at = clock + 1 /\ clock' = clock + 1
        /\ UNCHANGED <<loop, rows>>
    BY <1>1, <1>2 DEF BeginUpload, IInv, Types, Sessions
  <2>2. \A f \in DOMAIN rows : rows[f].at < clock + 1
    BY <1>1 DEF IInv, RowsAreOld
  <2> QED BY <1>1, <2>1, <2>2, OthersStayAlone DEF Alone
<1>3. CASE OpenFile(p)
  <2>1. CASE Returns(p, "refused")
    BY <1>3, <2>1, ReturnedIsAlone DEF OpenFile
  <2>2. CASE /\ tx' = [tx EXCEPT ![p].pc = "write", ![p].path = PathOf(p, tx[p].ask.name)]
             /\ UNCHANGED loop
    <3>1. /\ \A q \in Requests \ {p} : tx'[q] = tx[q]
          /\ tx'[p].pc = "write" /\ tx'[p].at = tx[p].at /\ UNCHANGED <<loop, rows, clock>>
      BY <1>1, <1>3, <2>2 DEF OpenFile, IInv, Types, Sessions
    <3>2. tx[p].pc = "open"
      BY <1>3 DEF OpenFile
    <3> QED BY <1>1, <3>1, <3>2, OthersStayAlone DEF Alone
  <2> QED BY <1>3, <2>1, <2>2 DEF OpenFile
<1>4. CASE WriteFile(p)
  <2>1. /\ \A q \in Requests \ {p} : tx'[q] = tx[q]
        /\ tx'[p].pc = "insert" /\ tx'[p].at = tx[p].at /\ UNCHANGED <<loop, rows, clock>>
    BY <1>1, <1>4 DEF WriteFile, Goes, processVars, IInv, Types, Sessions
  <2>2. tx[p].pc = "write"
    BY <1>4 DEF WriteFile
  <2> QED BY <1>1, <2>1, <2>2, OthersStayAlone DEF Alone
<1>5. CASE InsertRow(p)
  <2>1. /\ \A q \in Requests \ {p} : tx'[q] = tx[q]
        /\ tx'[p].pc = "reload" /\ UNCHANGED loop
    BY <1>1, <1>5 DEF InsertRow, Goes, IInv, Types, Sessions
  <2> QED BY <1>1, <2>1, OthersStayAlone DEF Alone
<1>6. CASE ReloadRow(p)
  BY <1>6, ReturnedIsAlone DEF ReloadRow, store
<1> QED BY <1>2, <1>3, <1>4, <1>5, <1>6

LEMMA OneUploadStep == ASSUME IInv, OneUpload, [Next]_vars PROVE OneUpload'
<1>1. CASE UNCHANGED vars
  BY <1>1 DEF vars, processVars, store, OneUpload, Alone
<1>2. CASE Crash
  <2>1. \A p \in Requests : tx'[p].pc \notin UploadPCs
    BY <1>2 DEF Crash, Active, Ended, NotAsked, UploadPCs, Uploading
  <2> QED BY <2>1 DEF OneUpload, Alone, UploadPCs, Uploading
<1>3. ASSUME NEW p \in Requests PROVE tx[p] \in Sessions
  BY DEF IInv, Types
<1>4. ASSUME NEW p \in Requests, Ask(p) PROVE OneUpload'
  <2>1. PICK ask \in Kinds, auth \in AuthContexts :
           /\ tx' = [tx EXCEPT ![p].pc = ask.op, ![p].ask = Passed(ask, auth)]
           /\ IF ask.op = "upload" THEN RunsOnLoop(p) ELSE LoopIsFree /\ UNCHANGED loop
    BY <1>4 DEF Ask
  <2>2. ask.op \in {"upload", "download", "delete"}
    BY FilesAssumption DEF Uploads, Downloads, Deletions
  <2>3. tx'[p].pc = ask.op /\ \A q \in Requests \ {p} : tx'[q] = tx[q]
    BY <1>3, <2>1 DEF IInv, Types, Sessions
  <2>4. Alone(p)'
    BY <2>1, <2>2, <2>3 DEF Alone, UploadPCs, Uploading, RunsOnLoop
  <2> QED BY <1>4, <2>1, <2>3, <2>4, OthersStayAlone DEF Ask, store
<1>5. ASSUME NEW p \in Requests, TurnAway(p) PROVE OneUpload'
  <2>1. tx'[p].pc = "end" /\ \A q \in Requests \ {p} : tx'[q] = tx[q]
    BY <1>5 DEF TurnAway, Ended, NotAsked, IInv, Types
  <2>2. Alone(p)'
    BY <2>1 DEF Alone, UploadPCs, Uploading
  <2> QED BY <1>5, <2>1, <2>2, OthersStayAlone DEF TurnAway, processVars, store
<1>6. ASSUME NEW p \in Requests, PoolTimeout(p) \/ Fail(p) PROVE OneUpload'
  BY <1>6, ReturnedIsAlone DEF PoolTimeout, Fail, store
<1>7. ASSUME NEW p \in Requests, FindToDelete(p) PROVE OneUpload'
  BY <1>7, ReturnedIsAlone, MovedIsAlone DEF FindToDelete, store
<1>8. ASSUME NEW p \in Requests, MarkDeleted(p) PROVE OneUpload'
  <2>1. /\ DOMAIN rows' = DOMAIN rows
        /\ \A f \in DOMAIN rows : rows'[f].at = rows[f].at
    BY <1>8 DEF MarkDeleted, IInv, Types, RowTypes
  <2> QED BY <1>8, <2>1, ReturnedIsAlone DEF MarkDeleted
<1>9. ASSUME NEW p \in Requests, FindToSend(p) PROVE OneUpload'
  <2>1. CASE Returns(p, "refused")
    BY <1>9, <2>1, ReturnedIsAlone DEF FindToSend, store
  <2>2. CASE ~ Returns(p, "refused")
    <3>1. tx'[p].pc = "close" /\ (\A q \in Requests \ {p} : tx'[q] = tx[q]) /\ UNCHANGED loop
      BY <1>3, <1>9, <2>2 DEF FindToSend, IInv, Types, Sessions
    <3>2. Alone(p)'
      BY <3>1 DEF Alone, UploadPCs, Uploading
    <3> QED BY <1>9, <3>1, <3>2, OthersStayAlone DEF FindToSend, store
  <2> QED BY <2>1, <2>2
<1>10. ASSUME NEW p \in Requests, Close(p) \/ Send(p) PROVE OneUpload'
  <2>1. CASE Goes(p, "send")
    BY <1>10, <2>1, MovedIsAlone DEF Close, Send, store, processVars
  <2>2. CASE ~ Goes(p, "send")
    <3>1. tx'[p].pc = "end" /\ (\A q \in Requests \ {p} : tx'[q] = tx[q]) /\ UNCHANGED loop
      <4>1. CASE Close(p)
        BY <2>2, <4>1 DEF Close, Ended, NotAsked, IInv, Types
      <4>2. CASE Send(p)
        BY <1>3, <4>2 DEF Send, processVars, IInv, Types, Sessions
      <4> QED BY <1>10, <4>1, <4>2
    <3>2. Alone(p)'
      BY <3>1 DEF Alone, UploadPCs, Uploading
    <3> QED BY <1>10, <3>1, <3>2, OthersStayAlone DEF Close, Send, store
  <2> QED BY <2>1, <2>2
<1> QED BY <1>1, <1>2, <1>4, <1>5, <1>6, <1>7, <1>8, <1>9, <1>10, UploadStaysAlone DEF Next, Step

\* Two uploads are never under way together: the async handler of one keeps the
\* loop until it returns, and no transaction of an upload begins between
\* another's and its commit.
THEOREM UploadsAreAlone == Spec => []OneUpload
<1>1. Init => OneUpload
  BY DEF Init, NotAsked, OneUpload, Alone, UploadPCs, Uploading
<1>2. IInv /\ OneUpload /\ [Next]_vars => OneUpload'
  BY OneUploadStep
<1> QED BY <1>1, <1>2, Invariance, PTL DEF Spec

-----------------------------------------------------------------------------
(* The latest of a set of times.                                            *)

LEMMA GreatestExists ==
    ASSUME NEW n \in Nat, NEW S \in SUBSET (0..n), S # {}
    PROVE  \E x \in S : \A y \in S : x >= y
<1> DEFINE from(x) == x..n
           T == {from(x) : x \in S}
<1>1. \A x \in S : from(x) \in FiniteSubsetsOf(Nat)
  BY FS_Interval DEF FiniteSubsetsOf
<1>2. T \subseteq FiniteSubsetsOf(Nat) /\ T # {}
  BY <1>1
<1>3. \E t \in T : \A u \in T : <<u, t>> \notin StrictSubsetOrdering(Nat)
  BY <1>2, FS_StrictSubsetOrderingWellFounded, WFMin
<1>4. PICK x \in S : \A y \in S : <<from(y), from(x)>> \notin StrictSubsetOrdering(Nat)
  BY <1>3
<1>5. ASSUME NEW y \in S, y > x
      PROVE  FALSE
  <2>1. from(y) \subseteq from(x) /\ x \in from(x) /\ x \notin from(y)
    BY <1>5
  <2>2. from(y) # from(x)
    BY <2>1
  <2>3. from(x) \in SUBSET Nat /\ from(y) \in SUBSET Nat
    OBVIOUS
  <2>4. <<from(y), from(x)>> \in StrictSubsetOrdering(Nat)
    <3> HIDE DEF from
    <3> QED BY <2>1, <2>2, <2>3 DEF StrictSubsetOrdering
  <2> QED BY <1>4, <2>4
<1>6. \A y \in S : x >= y
  BY <1>5
<1> QED BY <1>6

LEMMA MaxIsGreatest ==
    ASSUME NEW n \in Nat, NEW S \in SUBSET (0..n), S # {}
    PROVE  Max(S) \in S /\ \A y \in S : Max(S) >= y
BY GreatestExists DEF Max

\* The milestone of a type is the time of one of its files and of none later.
LEMMA MilestoneIsLatest ==
    ASSUME IInv, NEW type, OfType(type) # {}
    PROVE  /\ \E f \in OfType(type) : UpdatedAt(type) = rows[f].at
           /\ \A f \in OfType(type) : rows[f].at <= UpdatedAt(type)
<1> DEFINE times == {rows[f].at : f \in OfType(type)}
<1>1. clock \in Nat /\ times \in SUBSET (0..clock) /\ times # {}
  BY DEF IInv, Types, RowsAreOld, OfType, Listed
<1>2. UpdatedAt(type) = Max(times)
  BY DEF UpdatedAt
<1> HIDE DEF times
<1>3. Max(times) \in times /\ \A y \in times : Max(times) >= y
  BY <1>1, MaxIsGreatest
<1> QED BY <1>1, <1>2, <1>3 DEF times

\* Only a commit of an upload adds a row, and it is later than all that are there.
LEMMA NewRowIsLast ==
    ASSUME IInv, OneUpload, [Next]_vars,
           NEW type \in FileTypes, NEW f \in DOMAIN rows' \ DOMAIN rows, rows'[f].type = type
    PROVE  UpdatedAt(type)' = rows'[f].at /\ UpdatedAt(type) < rows'[f].at
<1>1. PICK p \in Requests : InsertRow(p)
  BY DEF Next, Step, vars, store, Crash, Ask, TurnAway, BeginUpload, OpenFile, WriteFile,
         ReloadRow, FindToDelete, MarkDeleted, FindToSend, Send, PoolTimeout, Close, Fail
<1>2. /\ tx[p].at = clock /\ clock \in Nat /\ clock > 0
      /\ \A g \in DOMAIN rows : rows[g].at < clock /\ rows[g].at \in Nat
  BY <1>1 DEF InsertRow, OneUpload, Alone, IInv, Types, RowsAreOld
<1>3. /\ DOMAIN rows' = DOMAIN rows \cup {p} /\ f = p
      /\ rows'[p].at = clock /\ ~ rows'[p].deleted
      /\ \A g \in DOMAIN rows : g # p => rows'[g] = rows[g]
  BY <1>1, <1>2 DEF InsertRow
<1>4. p \in OfType(type)' /\ \A g \in OfType(type)' : g = p \/ g \in DOMAIN rows
  BY <1>3 DEF OfType, Listed
<1>5. UpdatedAt(type)' = clock
  <2> DEFINE times == {rows'[g].at : g \in OfType(type)'}
  <2>1. UpdatedAt(type)' = Max(times)
    BY <1>4 DEF UpdatedAt
  <2>2. clock \in times /\ \A at \in times : at \in 0..clock
    BY <1>2, <1>3, <1>4
  <2> HIDE DEF times
  <2>3. Max(times) \in times /\ Max(times) >= clock
    BY <1>2, <2>2, MaxIsGreatest
  <2>4. Max(times) \in 0..clock
    BY <2>2, <2>3
  <2>5. Max(times) = clock
    BY <1>2, <2>3, <2>4
  <2> QED BY <2>1, <2>5
<1>6. UpdatedAt(type) < clock
  <2>1. CASE OfType(type) = {}
    BY <1>1, <1>2, <2>1 DEF UpdatedAt, InsertRow
  <2>2. CASE OfType(type) # {}
    <3>1. PICK g \in OfType(type) : UpdatedAt(type) = rows[g].at
      BY <2>2, MilestoneIsLatest
    <3> QED BY <1>2, <3>1 DEF OfType, Listed
  <2> QED BY <2>1, <2>2
<1> QED BY <1>3, <1>5, <1>6

-----------------------------------------------------------------------------
(* The results.                                                             *)

\* Locations, rows, sessions and the pool keep their types, and only a request
\* at work holds a connection.
THEOREM TypesCorrect == Spec => []TypeOK
<1>1. ASSUME IInv PROVE TypeOK
  <2>1. conns \subseteq Active
    BY <1>1 DEF IInv, Types, Fits, Active
  <2>2. \A q \in DOMAIN disk : q[1] \in Files /\ disk[q] \in [of : Files, whole : BOOLEAN]
    BY <1>1 DEF IInv, Types, PathsAreOwn, Contents
  <2>3. \A f \in DOMAIN rows :
           rows[f].type \in FileTypes /\ rows[f].at \in 0..clock /\ rows[f].deleted \in BOOLEAN
    BY <1>1 DEF IInv, Types, RowsAreOld, RowTypes
  <2>4. \A p \in Requests :
           tx[p].pc \in Running \cup {"idle", "close", "send", "end"} /\ tx[p].at \in 0..clock
    BY <1>1 DEF IInv, Types, Sessions, PCs, Fits
  <2> QED BY <1>1, <2>1, <2>2, <2>3, <2>4 DEF IInv, Types, TypeOK
<1> QED BY <1>1, Invariance, PTL

\* No request ever sees a row without the whole of its own bytes.
THEOREM RowsComplete == Spec => []RowsHaveTheirBytes
<1>1. IInv => RowsHaveTheirBytes
  BY DEF IInv
<1> QED BY <1>1, Invariance, PTL

\* A download that was accepted delivers its file, deleted or not.
THEOREM DownloadsComplete == Spec => []AcceptedIsDelivered
<1>1. IInv => AcceptedIsDelivered
  BY DEF IInv, Fits, AcceptedIsDelivered
<1> QED BY <1>1, Invariance, PTL

\* Only uploads under way or failed leave bytes that no row knows.
THEOREM StraysExplained == Spec => []StrayBytesFailed
<1>1. IInv => StrayBytesFailed
  BY DEF IInv
<1> QED BY <1>1, Invariance, PTL

\* Uploads follow each other on the loop, and a new row moves the milestone of
\* its type forward to its own time.
THEOREM MilestonesMoveForward == Spec => NewFileMovesMilestone
<1>1. IInv /\ OneUpload /\ [Next]_vars =>
        [\A type \in FileTypes : \A f \in DOMAIN rows' \ DOMAIN rows :
            rows'[f].type = type =>
                UpdatedAt(type)' = rows'[f].at /\ UpdatedAt(type) < rows'[f].at]_vars
  BY NewRowIsLast
<1> QED BY <1>1, Invariance, UploadsAreAlone, PTL DEF Spec, NewFileMovesMilestone

-----------------------------------------------------------------------------
\* Whoever the route lets in to advance a stage may do it for any team: the
\* check of the controller turns only a stage without team away.  The modules
\* of the workflow therefore leave it out.
THEOREM TeamCheckFollows ==
    ASSUME NEW auth, NEW team, Admits(auth, Permission("rfq_stage", "advance"))
    PROVE  MayAdvanceFor(auth, team) <=> team # NoTeam
<1>1. Permission("rfq_stage", "advance")[1] = "rfq_stage"
  BY DEF Permission
<1> QED BY <1>1 DEF Admits, HasPermission, MayAdvanceFor, MayAdvanceAcross
=============================================================================
