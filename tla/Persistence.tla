---------------------------- MODULE Persistence ----------------------------
(***************************************************************************)
(* The state file (src/src/pool/persistence.rs): load_state at start, the  *)
(* save of run_persistence_loop and the save that main makes at Ctrl+C,    *)
(* with failures of every file operation, and with the process killed at   *)
(* any point.  The file operations run on blocking threads: aborting the   *)
(* task of the loop lets the one that has begun go on.                     *)
(***************************************************************************)
EXTENDS Naturals, Sequences

CONSTANTS
  MaxVersion,  \* bound on the changes of the pool
  Long         \* the versions whose JSON is longer than that of the others

(* Version 0 is the empty pool. *)
Versions == 0..MaxVersion

ASSUME PersistenceAssumption ==
  MaxVersion \in Nat /\ Long \subseteq Versions

Writers == {"loop", "shutdown"}

(* Enough inodes for two names and two open files. *)
Inodes == 1..4
NoInode == 0

VARIABLES
  phase,     \* "running", "stopping" (after Ctrl+C) or "down"
  pool,      \* the version that is in memory
  latest,    \* the newest version there has been
  writer,    \* the two calls of save_state_to, see WriterRecord
  tmp,       \* the inode named state.json.tmp
  path,      \* the inode named state.json
  disk,      \* what each inode holds, a sequence of pieces
  overlap    \* Ctrl+C has met a save of the loop, and none has ended since

vars == <<phase, pool, latest, writer, tmp, path, disk, overlap>>
files == <<tmp, path, disk>>

(* Where save_state_to is:
     idle    not called             mkdir  in create_dir_all
     open    in fs::write, the file not yet created
     write   in fs::write, pos pieces written to fd
     rename  in rename              saved, failed  returned (shutdown only)
   version: the proxies that it has collected.                             *)
WriterRecord ==
  [pc : {"idle", "mkdir", "open", "write", "rename", "saved", "failed"},
   version : Versions, fd : Inodes \cup {NoInode}, pos : Nat]

IdleWriter == [pc |-> "idle", version |-> 0, fd |-> NoInode, pos |-> 0]
Calls(v) == [IdleWriter EXCEPT !.pc = "mkdir", !.version = v]

At(w, stage) == writer[w].pc = stage

(* The JSON of version v, complete, in the pieces in which it is written. *)
Length(v) == IF v \in Long THEN 2 ELSE 1
Json(v) == [i \in 1..Length(v) |-> v]

Holds(inode, v) == inode # NoInode /\ disk[inode] = Json(v)

(* serde_json::from_str accepts it. *)
Parses(inode) == \E v \in Versions : Holds(inode, v)

Init ==
  /\ phase = "running"
  /\ pool = 0 /\ latest = 0
  /\ writer = [w \in Writers |-> IdleWriter]
  /\ tmp = NoInode /\ path = NoInode
  /\ disk = [i \in Inodes |-> <<>>]
  /\ overlap = FALSE

-----------------------------------------------------------------------------
(* The pool changes; handlers of connections do so after Ctrl+C as well. *)
PoolChanges ==
  /\ phase # "down"
  /\ latest < MaxVersion
  /\ latest' = latest + 1
  /\ pool' = latest'
  /\ UNCHANGED <<phase, writer, files, overlap>>

(* run_persistence_loop: a tick, and save_state collects the proxies. *)
LoopTicks ==
  /\ phase = "running"
  /\ At("loop", "idle")
  /\ writer' = [writer EXCEPT !["loop"] = Calls(pool)]
  /\ UNCHANGED <<phase, pool, latest, files, overlap>>

(* save_state_to returns: the loop goes on to its next tick, main ends. *)
Returned(w, result) ==
  [writer EXCEPT ![w] = IF w = "loop" THEN IdleWriter
                        ELSE [@ EXCEPT !.pc = result, !.fd = NoInode, !.pos = 0]]

(* The next operation, unless the task has been aborted by now. *)
Proceeds(w, stage) ==
  IF w = "loop" /\ phase = "stopping" THEN Returned(w, "failed")
  ELSE [writer EXCEPT ![w].pc = stage]

DirExists(w) ==
  /\ At(w, "mkdir")
  /\ writer' = Proceeds(w, "open")
  /\ UNCHANGED <<phase, pool, latest, files, overlap>>

(* The inode that File::create gives: the one of that name, or a free one. *)
CreatedInode ==
  IF tmp # NoInode THEN tmp
  ELSE CHOOSE i \in Inodes : i # path /\ \A w \in Writers : writer[w].fd # i

Opens(w) ==
  /\ At(w, "open")
  /\ tmp' = CreatedInode
  /\ disk' = [disk EXCEPT ![tmp'] = <<>>]
  /\ writer' = [writer EXCEPT ![w].pc = "write", ![w].fd = tmp']
  /\ UNCHANGED <<phase, pool, latest, path, overlap>>

(* A write at the writer's own position: it replaces what is there, and past
   the end it leaves a gap of zeros, which are not of any version.          *)
Gap == MaxVersion + 1
PutPiece(s, n, v) ==
  [i \in 1..(IF Len(s) > n THEN Len(s) ELSE n) |->
     IF i = n THEN v ELSE IF i <= Len(s) THEN s[i] ELSE Gap]

Writes(w) ==
  LET r == writer[w] IN
  /\ At(w, "write")
  /\ r.pos < Length(r.version)
  /\ disk' = [disk EXCEPT ![r.fd] = PutPiece(@, r.pos + 1, r.version)]
  /\ writer' = [writer EXCEPT ![w].pos = @ + 1]
  /\ UNCHANGED <<phase, pool, latest, tmp, path, overlap>>

(* fs::write has written all and closed the file. *)
WritesEnd(w) ==
  /\ At(w, "write")
  /\ writer[w].pos = Length(writer[w].version)
  /\ writer' = [Proceeds(w, "rename") EXCEPT ![w].fd = NoInode, ![w].pos = 0]
  /\ UNCHANGED <<phase, pool, latest, files, overlap>>

(* Mutant: the name is taken away before the new file gets it. *)
RenamesLate(w) ==
  /\ At(w, "rename")
  /\ writer' = Returned(w, "saved")
  /\ path' = NoInode
  /\ overlap' = (overlap /\ phase # "running")
  /\ UNCHANGED <<phase, pool, latest, tmp, disk>>

Renames(w) ==
  /\ At(w, "rename")
  /\ tmp # NoInode
  /\ path' = tmp /\ tmp' = NoInode
  /\ writer' = Returned(w, "saved")
  /\ overlap' = (overlap /\ phase # "running")
  /\ UNCHANGED <<phase, pool, latest, disk>>

(* Mutant: after a failed write the file is renamed all the same. *)
FailsAndGoesOn(w) ==
  /\ writer[w].pc \in {"mkdir", "open", "write", "rename"}
  /\ writer' = IF At(w, "write")
               THEN [Proceeds(w, "rename") EXCEPT ![w].fd = NoInode, ![w].pos = 0]
               ELSE Returned(w, "failed")
  /\ UNCHANGED <<phase, pool, latest, files, overlap>>

(* The directory, the file, a write or the rename fails (a rename also because
   the other writer has renamed the file): the error is logged, the function
   returns, and the temporary file stays as it is.                           *)
Fails(w) ==
  /\ writer[w].pc \in {"mkdir", "open", "write", "rename"}
  /\ writer' = Returned(w, "failed")
  /\ UNCHANGED <<phase, pool, latest, files, overlap>>

-----------------------------------------------------------------------------
(* Ctrl+C: the tasks are aborted, and main calls save_state.  An operation of
   the loop that is on a blocking thread goes on; one that the task was about
   to ask for is never made.                                                *)
CtrlC ==
  /\ phase = "running"
  /\ phase' = "stopping"
  /\ \E rest \in {writer["loop"]} \cup
                 (IF At("loop", "write") THEN {} ELSE {IdleWriter}) :
       /\ writer' = [loop |-> rest, shutdown |-> Calls(pool)]
       /\ overlap' = (overlap \/ rest.pc \in {"open", "write", "rename"})
  /\ UNCHANGED <<pool, latest, files>>

(* Mutant: main repeats the save until it succeeds, and gives up on none. *)
ExitsIfSaved ==
  /\ phase = "stopping"
  /\ At("shutdown", "saved")
  /\ ~At("loop", "write")
  /\ phase' = "down"
  /\ writer' = [w \in Writers |-> IdleWriter]
  /\ UNCHANGED <<pool, latest, files, overlap>>

(* main returns.  The runtime waits for blocking operations that have begun
   and drops those that have not.                                           *)
Exits ==
  /\ phase = "stopping"
  /\ writer["shutdown"].pc \in {"saved", "failed"}
  /\ ~At("loop", "write")
  /\ phase' = "down"
  /\ writer' = [w \in Writers |-> IdleWriter]
  /\ UNCHANGED <<pool, latest, files, overlap>>

(* Killed: SIGTERM has no handler either. *)
Crashes ==
  /\ phase # "down"
  /\ phase' = "down"
  /\ writer' = [w \in Writers |-> IdleWriter]
  /\ UNCHANGED <<pool, latest, files, overlap>>

(* Mutant: of a file that does not parse, what can be read is taken. *)
LoadedInPart ==
  {0} \cup (IF path = NoInode THEN {}
           ELSE {disk[path][i] : i \in 1..Len(disk[path])})

(* load_state_from: no file, a file that cannot be read or one that does not
   parse give an empty pool.                                                *)
Loaded ==
  {0} \cup {v \in Versions : Holds(path, v)}

Starts ==
  /\ phase = "down"
  /\ phase' = "running"
  /\ pool' \in Loaded
  /\ UNCHANGED <<latest, writer, files, overlap>>

-----------------------------------------------------------------------------
Saves(w) ==
  \/ DirExists(w) \/ Opens(w) \/ Writes(w) \/ WritesEnd(w) \/ Renames(w)
  \/ Fails(w)

Next ==
  \/ PoolChanges \/ LoopTicks \/ CtrlC \/ Exits \/ Crashes \/ Starts
  \/ \E w \in Writers : Saves(w)

Spec == Init /\ [][Next]_vars

(* File operations end, with success or an error, and main goes on. *)
Fairness == WF_vars(Exits) /\ \A w \in Writers : WF_vars(Saves(w))

FairSpec == Spec /\ Fairness

-----------------------------------------------------------------------------
(* Types; in particular what is in memory, after any crash and any damage to
   the file, is a version that the pool has had or the empty one.           *)
TypeOK ==
  /\ phase \in {"running", "stopping", "down"}
  /\ pool \in Versions /\ latest \in Versions
  /\ writer \in [Writers -> WriterRecord]
  /\ \A w \in Writers : writer[w].pos <= Length(writer[w].version)
  /\ tmp \in Inodes \cup {NoInode} /\ path \in Inodes \cup {NoInode}
  /\ disk \in [Inodes -> Seq(0..Gap)]
  /\ overlap \in BOOLEAN

(* "Atomic write": whatever fails and whenever the process is killed, the
   state file is complete.  The exception is a Ctrl+C that meets a save of the
   loop, when two writers share the temporary file; the damage ends with the
   next save that succeeds.                                                 *)
FileComplete == path # NoInode /\ ~overlap => Parses(path)

(* When the save at shutdown has reported success, the file holds what it
   collected, again unless it has met a save of the loop.                   *)
ShutdownSaved ==
  At("shutdown", "saved") /\ ~overlap => Holds(path, writer["shutdown"].version)

(* Every shutdown ends, also with the loop's save under way. *)
ShutdownEnds == phase = "stopping" ~> phase = "down"
=============================================================================
