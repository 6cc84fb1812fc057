-------------------------- MODULE PersistenceProofs --------------------------
(***************************************************************************)
(* The state file, for any number of versions of the pool of any length,   *)
(* and for failures, signals and crashes at any point.                     *)
(***************************************************************************)
EXTENDS Persistence, TLAPS

(* Nobody else uses the temporary file: there is one process, and its Ctrl+C
   has not met a save of the loop.  Before a Ctrl+C that holds even if an
   earlier process was not so lucky.                                        *)
Clean == phase # "stopping" \/ ~overlap

(* n pieces of version v. *)
Filled(n, v) == [i \in 1..n |-> v]

(* What a save has done to the temporary file so far. *)
SaveOK(w) ==
  /\ At(w, "write") => /\ tmp # NoInode /\ writer[w].fd = tmp
                       /\ disk[tmp] = Filled(writer[w].pos, writer[w].version)
  /\ At(w, "rename") => Holds(tmp, writer[w].version)

(* Where the two calls of save_state_to can be. *)
CallsOK ==
  /\ phase = "running" => At("shutdown", "idle")
  /\ phase = "down" => At("shutdown", "idle") /\ At("loop", "idle")
  /\ phase = "stopping" /\ ~overlap => At("loop", "idle") \/ At("loop", "mkdir")
  /\ ~At("loop", "saved") /\ ~At("loop", "failed")
  /\ \A w \in Writers : /\ ~At(w, "write") => writer[w].pos = 0
                        /\ At(w, "write") => writer[w].fd # NoInode

FilesOK ==
  /\ tmp # NoInode => tmp # path
  /\ Clean => \A w \in Writers : SaveOK(w)

PInv == TypeOK /\ CallsOK /\ FilesOK /\ FileComplete /\ ShutdownSaved
-----------------------------------------------------------------------------
(* Every JSON has some pieces. *)
LEMMA LengthType == ASSUME NEW v PROVE Length(v) \in Nat /\ Length(v) > 0
  BY DEF Length

(* A write at the end of what is there adds one piece. *)
LEMMA FilledGrows ==
  ASSUME NEW n \in Nat, NEW v
  PROVE  PutPiece(Filled(n, v), n + 1, v) = Filled(n + 1, v)
  <1>1. Len(Filled(n, v)) = n
    BY DEF Filled
  <1>2. \A i \in 1..n : Filled(n, v)[i] = v
    BY DEF Filled
  <1>3. (IF Len(Filled(n, v)) > n + 1 THEN Len(Filled(n, v)) ELSE n + 1) = n + 1
    BY <1>1
  <1>4. \A i \in 1..(n + 1) :
          (IF i = n + 1 THEN v
           ELSE IF i <= Len(Filled(n, v)) THEN Filled(n, v)[i] ELSE Gap) = v
    BY <1>1, <1>2
  <1>5. PutPiece(Filled(n, v), n + 1, v) = [i \in 1..(n + 1) |-> v]
    BY <1>3, <1>4 DEF PutPiece
  <1> QED BY <1>5 DEF Filled

(* Wherever a write lands, pieces stay pieces. *)
LEMMA PutPieceType ==
  ASSUME NEW s \in Seq(0..Gap), NEW n \in Nat, NEW v \in 0..Gap
  PROVE  PutPiece(s, n, v) \in Seq(0..Gap)
  <1> DEFINE Pieces == 0..Gap
  <1>1. Gap \in Pieces /\ v \in Pieces /\ s \in Seq(Pieces)
    BY PersistenceAssumption DEF Gap
  <1> HIDE DEF Pieces
  <1>2. Len(s) \in Nat /\ \A i \in 1..Len(s) : s[i] \in Pieces
    BY <1>1
  <1> DEFINE m == IF Len(s) > n THEN Len(s) ELSE n
  <1>3. m \in Nat
    BY <1>2
  <1>4. \A i \in 1..m : (IF i = n THEN v ELSE IF i <= Len(s) THEN s[i] ELSE Gap)
                          \in Pieces
    BY <1>1, <1>2, <1>3
  <1> HIDE DEF m
  <1>5. [i \in 1..m |-> IF i = n THEN v ELSE IF i <= Len(s) THEN s[i] ELSE Gap]
          \in Seq(Pieces)
    BY <1>3, <1>4
  <1> QED BY <1>5 DEF PutPiece, m, Pieces

(* File::create never gives the inode of the state file. *)
LEMMA CreatedInodeFree ==
  ASSUME PInv
  PROVE  CreatedInode \in Inodes /\ CreatedInode # path
  <1>1. CASE tmp # NoInode
    BY <1>1 DEF CreatedInode, PInv, FilesOK, TypeOK
  <1>2. CASE tmp = NoInode
    <2> DEFINE a == writer["loop"].fd
               b == writer["shutdown"].fd
               Free(i) == i # path /\ \A w \in Writers : writer[w].fd # i
    <2>1. \A i : Free(i) <=> i # path /\ i # a /\ i # b
      BY DEF Writers
    <2>2. \E i \in {1, 2, 3, 4} : i # path /\ i # a /\ i # b
      OBVIOUS
    <2>3. Inodes = {1, 2, 3, 4}
      BY DEF Inodes
    <2>4. \E i \in Inodes : Free(i)
      BY <2>1, <2>2, <2>3
    <2>5. CreatedInode = CHOOSE i \in Inodes : Free(i)
      BY <1>2 DEF CreatedInode
    <2> QED BY <2>4, <2>5
  <1> QED BY <1>1, <1>2

-----------------------------------------------------------------------------
(* The two saves. *)

(* One at a time uses the temporary file, while all is clean. *)
LEMMA OneAtATime ==
  ASSUME PInv, Clean, NEW w \in Writers, NEW u \in Writers,
         writer[w].pc \in {"open", "write", "rename"},
         writer[u].pc \in {"write", "rename"}
  PROVE  w = u
  BY DEF PInv, TypeOK, CallsOK, Clean, Writers, At

(* save_state_to returns. *)
LEMMA ReturnedMeans ==
  ASSUME PInv, NEW w \in Writers, NEW result \in {"saved", "failed"}
  PROVE  \E x \in WriterRecord :
           /\ Returned(w, result) = [writer EXCEPT ![w] = x]
           /\ x.pos = 0 /\ x.fd = NoInode
           /\ w = "loop" => x.pc = "idle"
           /\ w # "loop" => x.pc = result /\ x.version = writer[w].version
  <1> DEFINE x == IF w = "loop" THEN IdleWriter
                  ELSE [writer[w] EXCEPT !.pc = result, !.fd = NoInode, !.pos = 0]
  <1>1. writer \in [Writers -> WriterRecord]
    BY DEF PInv, TypeOK
  <1>2. Returned(w, result) = [writer EXCEPT ![w] = x]
    BY <1>1 DEF Returned
  <1>3. IdleWriter \in WriterRecord /\ IdleWriter.pc = "idle"
        /\ IdleWriter.pos = 0 /\ IdleWriter.fd = NoInode
    BY PersistenceAssumption DEF IdleWriter, WriterRecord, Versions
  <1>4. w # "loop" => /\ x \in WriterRecord /\ x.pc = result /\ x.pos = 0
                      /\ x.fd = NoInode /\ x.version = writer[w].version
    BY <1>1 DEF WriterRecord
  <1>5. w = "loop" => x = IdleWriter
    OBVIOUS
  <1> HIDE DEF x
  <1>6. x \in WriterRecord
    BY <1>3, <1>4, <1>5
  <1> QED BY <1>2, <1>3, <1>4, <1>5, <1>6

(* Or it goes on to its next operation, unless it was aborted. *)
LEMMA ProceedsMeans ==
  ASSUME PInv, NEW w \in Writers, NEW stage \in {"open", "rename"}
  PROVE  \E x \in WriterRecord :
           /\ Proceeds(w, stage) = [writer EXCEPT ![w] = x]
           /\ x.pc \in {"idle", stage}
           /\ w = "loop" /\ phase = "stopping" => x.pc = "idle"
           /\ x.pc = stage => /\ x.version = writer[w].version
                              /\ x.pos = writer[w].pos /\ x.fd = writer[w].fd
           /\ x.pc = "idle" => x.pos = 0
  <1>1. CASE w = "loop" /\ phase = "stopping"
    <2>1. PICK x \in WriterRecord :
            /\ Returned(w, "failed") = [writer EXCEPT ![w] = x]
            /\ x.pos = 0 /\ x.pc = "idle"
      BY <1>1, ReturnedMeans
    <2> QED BY <1>1, <2>1 DEF Proceeds
  <1>2. CASE ~(w = "loop" /\ phase = "stopping")
    <2> DEFINE x == [writer[w] EXCEPT !.pc = stage]
    <2>1. writer \in [Writers -> WriterRecord]
      BY DEF PInv, TypeOK
    <2>2. x \in WriterRecord /\ x.pc = stage /\ x.version = writer[w].version
          /\ x.pos = writer[w].pos /\ x.fd = writer[w].fd
      BY <2>1 DEF WriterRecord
    <2>3. Proceeds(w, stage) = [writer EXCEPT ![w] = x]
      BY <1>2, <2>1 DEF Proceeds
    <2> HIDE DEF x
    <2> QED BY <1>2, <2>2, <2>3
  <1> QED BY <1>1, <1>2

(* A save goes on to x. *)
LEMMA SaveMoves ==
  ASSUME PInv, NEW w \in Writers, ~At(w, "idle"), NEW x \in WriterRecord,
         writer' = [writer EXCEPT ![w] = x], phase' = phase,
         x.pos <= Length(x.version),
         x.pc # "write" => x.pos = 0, x.pc = "write" => x.fd # NoInode,
         w = "loop" => x.pc \notin {"saved", "failed"},
         phase = "stopping" /\ ~overlap' /\ w = "loop" => x.pc \in {"idle", "mkdir"},
         overlap => overlap' \/ phase = "running"
  PROVE  /\ writer' \in [Writers -> WriterRecord] /\ writer'[w] = x
         /\ \A u \in Writers : u # w => writer'[u] = writer[u]
         /\ \A u \in Writers : writer'[u].pos <= Length(writer'[u].version)
         /\ CallsOK'
  <1>1. /\ writer' \in [Writers -> WriterRecord] /\ writer'[w] = x
        /\ \A u \in Writers : u # w => writer'[u] = writer[u]
    BY DEF PInv, TypeOK
  <1>2. \A u \in Writers : writer'[u].pos <= Length(writer'[u].version)
    BY <1>1 DEF PInv, TypeOK
  <1>3. phase # "down" /\ (phase = "running" => w = "loop")
    BY DEF PInv, CallsOK, Writers, At
  <1>4. phase = "running" => writer'["shutdown"].pc = "idle"
    BY <1>1, <1>3 DEF PInv, CallsOK, Writers, At
  <1>5. phase = "stopping" /\ ~overlap' => writer'["loop"].pc \in {"idle", "mkdir"}
    BY <1>1 DEF PInv, CallsOK, Writers, At
  <1>6. \A u \in Writers : /\ writer'[u].pc # "write" => writer'[u].pos = 0
                           /\ writer'[u].pc = "write" => writer'[u].fd # NoInode
    BY <1>1 DEF PInv, CallsOK, At
  <1>7. writer'["loop"].pc \notin {"saved", "failed"}
    BY <1>1 DEF PInv, CallsOK, Writers, At
  <1>8. CallsOK'
    BY <1>3, <1>4, <1>5, <1>6, <1>7 DEF CallsOK, At
  <1> QED BY <1>1, <1>2, <1>8

(* Such a move, when no file changes. *)
LEMMA QuietMove ==
  ASSUME PInv, NEW w \in Writers, ~At(w, "idle"), NEW x \in WriterRecord,
         writer' = [writer EXCEPT ![w] = x], x.pos = 0,
         x.pc \notin {"write", "saved"},
         x.pc = "rename" /\ Clean => Holds(tmp, x.version),
         w = "loop" => x.pc # "failed",
         phase = "stopping" /\ ~overlap /\ w = "loop" => x.pc \in {"idle", "mkdir"},
         UNCHANGED <<phase, pool, latest, files, overlap>>
  PROVE  PInv'
  <1>0. x.pos <= Length(x.version)
    BY LengthType
  <1>1. /\ writer' \in [Writers -> WriterRecord] /\ writer'[w] = x
        /\ \A u \in Writers : u # w => writer'[u] = writer[u]
        /\ \A u \in Writers : writer'[u].pos <= Length(writer'[u].version)
        /\ CallsOK'
    BY <1>0, SaveMoves
  <1>2. TypeOK'
    BY <1>1 DEF PInv, TypeOK, files
  <1>3. FilesOK' /\ FileComplete'
    BY <1>1 DEF PInv, FilesOK, FileComplete, Clean, SaveOK, At, Holds, Parses, files
  <1>4. ShutdownSaved'
    BY <1>1 DEF PInv, ShutdownSaved, At, Holds, Writers, files
  <1> QED BY <1>1, <1>2, <1>3, <1>4 DEF PInv
(* The directory is there. *)
LEMMA DirExistsStep == ASSUME PInv, NEW w \in Writers, DirExists(w) PROVE PInv'
  <1>1. At(w, "mkdir") /\ UNCHANGED <<phase, pool, latest, files, overlap>>
    BY DEF DirExists
  <1>2. PICK x \in WriterRecord :
          /\ writer' = [writer EXCEPT ![w] = x]
          /\ x.pc \in {"idle", "open"}
          /\ w = "loop" /\ phase = "stopping" => x.pc = "idle"
          /\ x.pc = "open" => x.pos = writer[w].pos
          /\ x.pc = "idle" => x.pos = 0
    BY ProceedsMeans DEF DirExists
  <1>3. writer[w].pos = 0
    BY <1>1 DEF PInv, CallsOK, At
  <1>4. ~At(w, "idle")
    BY <1>1 DEF At
  <1> QED BY <1>1, <1>2, <1>3, <1>4, QuietMove

(* An operation fails: whatever is in the temporary file stays there. *)
LEMMA FailsStep == ASSUME PInv, NEW w \in Writers, Fails(w) PROVE PInv'
  <1>1. ~At(w, "idle") /\ UNCHANGED <<phase, pool, latest, files, overlap>>
    BY DEF Fails, At
  <1>2. PICK x \in WriterRecord :
          /\ writer' = [writer EXCEPT ![w] = x]
          /\ x.pos = 0
          /\ w = "loop" => x.pc = "idle"
          /\ w # "loop" => x.pc = "failed"
    BY ReturnedMeans DEF Fails
  <1> QED BY <1>1, <1>2, QuietMove

(* All pieces are written: the temporary file is the JSON. *)
LEMMA WritesEndStep == ASSUME PInv, NEW w \in Writers, WritesEnd(w) PROVE PInv'
  <1>1. /\ At(w, "write") /\ UNCHANGED <<phase, pool, latest, files, overlap>>
        /\ writer[w].pos = Length(writer[w].version)
    BY DEF WritesEnd
  <1>2. PICK y \in WriterRecord :
          /\ Proceeds(w, "rename") = [writer EXCEPT ![w] = y]
          /\ y.pc \in {"idle", "rename"}
          /\ w = "loop" /\ phase = "stopping" => y.pc = "idle"
          /\ y.pc = "rename" => y.version = writer[w].version
    BY ProceedsMeans
  <1> DEFINE x == [y EXCEPT !.fd = NoInode, !.pos = 0]
  <1>3. x \in WriterRecord /\ x.pos = 0 /\ x.pc = y.pc /\ x.version = y.version
    BY DEF WriterRecord
  <1>4. writer' = [writer EXCEPT ![w] = x]
    <2>1. writer \in [Writers -> WriterRecord]
      BY DEF PInv, TypeOK
    <2> QED BY <1>2, <2>1 DEF WritesEnd
  <1> HIDE DEF x
  <1>5. ASSUME x.pc = "rename", Clean PROVE Holds(tmp, x.version)
    <2>1. /\ tmp # NoInode
          /\ disk[tmp] = Filled(Length(writer[w].version), writer[w].version)
      BY <1>1, <1>5 DEF PInv, FilesOK, SaveOK
    <2> QED BY <1>2, <1>3, <1>5, <2>1 DEF Holds, Json, Filled
  <1>6. ~At(w, "idle")
    BY <1>1 DEF At
  <1> QED BY <1>1, <1>2, <1>3, <1>4, <1>5, <1>6, QuietMove

(* The temporary file is created or truncated, never the state file. *)
LEMMA OpensStep == ASSUME PInv, NEW w \in Writers, Opens(w) PROVE PInv'
  <1> DEFINE x == [writer[w] EXCEPT !.pc = "write", !.fd = tmp']
  <1>1. /\ At(w, "open") /\ tmp' = CreatedInode
        /\ disk' = [disk EXCEPT ![tmp'] = <<>>]
        /\ phase' = phase /\ pool' = pool /\ latest' = latest
        /\ path' = path /\ overlap' = overlap
    BY DEF Opens
  <1>2. tmp' \in Inodes /\ tmp' # path /\ tmp' # NoInode
    BY <1>1, CreatedInodeFree DEF Inodes, NoInode
  <1>3. /\ writer \in [Writers -> WriterRecord]
        /\ disk \in [Inodes -> Seq(0..Gap)]
        /\ path \in Inodes \cup {NoInode}
    BY DEF PInv, TypeOK
  <1>4. writer[w].pos = 0
    BY <1>1 DEF PInv, CallsOK, At
  <1>5. /\ x \in WriterRecord /\ x.pc = "write" /\ x.fd = tmp' /\ x.pos = 0
        /\ x.version = writer[w].version
    BY <1>2, <1>3, <1>4 DEF WriterRecord
  <1>6. writer' = [writer EXCEPT ![w] = x]
    BY <1>3 DEF Opens
  <1> HIDE DEF x
  <1>7. phase = "stopping" /\ ~overlap => w # "loop"
    BY <1>1 DEF PInv, CallsOK, At
  <1>8. x.pos <= Length(x.version) /\ ~At(w, "idle")
    BY <1>1, <1>5, LengthType DEF At
  <1>9. /\ writer' \in [Writers -> WriterRecord] /\ writer'[w] = x
        /\ \A u \in Writers : u # w => writer'[u] = writer[u]
        /\ \A u \in Writers : writer'[u].pos <= Length(writer'[u].version)
        /\ CallsOK'
    BY <1>1, <1>2, <1>5, <1>6, <1>7, <1>8, SaveMoves
  <1>10. /\ disk'[tmp'] = <<>>
         /\ \A i \in Inodes : i # tmp' => disk'[i] = disk[i]
         /\ disk' \in [Inodes -> Seq(0..Gap)]
    BY <1>1, <1>2, <1>3
  <1>11. TypeOK'
    BY <1>1, <1>2, <1>9, <1>10 DEF PInv, TypeOK
  <1>12. ASSUME Clean, NEW u \in Writers PROVE SaveOK(u)'
    <2>1. CASE u = w
      <3>1. <<>> = Filled(0, x.version)
        BY DEF Filled
      <3> QED BY <1>2, <1>5, <1>9, <1>10, <2>1, <3>1 DEF SaveOK, At
    <2>2. CASE u # w
      <3>1. writer[u].pc \notin {"write", "rename"}
        BY <1>1, <1>12, <2>2, OneAtATime DEF At
      <3> QED BY <1>9, <2>2, <3>1 DEF SaveOK, At
    <2> QED BY <2>1, <2>2
  <1>13. FilesOK'
    BY <1>1, <1>2, <1>12 DEF FilesOK, Clean
  <1>14. path # NoInode => disk'[path] = disk[path]
    BY <1>2, <1>3, <1>10
  <1>15. FileComplete'
    BY <1>1, <1>14 DEF PInv, FileComplete, Parses, Holds
  <1>16. ShutdownSaved'
    BY <1>1, <1>5, <1>9, <1>14 DEF PInv, ShutdownSaved, Holds, At, Writers
  <1> QED BY <1>9, <1>11, <1>13, <1>15, <1>16 DEF PInv

(* One more piece: while all is clean it is the next one, and whatever
   happens it does not go to the state file unless two writers met.         *)
LEMMA WritesStep == ASSUME PInv, NEW w \in Writers, Writes(w) PROVE PInv'
  <1> DEFINE r == writer[w]
             x == [r EXCEPT !.pos = r.pos + 1]
             piece == PutPiece(disk[r.fd], r.pos + 1, r.version)
  <1>1. /\ At(w, "write") /\ r.pos < Length(r.version)
        /\ disk' = [disk EXCEPT ![r.fd] = piece]
        /\ phase' = phase /\ pool' = pool /\ latest' = latest
        /\ tmp' = tmp /\ path' = path /\ overlap' = overlap
    BY DEF Writes
  <1>2. /\ writer \in [Writers -> WriterRecord] /\ r \in WriterRecord
        /\ disk \in [Inodes -> Seq(0..Gap)]
        /\ path \in Inodes \cup {NoInode} /\ tmp \in Inodes \cup {NoInode}
    BY DEF PInv, TypeOK
  <1>3. /\ x \in WriterRecord /\ x.pc = "write" /\ x.fd = r.fd
        /\ x.pos = r.pos + 1 /\ x.version = r.version
    <2>1. r.pc = "write" /\ r.pos + 1 \in Nat
      BY <1>1, <1>2 DEF WriterRecord, At
    <2> HIDE DEF r
    <2> QED BY <1>2, <2>1 DEF WriterRecord
  <1>4. writer' = [writer EXCEPT ![w] = x]
    BY <1>2 DEF Writes
  <1>5. /\ r.fd \in Inodes /\ r.fd # NoInode /\ r.pos \in Nat
        /\ r.version \in 0..Gap
    BY <1>1, <1>2, PersistenceAssumption
       DEF WriterRecord, PInv, CallsOK, Versions, Gap
  <1>6. piece \in Seq(0..Gap)
    <2>1. disk[r.fd] \in Seq(0..Gap) /\ r.pos + 1 \in Nat
      BY <1>2, <1>5
    <2> QED BY <1>5, <2>1, PutPieceType
  <1> HIDE DEF x, piece
  <1>7. /\ disk' \in [Inodes -> Seq(0..Gap)] /\ disk'[r.fd] = piece
        /\ \A i \in Inodes : i # r.fd => disk'[i] = disk[i]
    BY <1>1, <1>2, <1>5, <1>6
  <1>8. phase = "stopping" /\ ~overlap => w # "loop"
    BY <1>1 DEF PInv, CallsOK, At
  <1>9. x.pos <= Length(x.version) /\ ~At(w, "idle")
    BY <1>1, <1>3, <1>5, LengthType DEF At
  <1>10. /\ writer' \in [Writers -> WriterRecord] /\ writer'[w] = x
         /\ \A u \in Writers : u # w => writer'[u] = writer[u]
         /\ \A u \in Writers : writer'[u].pos <= Length(writer'[u].version)
         /\ CallsOK'
    BY <1>1, <1>3, <1>4, <1>5, <1>8, <1>9, SaveMoves
  <1>11. TypeOK'
    BY <1>1, <1>7, <1>10 DEF PInv, TypeOK
  <1>12. Clean => /\ tmp # NoInode /\ r.fd = tmp
                  /\ disk[tmp] = Filled(r.pos, r.version)
    BY <1>1 DEF PInv, FilesOK, SaveOK
  <1>13. ASSUME Clean, NEW u \in Writers PROVE SaveOK(u)'
    <2>1. CASE u = w
      <3>1. piece = Filled(r.pos + 1, r.version)
        BY <1>5, <1>12, <1>13, FilledGrows DEF piece
      <3> QED BY <1>1, <1>3, <1>7, <1>10, <1>12, <1>13, <2>1, <3>1 DEF SaveOK, At
    <2>2. CASE u # w
      <3>1. writer[u].pc \notin {"write", "rename"}
        BY <1>1, <1>13, <2>2, OneAtATime DEF At
      <3> QED BY <1>10, <2>2, <3>1 DEF SaveOK, At
    <2> QED BY <2>1, <2>2
  <1>14. FilesOK'
    BY <1>1, <1>13 DEF PInv, FilesOK, Clean
  <1>15. Clean /\ path # NoInode => disk'[path] = disk[path]
    BY <1>2, <1>7, <1>12 DEF PInv, FilesOK
  <1>16. ~overlap => Clean
    BY DEF Clean
  <1>17. FileComplete'
    BY <1>1, <1>15, <1>16 DEF PInv, FileComplete, Parses, Holds
  <1>18. ShutdownSaved'
    BY <1>1, <1>3, <1>10, <1>15, <1>16 DEF PInv, ShutdownSaved, Holds, At, Writers
  <1> QED BY <1>10, <1>11, <1>14, <1>17, <1>18 DEF PInv

(* The name moves to a file that is complete. *)
LEMMA RenamesStep == ASSUME PInv, NEW w \in Writers, Renames(w) PROVE PInv'
  <1>1. /\ At(w, "rename") /\ tmp # NoInode /\ path' = tmp /\ tmp' = NoInode
        /\ writer' = Returned(w, "saved")
        /\ overlap' = (overlap /\ phase # "running")
        /\ phase' = phase /\ pool' = pool /\ latest' = latest /\ disk' = disk
    BY DEF Renames
  <1>2. PICK x \in WriterRecord :
          /\ writer' = [writer EXCEPT ![w] = x]
          /\ x.pos = 0
          /\ w = "loop" => x.pc = "idle"
          /\ w # "loop" => x.pc = "saved" /\ x.version = writer[w].version
    BY <1>1, ReturnedMeans
  <1>3. x.pos <= Length(x.version) /\ ~At(w, "idle") /\ x.pc # "write"
    BY <1>1, <1>2, LengthType DEF At
  <1>4. overlap \in BOOLEAN /\ overlap' \in BOOLEAN
        /\ (overlap => overlap' \/ phase = "running")
    BY <1>1 DEF PInv, TypeOK
  <1>5. /\ writer' \in [Writers -> WriterRecord] /\ writer'[w] = x
        /\ \A u \in Writers : u # w => writer'[u] = writer[u]
        /\ \A u \in Writers : writer'[u].pos <= Length(writer'[u].version)
        /\ CallsOK'
    BY <1>1, <1>2, <1>3, <1>4, SaveMoves
  <1>6. TypeOK'
    BY <1>1, <1>4, <1>5 DEF PInv, TypeOK
  <1>7. ~overlap' => Clean
    BY <1>1, <1>4 DEF Clean
  <1>8. Clean' => Clean
    BY <1>1, <1>4 DEF Clean
  <1>9. Clean => Holds(tmp, writer[w].version) /\ writer[w].version \in Versions
    BY <1>1 DEF PInv, FilesOK, SaveOK, TypeOK, WriterRecord
  <1>10. ASSUME Clean, NEW u \in Writers PROVE SaveOK(u)'
    <2>1. writer'[u].pc \notin {"write", "rename"}
      <3>1. CASE u = w
        BY <1>2, <1>5, <3>1
      <3>2. CASE u # w
        BY <1>1, <1>5, <1>10, <3>2, OneAtATime DEF At
      <3> QED BY <3>1, <3>2
    <2> QED BY <2>1 DEF SaveOK, At
  <1>11. FilesOK'
    BY <1>1, <1>8, <1>10 DEF FilesOK
  <1>12. FileComplete'
    BY <1>1, <1>7, <1>9 DEF FileComplete, Parses, Holds
  <1>13. ShutdownSaved'
    <2> SUFFICES ASSUME writer'["shutdown"].pc = "saved", ~overlap'
                 PROVE  Holds(path, writer["shutdown"].version)'
      BY DEF ShutdownSaved, At
    <2>1. Holds(tmp, writer[w].version)
      BY <1>7, <1>9
    <2>2. w = "shutdown"
      <3>1. CASE phase = "running"
        BY <1>1, <1>3, <1>5, <3>1 DEF PInv, CallsOK, Writers, At
      <3>2. CASE phase # "running"
        BY <1>1, <3>2 DEF PInv, CallsOK, TypeOK, Writers, At
      <3> QED BY <3>1, <3>2
    <2>3. writer'["shutdown"].version = writer[w].version
      BY <1>2, <1>5, <2>2
    <2> QED BY <1>1, <2>1, <2>3 DEF Holds
  <1> QED BY <1>5, <1>6, <1>11, <1>12, <1>13 DEF PInv
-----------------------------------------------------------------------------
(* The process. *)

(* The record of a call that begins. *)
LEMMA CallsTyped ==
  /\ IdleWriter \in WriterRecord /\ IdleWriter.pc = "idle"
  /\ IdleWriter.pos = 0 /\ IdleWriter.fd = NoInode
  /\ \A v \in Versions : /\ Calls(v) \in WriterRecord
                         /\ Calls(v).pc = "mkdir" /\ Calls(v).pos = 0
  <1>1. /\ IdleWriter \in WriterRecord /\ IdleWriter.pc = "idle"
        /\ IdleWriter.pos = 0 /\ IdleWriter.fd = NoInode
    BY PersistenceAssumption DEF IdleWriter, WriterRecord, Versions
  <1>2. ASSUME NEW v \in Versions
        PROVE  /\ Calls(v) \in WriterRecord
               /\ Calls(v).pc = "mkdir" /\ Calls(v).pos = 0
    BY <1>1 DEF Calls, WriterRecord
  <1> QED BY <1>1, <1>2

(* A step that leaves the calls and the files alone. *)
LEMMA Bystander ==
  ASSUME PInv, UNCHANGED <<writer, files, overlap>>,
         pool' \in Versions, latest' \in Versions,
         \/ phase' = phase
         \/ phase = "down" /\ phase' = "running"
  PROVE  PInv'
  <1>1. TypeOK'
    BY DEF PInv, TypeOK, files
  <1>2. CallsOK'
    BY DEF PInv, CallsOK, At, files
  <1>3. \A w \in Writers : Clean => SaveOK(w)'
    BY DEF PInv, FilesOK, SaveOK, At, Holds, files
  <1>4. Clean' => Clean
    BY DEF Clean
  <1>5. FilesOK'
    BY <1>3, <1>4 DEF PInv, FilesOK, files
  <1>6. FileComplete' /\ ShutdownSaved'
    BY DEF PInv, FileComplete, ShutdownSaved, Parses, Holds, At, files
  <1> QED BY <1>1, <1>2, <1>5, <1>6 DEF PInv

(* The process ends, whatever its two saves were doing. *)
LEMMA EndStep == ASSUME PInv, Exits \/ Crashes PROVE PInv'
  <1>1. /\ phase' = "down" /\ writer' = [w \in Writers |-> IdleWriter]
        /\ UNCHANGED <<pool, latest, files, overlap>>
    BY DEF Exits, Crashes
  <1>2. /\ writer' \in [Writers -> WriterRecord]
        /\ \A w \in Writers : writer'[w].pc = "idle" /\ writer'[w].pos = 0
    BY <1>1, CallsTyped
  <1>3. TypeOK'
    BY <1>1, <1>2, LengthType DEF PInv, TypeOK, files
  <1>4. CallsOK'
    BY <1>1, <1>2 DEF CallsOK, At, Writers
  <1>5. FilesOK'
    BY <1>1, <1>2 DEF PInv, FilesOK, SaveOK, At, files
  <1>6. FileComplete' /\ ShutdownSaved'
    BY <1>1, <1>2
       DEF PInv, FileComplete, ShutdownSaved, Parses, Holds, At, files, Writers
  <1> QED BY <1>3, <1>4, <1>5, <1>6 DEF PInv

(* A tick of the loop. *)
LEMMA LoopTicksStep == ASSUME PInv, LoopTicks PROVE PInv'
  <1>1. /\ phase = "running" /\ UNCHANGED <<phase, pool, latest, files, overlap>>
        /\ writer' = [writer EXCEPT !["loop"] = Calls(pool)]
        /\ pool \in Versions /\ "loop" \in Writers
        /\ writer \in [Writers -> WriterRecord]
    BY DEF LoopTicks, PInv, TypeOK, Writers
  <1>2. /\ writer' \in [Writers -> WriterRecord]
        /\ writer'["loop"].pc = "mkdir" /\ writer'["loop"].pos = 0
        /\ \A u \in Writers : u # "loop" => writer'[u] = writer[u]
    BY <1>1, CallsTyped
  <1>3. TypeOK'
    BY <1>1, <1>2, LengthType DEF PInv, TypeOK, files
  <1>4. CallsOK'
    BY <1>1, <1>2 DEF PInv, CallsOK, At, Writers
  <1>5. FilesOK'
    BY <1>1, <1>2 DEF PInv, FilesOK, Clean, SaveOK, At, Holds, files
  <1>6. FileComplete' /\ ShutdownSaved'
    BY <1>1, <1>2
       DEF PInv, FileComplete, ShutdownSaved, Parses, Holds, At, files, Writers
  <1> QED BY <1>3, <1>4, <1>5, <1>6 DEF PInv

(* Ctrl+C: either the loop is not in its save, or overlap is noted. *)
LEMMA CtrlCStep == ASSUME PInv, CtrlC PROVE PInv'
  <1>1. PICK rest \in {writer["loop"]} \cup
                      (IF At("loop", "write") THEN {} ELSE {IdleWriter}) :
          /\ writer' = [loop |-> rest, shutdown |-> Calls(pool)]
          /\ overlap' = (overlap \/ rest.pc \in {"open", "write", "rename"})
    BY DEF CtrlC
  <1>2. /\ phase = "running" /\ phase' = "stopping"
        /\ UNCHANGED <<pool, latest, files>>
        /\ pool \in Versions /\ overlap \in BOOLEAN
        /\ writer \in [Writers -> WriterRecord]
    BY DEF CtrlC, PInv, TypeOK
  <1>3. rest \in WriterRecord /\ (rest = writer["loop"] \/ rest = IdleWriter)
    BY <1>1, <1>2, CallsTyped DEF Writers
  <1>4. /\ writer'["loop"] = rest /\ writer'["shutdown"] = Calls(pool)
        /\ DOMAIN writer' = Writers
        /\ writer' \in [Writers -> WriterRecord]
    BY <1>1, <1>2, <1>3, CallsTyped DEF Writers
  <1>5. /\ rest.pos <= Length(rest.version)
        /\ rest.pc # "write" => rest.pos = 0
        /\ rest.pc = "write" => rest.fd # NoInode
    BY <1>3, CallsTyped, LengthType DEF PInv, TypeOK, CallsOK, Writers, At
  <1>6. TypeOK'
    BY <1>1, <1>2, <1>4, <1>5, CallsTyped, LengthType DEF PInv, TypeOK, files, Writers
  <1>7. rest.pc \notin {"saved", "failed"}
    BY <1>3, CallsTyped DEF PInv, CallsOK, At
  <1>8. CallsOK'
    <2>1. rest.pc \in {"idle", "mkdir", "open", "write", "rename"}
      BY <1>3, <1>7 DEF WriterRecord
    <2>2. ~overlap' => rest.pc \in {"idle", "mkdir"}
      BY <1>1, <2>1
    <2>3. \A w \in Writers : /\ writer'[w].pc # "write" => writer'[w].pos = 0
                             /\ writer'[w].pc = "write" => writer'[w].fd # NoInode
      BY <1>2, <1>4, <1>5, CallsTyped DEF Writers
    <2> QED BY <1>2, <1>4, <1>7, <2>2, <2>3 DEF CallsOK, At
  <1>9. Clean' => rest.pc \notin {"write", "rename"}
    BY <1>1, <1>2 DEF Clean
  <1>10. FilesOK'
    BY <1>2, <1>4, <1>9, CallsTyped DEF PInv, FilesOK, SaveOK, At, files, Writers
  <1>11. FileComplete' /\ ShutdownSaved'
    BY <1>1, <1>2, <1>4, CallsTyped
       DEF PInv, FileComplete, ShutdownSaved, Parses, Holds, At, files
  <1> QED BY <1>6, <1>8, <1>10, <1>11 DEF PInv

-----------------------------------------------------------------------------
(* The invariant holds before the first start. *)
LEMMA InitPInv == Init => PInv
  <1> SUFFICES ASSUME Init PROVE PInv
    OBVIOUS
  <1>1. /\ writer \in [Writers -> WriterRecord]
        /\ \A w \in Writers : writer[w].pc = "idle" /\ writer[w].pos = 0
    BY CallsTyped DEF Init
  <1>2. TypeOK
    <2>1. <<>> \in Seq(0..Gap)
      OBVIOUS
    <2>2. disk \in [Inodes -> Seq(0..Gap)]
      BY <2>1 DEF Init
    <2>3. 0 \in Versions
      BY PersistenceAssumption DEF Versions
    <2>4. \A w \in Writers : writer[w].pos <= Length(writer[w].version)
      BY <1>1, LengthType
    <2>5. NoInode \in Inodes \cup {NoInode}
      OBVIOUS
    <2> QED BY <1>1, <2>2, <2>3, <2>4, <2>5 DEF Init, TypeOK
  <1>3. CallsOK
    BY <1>1 DEF Init, CallsOK, At, Writers
  <1>4. FilesOK /\ FileComplete /\ ShutdownSaved
    BY <1>1 DEF Init, FilesOK, FileComplete, ShutdownSaved, SaveOK, At, Writers
  <1> QED BY <1>2, <1>3, <1>4 DEF PInv

(* Every step preserves it. *)
LEMMA NextPInv == PInv /\ [Next]_vars => PInv'
  <1> SUFFICES ASSUME PInv, [Next]_vars PROVE PInv'
    OBVIOUS
  <1>0. pool \in Versions /\ latest \in Versions
    BY DEF PInv, TypeOK
  <1>1. CASE PoolChanges
    <2>1. latest' \in Versions /\ pool' \in Versions
      BY <1>0, <1>1, PersistenceAssumption DEF PoolChanges, Versions
    <2> QED BY <1>1, <2>1, Bystander DEF PoolChanges
  <1>2. CASE Starts
    <2>1. pool' \in Versions
      BY <1>2, PersistenceAssumption DEF Starts, Loaded, Versions
    <2> QED BY <1>0, <1>2, <2>1, Bystander DEF Starts
  <1>3. ASSUME NEW w \in Writers, Saves(w) PROVE PInv'
    BY <1>3, DirExistsStep, OpensStep, WritesStep, WritesEndStep, RenamesStep,
       FailsStep DEF Saves
  <1>4. CASE UNCHANGED vars
    BY <1>0, <1>4, Bystander DEF vars, files
  <1> QED
    BY <1>1, <1>2, <1>3, <1>4, LoopTicksStep, CtrlCStep, EndStep DEF Next

(* So it holds in every reachable state. *)
LEMMA PersistenceInvariant == Spec => []PInv
  BY InitPInv, NextPInv, PTL DEF Spec

(* Process, saves and files have their types, for any number of versions. *)
THEOREM PersistenceTypeCorrect == Spec => []TypeOK
  <1>1. PInv => TypeOK
    BY DEF PInv
  <1> QED BY <1>1, PersistenceInvariant, PTL

(* The state file is complete after every failure of a file operation and
   every crash, however often the process is restarted: only a Ctrl+C that
   meets a save of the loop can damage it, until the next save succeeds.    *)
THEOREM FileStaysComplete == Spec => []FileComplete
  <1>1. PInv => FileComplete
    BY DEF PInv
  <1> QED BY <1>1, PersistenceInvariant, PTL

(* A save at shutdown that reports success has put what it collected into
   the state file, with the same exception.                                 *)
THEOREM ShutdownStaysSaved == Spec => []ShutdownSaved
  <1>1. PInv => ShutdownSaved
    BY DEF PInv
  <1> QED BY <1>1, PersistenceInvariant, PTL
=============================================================================
