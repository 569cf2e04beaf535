------------------------------ MODULE Pipeline ------------------------------
(***************************************************************************)
(* The way of the files (server.c, client.c, utilities.c): from the master *)
(* to the RAM disk, through ffmpeg, into the list of checksums, from the   *)
(* RAM disk to a stick, and the comparison of the stick with the list.     *)
(*                                                                         *)
(* Copier and Startup model who does this and when; there the copy is one  *)
(* step and a stick holds the master or does not.  Here the trees and      *)
(* their blocks are modelled and the rest is left out: one client, a       *)
(* freshly formatted stick, mounts that succeed.                           *)
(***************************************************************************)
EXTENDS Mp3Pool, FiniteSetsExt

CONSTANTS
  Masters,        \* the trees of the masters to be tried
  Leftovers,      \* what an earlier run may have left on the RAM disk
  CRC_SIZE,       \* as many blocks of a file are checked
  CharOrder, CHUNK, MAX_FILES,
  LoadFails,      \* what may go wrong in the copy to the RAM disk
  CopyFails,      \* ... and in that to the stick
  StickFails      \* "decay": a block of the stick may read back damaged

ASSUME FailsAssumption ==
  /\ LoadFails \cup CopyFails \subseteq {"read", "write", "no_sendfile"}
  /\ StickFails \subseteq {"decay"}
ASSUME SizesAssumption == {CRC_SIZE, CHUNK, MAX_FILES} \subseteq Nat \ {0}
ASSUME TreesAssumption ==
  /\ \A tree \in Masters \cup Leftovers : WellFormed(tree)
  /\ \A tree \in Leftovers : Settled(tree)

VARIABLES
  master, stick,  \* trees, like ram
  main,           \* the main thread: "start", "load", "mp3", "list", "ready"
  client,         \* the client: "none", "copying", "verify", then its outcome
  stack, file, result,   \* the call of copy_directory, main's and then the client's
  total_size,     \* its count of bytes, for main
  bytes_copied,   \* ... for the client
  halt,           \* of the client
  crc_file,       \* the lines of crc.txt: files and their checksums
  unread          \* those that verify has not read yet

\* History: how often the stick has been changed since halt; what damage it took.
\* What readdir has not given to the copy in progress is in missed.
VARIABLES since_halt, decayed, missed

callVars == <<stack, file, result, missed>>
clientVars == <<client, stick, bytes_copied, halt, unread, since_halt, decayed>>
vars == <<poolVars, master, main, callVars, total_size, crc_file, clientVars>>

\* main's copy is never halted, and the RAM disk takes any name.
Load == INSTANCE CopyTree WITH
          source <- master, target <- ram, bytes_copied <- total_size, halt <- FALSE,
          FAT <- FALSE, CopyFails <- LoadFails

Copy == INSTANCE CopyTree WITH source <- ram, target <- stick, FAT <- TRUE

Empty == [p \in Location |-> IF p = Root THEN Dir ELSE Absent]

Init ==
  /\ master \in Masters /\ ram \in Leftovers /\ original = ram
  /\ main_pool = "idle" /\ thread = [p \in Location |-> "none"] /\ ffmpeg_sem = 0
  /\ killed = {} /\ main = "start" /\ client = "none" /\ stick = Empty
  /\ stack = <<>> /\ file = Load!NoFile /\ result = "none"
  /\ total_size = 0 /\ bytes_copied = 0 /\ halt = FALSE
  /\ crc_file = {} /\ unread = {}
  /\ since_halt = 0 /\ decayed = FALSE /\ missed = {}

-----------------------------------------------------------------------------
\* load_master and main.

\* "rm -rf /var/ramdrive/master/*" spares the names that begin with a dot.
Hidden(p) == p # Root /\ p[1] # <<>> /\ p[1][1] = Dot

EmptyRam ==
  /\ main = "start"
  /\ main' = "load"
  /\ ram' = [p \in Location |-> IF p = Root \/ Hidden(p) THEN ram[p] ELSE Absent]
  /\ stack' = <<Load!Call(Root)>> /\ result' = "running"
  /\ UNCHANGED <<main_pool, thread, ffmpeg_sem, original, killed, master, file, missed,
                 total_size, crc_file, clientVars>>

LoadMaster ==
  /\ main = "load"
  /\ Load!CopyNext
  /\ UNCHANGED <<main_pool, thread, ffmpeg_sem, original, killed, master, main, crc_file, clientVars>>

\* load_master returns; main does not look at its result.
MasterLoaded ==
  /\ main = "load" /\ result # "running"
  /\ main' = "mp3" /\ result' = "none" /\ missed' = {}
  /\ UNCHANGED <<poolVars, master, stack, file, total_size, crc_file, clientVars>>

ProcessMp3s ==
  /\ main = "mp3"
  /\ PoolMain
  /\ main' = IF main_pool' = "done" THEN "list" ELSE main
  /\ UNCHANGED <<master, callVars, total_size, crc_file, clientVars>>

\* compute_crc32: the first blocks tell files apart.  What cannot be opened has
\* the checksum of an empty file.
compute_crc32(tree, p) ==
  SubSeq(tree[p].data, 1, IF Len(tree[p].data) < CRC_SIZE THEN Len(tree[p].data) ELSE CRC_SIZE)

\* Faulty variant of generate_crcs: the files in the root only.
generate_crcs_of_root(tree) ==
  {[path |-> p, crc |-> compute_crc32(tree, p)] : p \in
     {q \in Location : tree[q].kind = "file" /\ Len(q) = 1 /\ HasChecksum(Last(q))}}

generate_crcs(tree) ==
  {[path |-> p, crc |-> compute_crc32(tree, p)] : p \in
     {q \in Location : tree[q].kind = "file" /\ HasChecksum(Last(q))}}

WriteCrcFile ==
  /\ main = "list"
  /\ main' = "ready"
  /\ crc_file' = generate_crcs(ram)
  /\ UNCHANGED <<poolVars, master, callVars, total_size, clientVars>>

MainStep == EmptyRam \/ LoadMaster \/ MasterLoaded \/ ProcessMp3s \/ WriteCrcFile

-----------------------------------------------------------------------------
\* The client, from its copy to its outcome.

serverVars == <<poolVars, master, main, total_size, crc_file>>

\* How often a step that leads to tree changes the stick after halt.
CountChange(tree) == since_halt' = IF halt /\ tree # stick THEN since_halt + 1 ELSE since_halt

StartCopy ==
  /\ main = "ready" /\ client = "none"
  /\ client' = "copying"
  /\ Copy!Start
  /\ UNCHANGED <<serverVars, stick, halt, unread, since_halt, decayed>>

CopyStep ==
  /\ client = "copying"
  /\ Copy!CopyNext
  /\ CountChange(stick')
  /\ UNCHANGED <<serverVars, client, halt, unread, decayed>>

\* sync, umount and, unless it is asked to halt, verify.  What was written may
\* then read back damaged.
CopyReturned ==
  /\ client = "copying" /\ result \in {"ok", "failed"}
  /\ client' = IF result = "failed" \/ halt THEN "FAILED" ELSE "verify"
  /\ unread' = IF client' = "verify" THEN crc_file ELSE {}
  /\ \/ UNCHANGED <<stick, decayed>>
     \/ /\ client' = "verify" /\ "decay" \in StickFails
        /\ \E p \in Location : \E i \in DOMAIN stick[p].data :
             stick' = [stick EXCEPT ![p].data[i] = "damaged"]
        /\ decayed' = TRUE
  /\ UNCHANGED <<serverVars, callVars, bytes_copied, halt, since_halt>>

\* Faulty variant of CompareLine: the line is read again and again.
CompareLineAgain ==
  /\ client = "verify" /\ ~halt
  /\ \E line \in unread :
       /\ UNCHANGED unread
       /\ client' = IF compute_crc32(stick, line.path) = line.crc THEN "verify" ELSE "CRC_FAILED"
  /\ UNCHANGED <<serverVars, callVars, stick, bytes_copied, halt, since_halt, decayed>>

\* The lines are in the order in which readdir gave the files.
CompareLine ==
  /\ client = "verify" /\ ~halt
  /\ \E line \in unread :
       /\ unread' = unread \ {line}
       /\ client' = IF compute_crc32(stick, line.path) = line.crc THEN "verify" ELSE "CRC_FAILED"
  /\ UNCHANGED <<serverVars, callVars, stick, bytes_copied, halt, since_halt, decayed>>

\* verify returns true when it is asked to halt; main looks again and reports.  What
\* comes between that look and the report is in Client.
VerifyDone ==
  /\ client = "verify" /\ (halt \/ unread = {})
  /\ client' = IF halt THEN "FAILED" ELSE "SUCCESS"
  /\ unread' = {}
  /\ UNCHANGED <<serverVars, callVars, stick, bytes_copied, halt, since_halt, decayed>>

ClientStep == StartCopy \/ CopyStep \/ CopyReturned \/ CompareLine \/ VerifyDone

\* The server's terminate.
AskToHalt ==
  /\ client \in {"copying", "verify"} /\ ~halt
  /\ halt' = TRUE
  /\ UNCHANGED <<serverVars, callVars, client, stick, bytes_copied, unread, since_halt, decayed>>

-----------------------------------------------------------------------------
\* The threads go on whatever main does.
PoolStep ==
  /\ \E p \in Location : ThreadStep(p)
  /\ UNCHANGED <<master, main, callVars, total_size, crc_file, clientVars>>

Next == MainStep \/ PoolStep \/ ClientStep \/ AskToHalt

Spec == Init /\ [][Next]_vars

\* main and the client go on when they can, and while any thread can, one of them
\* does; so system calls return and every ffmpeg ends.
Fairness ==
  WF_vars(MainStep) /\ WF_vars(ClientStep) /\ WF_vars(PoolStep)

FairSpec == Spec /\ Fairness

-----------------------------------------------------------------------------
TypeOK ==
  /\ PoolTypeOK /\ Load!CopyTypeOK /\ Copy!CopyTypeOK
  /\ main \in {"start", "load", "mp3", "list", "ready"}
  /\ client \in {"none", "copying", "verify", "SUCCESS", "FAILED", "CRC_FAILED"}
  /\ halt \in BOOLEAN /\ decayed \in BOOLEAN /\ since_halt \in Nat

\* When load_master reports success, the RAM disk holds in full every file of the
\* master that readdir has given: through partial sends, a refused sendfile, shortened and sanitised
\* names, whatever order the names come in.
LoadIsWhole == main = "load" => Load!CopyIsWhole

\* total_size and bytes_copied count each byte once, also those that were sent
\* before sendfile was refused.
BytesAreCounted ==
  /\ main = "load" => Load!BytesAreCounted
  /\ client = "copying" => Copy!BytesAreCounted

\* "Copy in ~1MB chunks so we can still respond to the halt flag": a client that
\* is asked to halt makes one more directory, file or chunk at most.
HaltStopsWriting == since_halt <= 1

\* "Copy all files from Ramdrive to the USB drive, alphabetically sorted": no file
\* is made on the stick after one of its directory that comes later by name.
FilesInOrder ==
  [][\A p \in Location : stick[p] = Absent /\ stick'[p].kind = "file" =>
       \A q \in Copy!InDir(Front(p)) : stick[q].kind = "file" =>
         Copy!Before(Last(q), Last(p))]_vars

\* A stick that is accepted has the checked part of every MP3 file on the RAM
\* disk, in all directories.
SuccessIsChecked ==
  client = "SUCCESS" =>
    \A p \in Location : ram[p].kind = "file" /\ HasChecksum(Last(p)) =>
      \A i \in 1 .. CRC_SIZE : i <= Len(ram[p].data) =>
        i <= Len(stick[p].data) /\ stick[p].data[i] = ram[p].data[i]

\* A copy is rejected only for damage: the list of checksums, made from the RAM
\* disk after ffmpeg, fits what the client makes of the names and the files.  What
\* readdir keeps from the client is damage too.
GoodStickIsAccepted == client = "CRC_FAILED" => decayed \/ missed # {}

\* "Its entire contents are copied to the ramdrive": whatever the master holds is
\* on the RAM disk, as it was or processed, when sticks are to be copied.
EntireContents ==
  main = "ready" =>
    \A p \in Load!AllFiles : \E q \in Location :
      ram[q].kind = "file" /\ ram[q].data \in {master[p].data, Processed(master[p].data)}

\* "@return 0 on success or halted, -1 on failure": when load_master reports success,
\* the data of every file of the master is on the RAM disk.
ZeroMeansWhole ==
  main = "load" /\ result = "ok" =>
    \A p \in Load!AllFiles :
      \E q \in Location : ram[q].kind = "file" /\ ram[q].data = master[p].data

\* main comes through: the copy and all the threads end.
MasterIsProcessed == <>(main = "ready")

\* A client that has begun to copy reports an outcome.
JobEnds == client = "copying" ~> client \in {"SUCCESS", "FAILED", "CRC_FAILED"}

\* The copy to a stick is what Client takes it for.
Contract == INSTANCE Transfer WITH
  status <- IF client = "none" \/ result = "none" THEN "idle"
            ELSE IF result = "running" THEN "copying" ELSE result,
  whole <- client # "none" /\ missed = {} /\ Copy!IsCopy

CopyKeepsContract == Contract!Spec

=============================================================================
