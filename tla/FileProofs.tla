----------------------------- MODULE FileProofs -----------------------------
(***************************************************************************)
(* Theorems about Pipeline, for any characters and lengths of names, any   *)
(* trees, any number of tracks and of ffmpeg at once, and any failures.    *)
(***************************************************************************)
EXTENDS Pipeline, TLAPS, FiniteSetTheorems, SequenceTheorems

\* What is proved about a copy, for main's and for the client's.
LoadFacts == INSTANCE CopyProofs WITH
               source <- master, target <- ram, bytes_copied <- total_size, halt <- FALSE,
               FAT <- FALSE, CopyFails <- LoadFails

CopyFacts == INSTANCE CopyProofs WITH source <- ram, target <- stick, FAT <- TRUE

-----------------------------------------------------------------------------
\* The inductive invariant: who holds the semaphore,
Holders == {p \in Location : thread[p] \in {"ffmpeg", "ok", "bad"}}

PoolInv ==
  /\ thread \in [Location -> ThreadSteps] /\ ffmpeg_sem \in Nat
  /\ main_pool = "idle" => \A p \in Location : thread[p] = "none"
  /\ main_pool # "idle" => Cardinality(Holders) + ffmpeg_sem = NUMBER_OF_FFMPEG_THREADS

\* ... where each track is,
Done(p) == File(Processed(original[p].data))

TrackInv ==
  /\ ram = [p \in Location |-> ram[p]]
  /\ \A p \in Location : thread[p] # "none" => Len(p) = 1 /\ is_mp3(p[1])
  /\ \A p \in Location \ killed :
       /\ thread[p] \in {"listed", "wait", "ffmpeg", "bad"} => ram[p] = original[p]
       /\ thread[p] \in {"ok", "rm"} => ram[p] = original[p] /\ ram[Temp(p)] = Done(p)
       /\ thread[p] = "mv" => ram[p] = Absent /\ ram[Temp(p)] = Done(p)
       /\ thread[p] = "done" =>
            \/ Whole(p, ram[p])
            \/ ram[p] = Absent /\ Whole(p, ram[Temp(p)])

\* ... that the RAM disk is a tree whose names a stick takes as they are, whatever
\* the threads make of it,
RamInv ==
  /\ WellFormed(ram) /\ Settled(ram) /\ original \in Tree /\ killed \subseteq Location
  /\ main_pool \in {"idle", "create", "join", "done"}
  /\ main_pool = "idle" => ffmpeg_sem = 0
  /\ main \in {"start", "load"} => main_pool = "idle"
  /\ \A p \in Location :
       /\ thread[p] # "none" => dest_path(p) = p
       /\ thread[p] \notin {"none", "done"} => ram[p].kind # "dir"
       /\ thread[p] \in {"ok", "rm", "mv"} => ram[Temp(p)].kind # "dir"

\* ... whose call of copy_directory it is, if any,
NoCall(results) ==
  stack = <<>> /\ file = Load!NoFile /\ result \in results /\ missed \subseteq Location

CallInv ==
  /\ WellFormed(master) /\ stick \in Tree /\ total_size \in Nat /\ bytes_copied \in Nat
  /\ main \in {"start", "load", "mp3", "list", "ready"}
  /\ client \in {"none", "copying", "verify", "SUCCESS", "FAILED", "CRC_FAILED"}
  /\ client = "none" => stick = Empty
  /\ client # "none" => main = "ready"
  /\ main = "start" => total_size = 0
  /\ main = "load" => LoadFacts!CopyInv
  /\ main # "load" /\ client = "none" => NoCall({"none"})
  /\ client = "copying" => CopyFacts!CopyInv /\ CopyFacts!InOrder
  /\ client \notin {"none", "copying"} => NoCall({"ok", "failed"})

\* ... that a client that has written once after halt is about to see it,
HaltInv ==
  /\ halt \in BOOLEAN /\ since_halt \in {0, 1}
  /\ ~halt => since_halt = 0
  /\ client = "none" => ~halt
  /\ client = "copying" /\ since_halt = 1 => ~CopyFacts!AboutToWrite

\* ... and that the list of checksums is true of the RAM disk and, as far as it has
\* been read, of the stick.
Same(line) == compute_crc32(stick, line.path) = line.crc

CheckInv ==
  /\ decayed \in BOOLEAN
  /\ main \in {"list", "ready"} => main_pool = "done"
  /\ main_pool = "done" => \A p \in Location : thread[p] \in {"none", "done"}
  /\ main = "ready" => crc_file = generate_crcs(ram)
  /\ client \in {"none", "copying"} => ~decayed
  /\ client = "verify" =>
       /\ unread \subseteq crc_file
       /\ \A line \in crc_file \ unread : Same(line)
       /\ ~decayed => Copy!IsCopy
  /\ client = "SUCCESS" => \A line \in crc_file : Same(line)
  /\ client = "CRC_FAILED" => decayed \/ missed # {}

IInv == PoolInv /\ TrackInv /\ RamInv /\ CallInv /\ HaltInv /\ CheckInv

\* Before main's copy, after it, and in a client's whose reads do not fail, readdir has
\* given all.
MissInv ==
  /\ main \in {"start", "load", "mp3", "list", "ready"}
  /\ main # "load" /\ (client = "none" \/ "read" \notin CopyFails) => missed = {}

-----------------------------------------------------------------------------
\* A call of copy_directory, whoever makes it.
CallTypeOK ==
  /\ \A i \in DOMAIN stack :
       /\ stack[i].dir \in Location /\ stack[i].at \in {"enter", "listed", "files", "dirs"}
       /\ stack[i].todo \subseteq {Last(p) : p \in Location \ {Root}}
  /\ file.at \in {"none", "open", "check", "send", "read", "write"}
  /\ file.from \in Location /\ file.pos \in Nat
  /\ result \in {"none", "running", "ok", "failed"} /\ missed \subseteq Location

-----------------------------------------------------------------------------
\* Pipeline and its two copies take FileNames and CopyTree each for themselves; these
\* lemmas say that what they take is the same.
LEMMA LoadAssumptions ==
  LoadFacts!CharAssumption /\ LoadFacts!NameMaxAssumption /\ LoadFacts!LocationAssumption
<1>1. LoadFacts!CharAssumption /\ LoadFacts!NameMaxAssumption
  BY CharAssumption, NameMaxAssumption DEF Dot, LoadFacts!Dot, Underscore, LoadFacts!Underscore,
     LoadFacts!CharAssumption, LoadFacts!NameMaxAssumption
<1>2. LoadFacts!LocationAssumption
  BY LocationAssumption DEF Dot, LoadFacts!Dot, Underscore, LoadFacts!Underscore, Name,
     LoadFacts!Name, Root, LoadFacts!Root, is_mp3, LoadFacts!is_mp3, temp_file,
     LoadFacts!temp_file, Extension, LoadFacts!Extension, Base, LoadFacts!Base, BaseLen,
     LoadFacts!BaseLen, IsLastDot, LoadFacts!IsLastDot, Positions, LoadFacts!Positions,
     IsFiniteSet, LoadFacts!IsFiniteSet,
     LoadFacts!LocationAssumption
<1> QED
  BY <1>1, <1>2

LEMMA LoadNames ==
  /\ \A p : LoadFacts!dest_path(p) = dest_path(p)
  /\ \A p : LoadFacts!Ignored(p) <=> Ignored(p)
<1>1. \A p : LoadFacts!dest_path(p) = dest_path(p)
  BY DEF dest_path, LoadFacts!dest_path, dest_name, LoadFacts!dest_name, sanitize_filename,
     LoadFacts!sanitize_filename, shorten_filename, LoadFacts!shorten_filename, Extension,
     LoadFacts!Extension, BaseLen, LoadFacts!BaseLen, IsLastDot, LoadFacts!IsLastDot, Positions,
     LoadFacts!Positions, Dot, LoadFacts!Dot, Underscore, LoadFacts!Underscore, Front,
     LoadFacts!Front, Last, LoadFacts!Last
<1>2. \A p : LoadFacts!Ignored(p) <=> Ignored(p)
  BY DEF Ignored, LoadFacts!Ignored, Contains, LoadFacts!Contains
<1> QED
  BY <1>1, <1>2

LEMMA LoadTrees ==
  ASSUME NEW tree
  PROVE  /\ LoadFacts!WellFormed(tree) <=> WellFormed(tree)
         /\ LoadFacts!Settled(tree) <=> Settled(tree)
<1>1. LoadFacts!WellFormed(tree) <=> WellFormed(tree)
  BY DEF WellFormed, LoadFacts!WellFormed, Absent, LoadFacts!Absent, Root, LoadFacts!Root, Tree,
     LoadFacts!Tree, Node, LoadFacts!Node
<1>2. LoadFacts!Settled(tree) <=> Settled(tree)
  BY LoadNames DEF Settled, LoadFacts!Settled, Front, LoadFacts!Front
<1> QED
  BY <1>1, <1>2

LEMMA LoadAdvances == Load!CopyNext => LoadFacts!CopyNext
  BY DEF Load!Cardinality, LoadFacts!Cardinality, Load!Front, LoadFacts!Front, Load!Last,
     LoadFacts!Last, Load!Contains, LoadFacts!Contains, Load!Running, LoadFacts!Running,
     Load!NoFile, LoadFacts!NoFile, Load!AtStep, LoadFacts!AtStep, Load!Top, LoadFacts!Top,
     Load!Gone, LoadFacts!Gone, Load!GoOn, LoadFacts!GoOn, Load!Return, LoadFacts!Return,
     Load!Fail, LoadFacts!Fail, Load!Call, LoadFacts!Call, Load!Enter, LoadFacts!Enter,
     Load!Listed, LoadFacts!Listed, Load!CannotLook, LoadFacts!CannotLook, Load!HaltSeen,
     LoadFacts!HaltSeen, Load!NextFile, LoadFacts!NextFile, Load!FilesDone, LoadFacts!FilesDone,
     Load!NextDir, LoadFacts!NextDir, Load!DirsDone, LoadFacts!DirsDone, Load!At, LoadFacts!At,
     Load!FileDone, LoadFacts!FileDone, Load!Src, LoadFacts!Src, Load!Left, LoadFacts!Left,
     Load!Overwrite, LoadFacts!Overwrite, Load!CanOpen, LoadFacts!CanOpen, Load!Open,
     LoadFacts!Open, Load!CheckHalt, LoadFacts!CheckHalt, Load!Send, LoadFacts!Send, Load!Refused,
     LoadFacts!Refused, Load!Read, LoadFacts!Read, Load!Write, LoadFacts!Write, Load!CopyNext,
     LoadFacts!CopyNext, Load!Before, LoadFacts!Before, Load!Code, LoadFacts!Code, Load!IsFirst,
     LoadFacts!IsFirst, Load!InDir, LoadFacts!InDir, Load!Entries, LoadFacts!Entries, Load!IsDir,
     LoadFacts!IsDir, Load!Storable, LoadFacts!Storable, Load!Root, LoadFacts!Root,
     Load!dest_path, LoadFacts!dest_path, Load!dest_name, LoadFacts!dest_name,
     Load!sanitize_filename, LoadFacts!sanitize_filename, Load!shorten_filename,
     LoadFacts!shorten_filename, Load!Extension, LoadFacts!Extension, Load!BaseLen,
     LoadFacts!BaseLen, Load!IsLastDot, LoadFacts!IsLastDot, Load!Positions, LoadFacts!Positions,
     Load!Dot, LoadFacts!Dot, Load!Underscore, LoadFacts!Underscore, Load!Ignored,
     LoadFacts!Ignored, Load!Absent, LoadFacts!Absent, Load!Dir, LoadFacts!Dir, Load!File,
     LoadFacts!File, Load!Listing, LoadFacts!Listing

LEMMA LoadCalls ==
  /\ Load!Call(Load!Root) = LoadFacts!Call(LoadFacts!Root)
  /\ Load!NoFile = LoadFacts!NoFile
  BY DEF Load!Call, LoadFacts!Call, Load!Root, LoadFacts!Root, Load!NoFile, LoadFacts!NoFile

LEMMA LoadTypes ==
  /\ LoadFacts!CopyTypeOK => CallTypeOK
  /\ CallTypeOK /\ ram \in Tree /\ total_size \in Nat => Load!CopyTypeOK
<1>1. LoadFacts!CopyTypeOK => CallTypeOK
  BY DEF LoadFacts!CopyTypeOK, LoadFacts!Steps, LoadFacts!Root, CallTypeOK, Root, Last,
     LoadFacts!Last
<1>2. CallTypeOK /\ ram \in Tree /\ total_size \in Nat => Load!CopyTypeOK
  BY DEF Load!CopyTypeOK, Load!Steps, Load!Root, Load!Tree, Load!Node, Load!Last,
     CallTypeOK, Root, Tree, Node, Last
<1> QED
  BY <1>1, <1>2

LEMMA LoadResults ==
  /\ LoadFacts!CopyIsWhole => Load!CopyIsWhole
  /\ LoadFacts!IsCopy <=> Load!IsCopy
  /\ LoadFacts!BytesAreCounted => Load!BytesAreCounted
<1>1. /\ LoadFacts!AllFiles = Load!AllFiles /\ LoadFacts!AllDirs = Load!AllDirs
      /\ LoadFacts!CopiedFiles = Load!CopiedFiles /\ LoadFacts!CopiedDirs = Load!CopiedDirs
  <2>1. LoadFacts!AllFiles = Load!AllFiles /\ LoadFacts!AllDirs = Load!AllDirs
    BY DEF Load!AllFiles, LoadFacts!AllFiles, Load!AllDirs, LoadFacts!AllDirs, Load!Ignored,
       LoadFacts!Ignored, Load!Contains, LoadFacts!Contains, Load!Front, LoadFacts!Front
  <2>2. \A p : LoadFacts!Given(p) <=> Load!Given(p)
    BY DEF LoadFacts!Given, Load!Given
  <2> QED
    BY <2>1, <2>2 DEF Load!CopiedFiles, LoadFacts!CopiedFiles, Load!CopiedDirs,
       LoadFacts!CopiedDirs
<1>2. \A p : LoadFacts!dest_path(p) = Load!dest_path(p)
  BY DEF Load!dest_path, LoadFacts!dest_path, Load!dest_name, LoadFacts!dest_name,
     Load!sanitize_filename, LoadFacts!sanitize_filename, Load!shorten_filename,
     LoadFacts!shorten_filename, Load!Extension, LoadFacts!Extension, Load!BaseLen,
     LoadFacts!BaseLen, Load!IsLastDot, LoadFacts!IsLastDot, Load!Positions, LoadFacts!Positions,
     Load!Dot, LoadFacts!Dot, Load!Underscore, LoadFacts!Underscore, Load!Front, LoadFacts!Front,
     Load!Last, LoadFacts!Last
<1>3. LoadFacts!IsCopy <=> Load!IsCopy
  BY <1>1, <1>2 DEF Load!IsCopy, LoadFacts!IsCopy, Load!File, LoadFacts!File
<1>4. LoadFacts!CopyIsWhole => Load!CopyIsWhole
  BY <1>1, <1>2, <1>3 DEF Load!CopyIsWhole, LoadFacts!CopyIsWhole, Load!NamesStayApart,
     LoadFacts!NamesStayApart, Load!NothingInTheWay, LoadFacts!NothingInTheWay
<1>5. LoadFacts!BytesAreCounted => Load!BytesAreCounted
  <2>1. LoadFacts!Sizes = Load!Sizes
    BY DEF LoadFacts!Sizes, Load!Sizes
  <2>2. \A f, S : LoadFacts!Total(f, S) = Load!Total(f, S)
    BY DEF LoadFacts!Total, Load!Total, LoadFacts!FoldFunctionOnSet, Load!FoldFunctionOnSet,
       LoadFacts!MapThenFoldSet, Load!MapThenFoldSet
  <2> QED
    BY <1>1, <2>1, <2>2 DEF LoadFacts!BytesAreCounted, Load!BytesAreCounted
<1> QED
  BY <1>3, <1>4, <1>5

LEMMA CopyAssumptions ==
  CopyFacts!CharAssumption /\ CopyFacts!NameMaxAssumption /\ CopyFacts!LocationAssumption
<1>1. CopyFacts!CharAssumption /\ CopyFacts!NameMaxAssumption
  BY CharAssumption, NameMaxAssumption DEF Dot, CopyFacts!Dot, Underscore, CopyFacts!Underscore,
     CopyFacts!CharAssumption, CopyFacts!NameMaxAssumption
<1>2. CopyFacts!LocationAssumption
  BY LocationAssumption DEF Dot, CopyFacts!Dot, Underscore, CopyFacts!Underscore, Name,
     CopyFacts!Name, Root, CopyFacts!Root, is_mp3, CopyFacts!is_mp3, temp_file,
     CopyFacts!temp_file, Extension, CopyFacts!Extension, Base, CopyFacts!Base, BaseLen,
     CopyFacts!BaseLen, IsLastDot, CopyFacts!IsLastDot, Positions, CopyFacts!Positions,
     IsFiniteSet, CopyFacts!IsFiniteSet,
     CopyFacts!LocationAssumption
<1> QED
  BY <1>1, <1>2

LEMMA CopyNames ==
  /\ \A p : CopyFacts!dest_path(p) = dest_path(p)
  /\ \A p : CopyFacts!Ignored(p) <=> Ignored(p)
<1>1. \A p : CopyFacts!dest_path(p) = dest_path(p)
  BY DEF dest_path, CopyFacts!dest_path, dest_name, CopyFacts!dest_name, sanitize_filename,
     CopyFacts!sanitize_filename, shorten_filename, CopyFacts!shorten_filename, Extension,
     CopyFacts!Extension, BaseLen, CopyFacts!BaseLen, IsLastDot, CopyFacts!IsLastDot, Positions,
     CopyFacts!Positions, Dot, CopyFacts!Dot, Underscore, CopyFacts!Underscore, Front,
     CopyFacts!Front, Last, CopyFacts!Last
<1>2. \A p : CopyFacts!Ignored(p) <=> Ignored(p)
  BY DEF Ignored, CopyFacts!Ignored, Contains, CopyFacts!Contains
<1> QED
  BY <1>1, <1>2

LEMMA CopyTrees ==
  ASSUME NEW tree
  PROVE  /\ CopyFacts!WellFormed(tree) <=> WellFormed(tree)
         /\ CopyFacts!Settled(tree) <=> Settled(tree)
<1>1. CopyFacts!WellFormed(tree) <=> WellFormed(tree)
  BY DEF WellFormed, CopyFacts!WellFormed, Absent, CopyFacts!Absent, Root, CopyFacts!Root, Tree,
     CopyFacts!Tree, Node, CopyFacts!Node
<1>2. CopyFacts!Settled(tree) <=> Settled(tree)
  BY CopyNames DEF Settled, CopyFacts!Settled, Front, CopyFacts!Front
<1> QED
  BY <1>1, <1>2

LEMMA CopyAdvances == Copy!CopyNext => CopyFacts!CopyNext
  BY DEF Copy!Cardinality, CopyFacts!Cardinality, Copy!Front, CopyFacts!Front, Copy!Last,
     CopyFacts!Last, Copy!Contains, CopyFacts!Contains, Copy!Running, CopyFacts!Running,
     Copy!NoFile, CopyFacts!NoFile, Copy!AtStep, CopyFacts!AtStep, Copy!Top, CopyFacts!Top,
     Copy!Gone, CopyFacts!Gone, Copy!GoOn, CopyFacts!GoOn, Copy!Return, CopyFacts!Return,
     Copy!Fail, CopyFacts!Fail, Copy!Call, CopyFacts!Call, Copy!Enter, CopyFacts!Enter,
     Copy!Listed, CopyFacts!Listed, Copy!CannotLook, CopyFacts!CannotLook, Copy!HaltSeen,
     CopyFacts!HaltSeen, Copy!NextFile, CopyFacts!NextFile, Copy!FilesDone, CopyFacts!FilesDone,
     Copy!NextDir, CopyFacts!NextDir, Copy!DirsDone, CopyFacts!DirsDone, Copy!At, CopyFacts!At,
     Copy!FileDone, CopyFacts!FileDone, Copy!Src, CopyFacts!Src, Copy!Left, CopyFacts!Left,
     Copy!Overwrite, CopyFacts!Overwrite, Copy!CanOpen, CopyFacts!CanOpen, Copy!Open,
     CopyFacts!Open, Copy!CheckHalt, CopyFacts!CheckHalt, Copy!Send, CopyFacts!Send, Copy!Refused,
     CopyFacts!Refused, Copy!Read, CopyFacts!Read, Copy!Write, CopyFacts!Write, Copy!CopyNext,
     CopyFacts!CopyNext, Copy!Before, CopyFacts!Before, Copy!Code, CopyFacts!Code, Copy!IsFirst,
     CopyFacts!IsFirst, Copy!InDir, CopyFacts!InDir, Copy!Entries, CopyFacts!Entries, Copy!IsDir,
     CopyFacts!IsDir, Copy!Storable, CopyFacts!Storable, Copy!Root, CopyFacts!Root,
     Copy!dest_path, CopyFacts!dest_path, Copy!dest_name, CopyFacts!dest_name,
     Copy!sanitize_filename, CopyFacts!sanitize_filename, Copy!shorten_filename,
     CopyFacts!shorten_filename, Copy!Extension, CopyFacts!Extension, Copy!BaseLen,
     CopyFacts!BaseLen, Copy!IsLastDot, CopyFacts!IsLastDot, Copy!Positions, CopyFacts!Positions,
     Copy!Dot, CopyFacts!Dot, Copy!Underscore, CopyFacts!Underscore, Copy!Ignored,
     CopyFacts!Ignored, Copy!Absent, CopyFacts!Absent, Copy!Dir, CopyFacts!Dir, Copy!File,
     CopyFacts!File, Copy!Listing, CopyFacts!Listing

LEMMA CopyCalls ==
  /\ Copy!Call(Copy!Root) = CopyFacts!Call(CopyFacts!Root)
  /\ Copy!NoFile = CopyFacts!NoFile
  BY DEF Copy!Call, CopyFacts!Call, Copy!Root, CopyFacts!Root, Copy!NoFile, CopyFacts!NoFile

LEMMA CopyTypes ==
  /\ CopyFacts!CopyTypeOK => CallTypeOK
  /\ CallTypeOK /\ stick \in Tree /\ bytes_copied \in Nat => Copy!CopyTypeOK
<1>1. CopyFacts!CopyTypeOK => CallTypeOK
  BY DEF CopyFacts!CopyTypeOK, CopyFacts!Steps, CopyFacts!Root, CallTypeOK, Root, Last,
     CopyFacts!Last
<1>2. CallTypeOK /\ stick \in Tree /\ bytes_copied \in Nat => Copy!CopyTypeOK
  BY DEF Copy!CopyTypeOK, Copy!Steps, Copy!Root, Copy!Tree, Copy!Node, Copy!Last,
     CallTypeOK, Root, Tree, Node, Last
<1> QED
  BY <1>1, <1>2

LEMMA CopyResults ==
  /\ CopyFacts!CopyIsWhole => Copy!CopyIsWhole
  /\ CopyFacts!IsCopy <=> Copy!IsCopy
  /\ CopyFacts!BytesAreCounted => Copy!BytesAreCounted
<1>1. /\ CopyFacts!AllFiles = Copy!AllFiles /\ CopyFacts!AllDirs = Copy!AllDirs
      /\ CopyFacts!CopiedFiles = Copy!CopiedFiles /\ CopyFacts!CopiedDirs = Copy!CopiedDirs
  <2>1. CopyFacts!AllFiles = Copy!AllFiles /\ CopyFacts!AllDirs = Copy!AllDirs
    BY DEF Copy!AllFiles, CopyFacts!AllFiles, Copy!AllDirs, CopyFacts!AllDirs, Copy!Ignored,
       CopyFacts!Ignored, Copy!Contains, CopyFacts!Contains, Copy!Front, CopyFacts!Front
  <2>2. \A p : CopyFacts!Given(p) <=> Copy!Given(p)
    BY DEF CopyFacts!Given, Copy!Given
  <2> QED
    BY <2>1, <2>2 DEF Copy!CopiedFiles, CopyFacts!CopiedFiles, Copy!CopiedDirs,
       CopyFacts!CopiedDirs
<1>2. \A p : CopyFacts!dest_path(p) = Copy!dest_path(p)
  BY DEF Copy!dest_path, CopyFacts!dest_path, Copy!dest_name, CopyFacts!dest_name,
     Copy!sanitize_filename, CopyFacts!sanitize_filename, Copy!shorten_filename,
     CopyFacts!shorten_filename, Copy!Extension, CopyFacts!Extension, Copy!BaseLen,
     CopyFacts!BaseLen, Copy!IsLastDot, CopyFacts!IsLastDot, Copy!Positions, CopyFacts!Positions,
     Copy!Dot, CopyFacts!Dot, Copy!Underscore, CopyFacts!Underscore, Copy!Front, CopyFacts!Front,
     Copy!Last, CopyFacts!Last
<1>3. CopyFacts!IsCopy <=> Copy!IsCopy
  BY <1>1, <1>2 DEF Copy!IsCopy, CopyFacts!IsCopy, Copy!File, CopyFacts!File
<1>4. CopyFacts!CopyIsWhole => Copy!CopyIsWhole
  BY <1>1, <1>2, <1>3 DEF Copy!CopyIsWhole, CopyFacts!CopyIsWhole, Copy!NamesStayApart,
     CopyFacts!NamesStayApart, Copy!NothingInTheWay, CopyFacts!NothingInTheWay
<1>5. CopyFacts!BytesAreCounted => Copy!BytesAreCounted
  <2>1. CopyFacts!Sizes = Copy!Sizes
    BY DEF CopyFacts!Sizes, Copy!Sizes
  <2>2. \A f, S : CopyFacts!Total(f, S) = Copy!Total(f, S)
    BY DEF CopyFacts!Total, Copy!Total, CopyFacts!FoldFunctionOnSet, Copy!FoldFunctionOnSet,
       CopyFacts!MapThenFoldSet, Copy!MapThenFoldSet
  <2> QED
    BY <1>1, <2>1, <2>2 DEF CopyFacts!BytesAreCounted, Copy!BytesAreCounted
<1> QED
  BY <1>3, <1>4, <1>5

\* The names of the temporary files.
LEMMA TempNames ==
  ASSUME NEW m \in Name, NEW n \in Name, is_mp3(m), is_mp3(n)
  PROVE  /\ temp_file(m) # n
         /\ temp_file(m) = temp_file(n) => m = n
         /\ dest_name(n) = n => dest_name(temp_file(n)) = temp_file(n)
<1>1. /\ CopyFacts!Name = Name
      /\ \A k : CopyFacts!is_mp3(k) <=> is_mp3(k)
      /\ \A k : CopyFacts!temp_file(k) = temp_file(k)
      /\ \A k : CopyFacts!dest_name(k) = dest_name(k)
  BY DEF is_mp3, CopyFacts!is_mp3, temp_file, CopyFacts!temp_file, Extension, CopyFacts!Extension,
     Base, CopyFacts!Base, BaseLen, CopyFacts!BaseLen, IsLastDot, CopyFacts!IsLastDot, Positions,
     CopyFacts!Positions, Dot, CopyFacts!Dot, Name, CopyFacts!Name, dest_name,
     CopyFacts!dest_name, sanitize_filename, CopyFacts!sanitize_filename, shorten_filename,
     CopyFacts!shorten_filename, Underscore, CopyFacts!Underscore
<1>2. temp_file(m) # n /\ (temp_file(m) = temp_file(n) => m = n)
  BY <1>1, CopyFacts!TempNames, CopyAssumptions
<1>3. dest_name(n) = n => dest_name(temp_file(n)) = temp_file(n)
  BY <1>1, CopyFacts!TempSettles, CopyAssumptions
<1> QED
  BY <1>2, <1>3
-----------------------------------------------------------------------------
\* The pool of threads.

LEMMA RootPath ==
  ASSUME NEW p \in Location, Len(p) = 1
  PROVE  Front(p) = Root /\ Last(p) = p[1] /\ dest_path(p) = <<dest_name(p[1])>> /\ ~Ignored(Front(p))
<1>1. p \in Seq(Name)
  BY LocationAssumption
<1>2. Front(p) = Root /\ Last(p) = p[1]
  BY <1>1 DEF Front, Last, Root
<1> QED
  BY <1>2 DEF dest_path, Ignored, Root

LEMMA TracksApart ==
  ASSUME NEW p \in Location, NEW q \in Location,
         Len(p) = 1, is_mp3(p[1]), Len(q) = 1, is_mp3(q[1])
  PROVE  /\ Temp(p) \in Location /\ Temp(p) # q
         /\ Temp(p) = Temp(q) => p = q
         /\ Len(Temp(p)) = 1
         /\ dest_path(p) = p => dest_path(Temp(p)) = Temp(p)
<1>1. p[1] \in Name /\ q[1] \in Name /\ p = <<p[1]>> /\ q = <<q[1]>>
  BY LocationAssumption
<1>2. Temp(p) \in Location /\ Len(Temp(p)) = 1 /\ Temp(p)[1] = temp_file(p[1])
  BY LocationAssumption DEF Temp
<1>3. Temp(p) # q
  <2>1. temp_file(p[1]) # q[1]
    BY <1>1, TempNames
  <2> QED
    BY <1>1, <2>1 DEF Temp
<1>4. ASSUME Temp(p) = Temp(q) PROVE p = q
  <2>1. temp_file(p[1]) = temp_file(q[1])
    BY <1>4 DEF Temp
  <2> QED
    BY <1>1, <2>1, TempNames
<1>5. ASSUME dest_path(p) = p PROVE dest_path(Temp(p)) = Temp(p)
  <2>1. dest_path(p) = <<dest_name(p[1])>>
    BY <1>1, RootPath
  <2>2. dest_name(p[1]) = p[1]
    BY <1>1, <1>5, <2>1
  <2>3. dest_name(temp_file(p[1])) = temp_file(p[1])
    BY <1>1, <2>2, TempNames
  <2>4. dest_path(Temp(p)) = <<dest_name(temp_file(p[1]))>>
    BY <1>2, RootPath
  <2> QED
    BY <2>3, <2>4 DEF Temp
<1> QED
  BY <1>2, <1>3, <1>4, <1>5

LEMMA PoolMainStep ==
  ASSUME PoolInv, TrackInv, PoolMain
  PROVE  PoolInv' /\ TrackInv'
<1>1. CASE ListTracks
  <2>1. /\ main_pool = "idle" /\ main_pool' = "create" /\ ram' = ram /\ original' = ram
        /\ thread' = [p \in Location |-> IF IsTrack(ram, p) THEN "listed" ELSE "none"]
        /\ ffmpeg_sem' = NUMBER_OF_FFMPEG_THREADS /\ killed' = killed
    BY <1>1 DEF ListTracks
  <2>2. Holders' = {}
    BY <2>1 DEF Holders
  <2>3. Cardinality(Holders') = 0
    BY <2>2, FS_EmptySet
  <2>4. NUMBER_OF_FFMPEG_THREADS \in Nat
    BY ThreadsAssumption
  <2>5. thread' \in [Location -> ThreadSteps]
    BY <2>1 DEF ThreadSteps
  <2>6. PoolInv'
    BY <2>1, <2>3, <2>4, <2>5 DEF PoolInv
  <2>7. TrackInv'
    BY <2>1 DEF TrackInv, IsTrack
  <2> QED
    BY <2>6, <2>7
<1>2. ASSUME NEW p \in Location, CreateThread(p) PROVE PoolInv' /\ TrackInv'
  <2>1. /\ main_pool = "create" /\ main_pool' = main_pool /\ thread[p] = "listed"
        /\ thread' = [thread EXCEPT ![p] = "wait"]
        /\ UNCHANGED <<ram, ffmpeg_sem, original, killed>>
    BY <1>2 DEF CreateThread
  <2>2. Holders' = Holders
    BY <2>1 DEF Holders, PoolInv
  <2>3. PoolInv'
    BY <2>1, <2>2 DEF PoolInv, ThreadSteps
  <2>4. TrackInv'
    BY <2>1 DEF TrackInv, PoolInv, Temp, Whole, Done
  <2> QED
    BY <2>3, <2>4
<1>3. CASE AllCreated \/ JoinAll
  <2>1. main_pool # "idle" /\ main_pool' # "idle" /\ UNCHANGED <<ram, thread, ffmpeg_sem, original, killed>>
    BY <1>3 DEF AllCreated, JoinAll
  <2>2. Holders' = Holders
    BY <2>1 DEF Holders
  <2>3. PoolInv'
    BY <2>1, <2>2 DEF PoolInv
  <2>4. TrackInv'
    BY <2>1 DEF TrackInv, Temp, Whole, Done
  <2> QED
    BY <2>3, <2>4
<1> QED
  BY <1>1, <1>2, <1>3 DEF PoolMain

\* The semaphore: each step of a thread moves it in or out of Holders, or leaves it.
LEMMA ThreadCount ==
  ASSUME PoolInv, NEW p \in Location, ThreadStep(p)
  PROVE  PoolInv'
<1>1. /\ thread \in [Location -> ThreadSteps] /\ thread[p] # "none" /\ main_pool # "idle"
      /\ main_pool' = main_pool
  BY DEF PoolInv, ThreadStep, Begin, End, Post, RemoveOriginal, Rename, Goes
<1>2. IsFiniteSet(Holders) /\ Cardinality(Holders) \in Nat
  <2>1. IsFiniteSet(Holders)
    BY LocationAssumption, FS_Subset DEF Holders
  <2> QED
    BY <2>1, FS_CardinalityType
<1>3. thread' \in [Location -> ThreadSteps]
  BY <1>1 DEF ThreadSteps, ThreadStep, Begin, End, Post, RemoveOriginal, Rename, Goes
<1>4. CASE Begin(p)
  <2>1. Holders' = Holders \cup {p} /\ p \notin Holders
    BY <1>1, <1>4 DEF Holders, Begin, Goes
  <2>2. Cardinality(Holders') = Cardinality(Holders) + 1
    BY <1>2, <2>1, FS_AddElement
  <2>3. ffmpeg_sem' = ffmpeg_sem - 1 /\ ffmpeg_sem > 0
    BY <1>4 DEF Begin
  <2> QED
    BY <1>1, <1>2, <1>3, <2>2, <2>3, ThreadsAssumption DEF PoolInv
<1>5. CASE Post(p)
  <2>1. Holders' = Holders \ {p} /\ p \in Holders
    BY <1>1, <1>5 DEF Holders, Post, Goes
  <2>2. Cardinality(Holders') = Cardinality(Holders) - 1
    BY <1>2, <2>1, FS_RemoveElement
  <2>3. ffmpeg_sem' = ffmpeg_sem + 1
    BY <1>5 DEF Post
  <2> QED
    BY <1>1, <1>2, <1>3, <2>2, <2>3, ThreadsAssumption DEF PoolInv
<1>6. CASE End(p) \/ RemoveOriginal(p) \/ Rename(p)
  <2>1. Holders' = Holders
    BY <1>1, <1>6 DEF Holders, End, RemoveOriginal, Rename, Goes
  <2>2. ffmpeg_sem' = ffmpeg_sem
    BY <1>6 DEF End, RemoveOriginal, Rename
  <2> QED
    BY <1>1, <1>3, <2>1, <2>2 DEF PoolInv
<1> QED
  BY <1>4, <1>5, <1>6 DEF ThreadStep

\* The tracks: a thread touches its own and its temporary file, and no other does.
LEMMA ThreadTracks ==
  ASSUME PoolInv, TrackInv, NEW p \in Location, ThreadStep(p)
  PROVE  TrackInv'
<1> DEFINE TrackOK(q) ==
      q \notin killed =>
        /\ thread[q] \in {"listed", "wait", "ffmpeg", "bad"} => ram[q] = original[q]
        /\ thread[q] \in {"ok", "rm"} => ram[q] = original[q] /\ ram[Temp(q)] = Done(q)
        /\ thread[q] = "mv" => ram[q] = Absent /\ ram[Temp(q)] = Done(q)
        /\ thread[q] = "done" =>
             \/ Whole(q, ram[q])
             \/ ram[q] = Absent /\ Whole(q, ram[Temp(q)])
<1>1. /\ thread[p] # "none" /\ original' = original
      /\ \E to \in ThreadSteps : thread' = [thread EXCEPT ![p] = to]
  BY DEF ThreadStep, Begin, End, Post, RemoveOriginal, Rename, Goes, ThreadSteps
<1>2. /\ thread \in [Location -> ThreadSteps] /\ ram = [q \in Location |-> ram[q]]
      /\ \A q \in Location : thread[q] # "none" => Len(q) = 1 /\ is_mp3(q[1])
      /\ \A q \in Location : TrackOK(q)
  BY DEF PoolInv, TrackInv
<1>3. Temp(p) \in Location /\ Temp(p) # p
  BY <1>1, <1>2, TracksApart
<1>4. \/ ram' = ram
      \/ \E node : ram' = [ram EXCEPT ![Temp(p)] = node]
      \/ ram' = [ram EXCEPT ![p] = Absent]
      \/ ram' = [ram EXCEPT ![p] = ram[Temp(p)], ![Temp(p)] = Absent]
  BY DEF ThreadStep, Begin, End, Post, RemoveOriginal, Rename
<1>5. ram' = [q \in Location |-> ram'[q]]
  BY <1>2, <1>4
<1>6. killed \subseteq killed' /\ killed' \subseteq killed \cup {p}
  BY DEF ThreadStep, Begin, End, Post, RemoveOriginal, Rename
<1>7. \A q \in Location : thread'[q] # "none" => Len(q) = 1 /\ is_mp3(q[1])
  BY <1>1, <1>2
<1>8. ASSUME NEW q \in Location, q # p PROVE TrackOK(q)'
  <2>1. thread'[q] = thread[q]
    BY <1>1, <1>2, <1>8
  <2>2. CASE thread[q] = "none"
    BY <2>1, <2>2
  <2>3. CASE thread[q] # "none"
    <3>1. Temp(q) \in Location /\ Temp(q) # p /\ Temp(p) # q /\ Temp(p) # Temp(q)
      BY <1>1, <1>2, <1>8, <2>3, TracksApart
    <3>2. ram'[q] = ram[q] /\ ram'[Temp(q)] = ram[Temp(q)]
      BY <1>2, <1>3, <1>4, <1>8, <3>1
    <3>3. Temp(q)' = Temp(q) /\ Done(q)' = Done(q)
      BY <1>1 DEF Temp, Done
    <3>4. \A node : Whole(q, node)' = Whole(q, node)
      BY <1>1 DEF Whole
    <3> QED
      BY <1>1, <1>2, <1>6, <2>1, <3>2, <3>3 DEF Whole
  <2> QED
    BY <2>2, <2>3
<1>9. TrackOK(p)'
  <2> SUFFICES ASSUME p \notin killed' PROVE TrackOK(p)'
    OBVIOUS
  <2>1. p \notin killed /\ TrackOK(p)
    BY <1>2, <1>6
  <2>2. Temp(p)' = Temp(p) /\ Done(p)' = Done(p)
    BY <1>1 DEF Temp, Done
  <2>3. CASE Begin(p)
    <3>1. thread[p] = "wait" /\ thread'[p] = "ffmpeg" /\ ram'[p] = ram[p]
      BY <1>2, <1>3, <2>3 DEF Begin, Goes
    <3> QED
      BY <1>1, <2>1, <3>1
  <2>4. CASE End(p)
    <3>1. thread[p] = "ffmpeg" /\ thread'[p] \in {"ok", "bad"} /\ ram[p] = original[p]
      BY <1>2, <2>1, <2>4 DEF End, Goes
    <3>2. thread'[p] = "bad" => ram'[p] = ram[p]
      BY <1>2, <2>4 DEF End, Goes
    <3>3. thread'[p] = "ok" => ram'[p] = ram[p] /\ ram'[Temp(p)] = Done(p)
      <4> SUFFICES ASSUME thread'[p] = "ok" PROVE ram'[p] = ram[p] /\ ram'[Temp(p)] = Done(p)
        OBVIOUS
      <4>1. ram' = [ram EXCEPT ![Temp(p)] = File(Processed(ram[p].data))]
        BY <1>2, <2>4 DEF End, Goes
      <4> QED
        BY <1>2, <1>3, <3>1, <4>1 DEF Done
    <3> QED
      BY <1>1, <2>2, <3>1, <3>2, <3>3
  <2>5. CASE Post(p)
    <3>1. /\ ram' = ram
          /\ \/ thread[p] = "ok" /\ thread'[p] = "rm"
             \/ thread[p] = "bad" /\ thread'[p] = "done"
      BY <1>2, <2>5 DEF Post, Goes
    <3> QED
      BY <1>1, <2>1, <2>2, <3>1 DEF Whole
  <2>6. CASE RemoveOriginal(p)
    <3>1. \/ /\ thread[p] = "rm" /\ thread'[p] = "mv"
             /\ ram'[p] = Absent /\ ram'[Temp(p)] = ram[Temp(p)]
          \/ thread[p] = "rm" /\ thread'[p] = "done" /\ ram' = ram
      BY <1>2, <1>3, <2>6 DEF RemoveOriginal, Goes
    <3> QED
      BY <1>1, <2>1, <2>2, <3>1 DEF Whole
  <2>7. CASE Rename(p)
    <3>1. /\ thread[p] = "mv" /\ thread'[p] = "done"
          /\ \/ ram'[p] = ram[Temp(p)]
             \/ ram' = ram
      BY <1>2, <1>3, <2>7 DEF Rename, Goes
    <3> QED
      BY <1>1, <2>1, <2>2, <3>1 DEF Whole, Done
  <2> QED
    BY <2>3, <2>4, <2>5, <2>6, <2>7 DEF ThreadStep
<1>10. \A q \in Location : TrackOK(q)'
  BY <1>8, <1>9
<1> QED
  BY <1>5, <1>7, <1>10 DEF TrackInv

\* A file of the root comes, goes or changes.
Leaf(node) ==
  /\ node \in Node /\ node.kind # "dir"
  /\ node.kind = "none" => node = Absent
  /\ node.kind = "file" => node.size >= Len(node.data)

Put(tree, p, node) == [tree EXCEPT ![p] = node]

LEMMA RootChanges ==
  ASSUME NEW tree, WellFormed(tree), Settled(tree),
         NEW p \in Location, Len(p) = 1, dest_path(p) = p, tree[p].kind # "dir",
         NEW node, Leaf(node)
  PROVE  /\ WellFormed(Put(tree, p, node)) /\ Settled(Put(tree, p, node))
         /\ Put(tree, p, node)[p] = node
         /\ \A q \in Location \ {p} : Put(tree, p, node)[q] = tree[q]
         /\ \A q \in Location : Put(tree, p, node)[q].kind = "dir" <=> tree[q].kind = "dir"
<1> DEFINE new == Put(tree, p, node)
<1>1. tree \in Tree /\ new \in Tree
  BY DEF WellFormed, Tree, Leaf, Put
<1>2. new[p] = node /\ \A q \in Location \ {p} : new[q] = tree[q]
  BY <1>1 DEF Tree, Put
<1> HIDE DEF new
<1>3. \A q \in Location : new[q].kind = "dir" <=> tree[q].kind = "dir"
  BY <1>2 DEF Leaf
<1>4. p # Root
  BY DEF Root
<1>5. ASSUME NEW q \in Location, new[q].kind # "none", NEW k \in 0 .. Len(q) - 1
      PROVE  SubSeq(q, 1, k) \in Location /\ new[SubSeq(q, 1, k)].kind = "dir"
  <2>1. CASE q = p
    <3>1. k = 0
      <4>1. Len(q) = 1
        BY <2>1
      <4>2. k \in 0 .. 0
        BY <4>1
      <4> QED
        BY <4>2
    <3>2. SubSeq(q, 1, k) = Root
      <4>1. q \in Seq(Name)
        BY LocationAssumption
      <4> QED
        BY <3>1, <4>1 DEF Root
    <3> QED
      BY <1>3, <3>2, LocationAssumption DEF WellFormed
  <2>2. CASE q # p
    BY <1>2, <1>3, <1>5, <2>2 DEF WellFormed
  <2> QED
    BY <2>1, <2>2
<1>6. WellFormed(new)
  <2>1. \A q \in Location : /\ new[q].kind = "none" => new[q] = Absent
                            /\ new[q].kind = "file" => new[q].size >= Len(new[q].data)
    BY <1>2 DEF WellFormed, Leaf
  <2>2. new[Root].kind = "dir"
    BY <1>3, LocationAssumption DEF WellFormed
  <2> QED
    BY <1>1, <1>5, <2>1, <2>2 DEF WellFormed
<1>7. Settled(new)
  <2>1. ~Ignored(Front(p))
    BY RootPath
  <2> QED
    BY <1>2, <2>1 DEF Settled
<1> QED
  BY <1>2, <1>3, <1>6, <1>7 DEF new

LEMMA Leaves ==
  /\ Leaf(Absent) /\ Leaf(Torn)
  /\ \A data \in Seq(Block) : Leaf(File(Processed(data)))
<1>1. Leaf(Absent)
  BY DEF Leaf, Absent, Node
<1>2. Leaf(Torn)
  <2>1. <<"torn">> \in Seq(Block) /\ Len(<<"torn">>) = 1
    BY BlocksAssumption
  <2> QED
    BY <2>1 DEF Leaf, Torn, File, Node
<1>3. ASSUME NEW data \in Seq(Block) PROVE Leaf(File(Processed(data)))
  <2>1. Processed(data) \in Seq(Block) /\ Len(Processed(data)) \in Nat
    <3>1. <<"processed">> \in Seq(Block)
      BY BlocksAssumption
    <3> QED
      BY <3>1 DEF Processed
  <2> QED
    BY <2>1 DEF Leaf, File, Node
<1> QED
  BY <1>1, <1>2, <1>3

\* The trees that a thread leaves.
LEMMA ThreadLeaves ==
  ASSUME TrackInv, RamInv, NEW p \in Location, ThreadStep(p)
  PROVE  /\ WellFormed(ram)' /\ Settled(ram)'
         /\ \A q \in Location : ram'[q].kind = "dir" <=> ram[q].kind = "dir"
<1> DEFINE t == Temp(p)
<1>1. thread[p] \notin {"none", "done"}
  BY DEF ThreadStep, Begin, End, Post, RemoveOriginal, Rename, Goes
<1>2. Len(p) = 1 /\ is_mp3(p[1]) /\ dest_path(p) = p /\ ram[p].kind # "dir"
  BY <1>1 DEF TrackInv, RamInv
<1>3. t \in Location /\ Len(t) = 1 /\ dest_path(t) = t /\ t # p
  BY <1>2, TracksApart
<1>4. WellFormed(ram) /\ Settled(ram) /\ ram \in [Location -> Node]
  BY DEF RamInv, WellFormed, Tree
<1> HIDE DEF t
<1>5. ASSUME NEW node, Leaf(node), ram[t].kind # "dir", ram' = Put(ram, t, node)
      PROVE  /\ WellFormed(ram)' /\ Settled(ram)'
             /\ \A q \in Location : ram'[q].kind = "dir" <=> ram[q].kind = "dir"
  BY <1>3, <1>4, <1>5, RootChanges
<1>6. CASE UNCHANGED ram
  BY <1>4, <1>6
<1>7. CASE Begin(p)
  <2>1. CASE ram[t].kind = "dir"
    <3>1. ram' = ram
      BY <1>3, <1>4, <1>7, <2>1 DEF Begin, t
    <3> QED
      BY <1>6, <3>1
  <2>2. CASE ram[t].kind # "dir"
    <3>1. ram' = Put(ram, t, Torn)
      BY <1>3, <1>4, <1>7, <2>2 DEF Begin, t, Put
    <3> QED
      BY <1>5, <2>2, <3>1, Leaves
  <2> QED
    BY <2>1, <2>2
<1>8. CASE End(p)
  <2>1. CASE ram' # ram
    <3>1. ram[t].kind # "dir" /\ ram' = Put(ram, t, File(Processed(ram[p].data)))
      BY <1>8, <2>1 DEF End, t, Put
    <3>2. ram[p].data \in Seq(Block)
      BY <1>4 DEF Node
    <3> QED
      BY <1>5, <3>1, <3>2, Leaves
  <2> QED
    BY <1>6, <2>1
<1>9. CASE Post(p)
  BY <1>6, <1>9 DEF Post
<1>10. CASE RemoveOriginal(p)
  <2>1. CASE ram' # ram
    <3>1. ram' = Put(ram, p, Absent)
      BY <1>10, <2>1 DEF RemoveOriginal, Put
    <3> QED
      BY <1>2, <1>4, <3>1, RootChanges, Leaves
  <2> QED
    BY <1>6, <2>1
<1>11. CASE Rename(p)
  <2>1. CASE ram' # ram
    <3> DEFINE mid == Put(ram, p, ram[t])
    <3>1. thread[p] = "mv" /\ ram' = Put(mid, t, Absent)
      BY <1>11, <2>1 DEF Rename, Goes, t, Put
    <3>2. ram[t].kind # "dir"
      BY <3>1 DEF RamInv, t
    <3>3. Leaf(ram[t])
      BY <1>3, <1>4, <3>2 DEF Leaf, WellFormed
    <3>4. /\ WellFormed(mid) /\ Settled(mid)
          /\ \A q \in Location : mid[q].kind = "dir" <=> ram[q].kind = "dir"
      BY <1>2, <1>4, <3>3, RootChanges
    <3> HIDE DEF mid
    <3>5. mid[t].kind # "dir"
      BY <1>3, <3>2, <3>4
    <3>6. /\ WellFormed(Put(mid, t, Absent)) /\ Settled(Put(mid, t, Absent))
          /\ \A q \in Location : Put(mid, t, Absent)[q].kind = "dir" <=> mid[q].kind = "dir"
      BY <1>3, <3>4, <3>5, RootChanges, Leaves
    <3> QED
      BY <3>1, <3>4, <3>6
  <2> QED
    BY <1>6, <2>1
<1> QED
  BY <1>7, <1>8, <1>9, <1>10, <1>11 DEF ThreadStep

LEMMA ThreadRam ==
  ASSUME PoolInv, TrackInv, RamInv, NEW p \in Location, ThreadStep(p), UNCHANGED main
  PROVE  RamInv'
<1>1. /\ WellFormed(ram)' /\ Settled(ram)'
      /\ \A q \in Location : ram'[q].kind = "dir" <=> ram[q].kind = "dir"
  BY ThreadLeaves
<1>2. /\ UNCHANGED <<original, main_pool>> /\ killed' \subseteq killed \cup {p}
      /\ thread[p] \notin {"none", "done"}
      /\ \E to : thread' = [thread EXCEPT ![p] = to]
  BY DEF ThreadStep, Begin, End, Post, RemoveOriginal, Rename, Goes
<1>3. main_pool' # "idle"
  BY <1>2 DEF PoolInv
<1>4. ASSUME NEW q \in Location
      PROVE  /\ thread'[q] # "none" => dest_path(q) = q
             /\ thread'[q] \notin {"none", "done"} => ram'[q].kind # "dir"
             /\ thread'[q] \in {"ok", "rm", "mv"} => ram'[Temp(q)].kind # "dir"
  <2>1. CASE q # p
    <3>1. thread'[q] = thread[q]
      BY <1>2, <2>1 DEF PoolInv
    <3>2. thread[q] # "none" => Temp(q) \in Location
      BY TracksApart DEF TrackInv
    <3> QED
      BY <1>1, <3>1, <3>2 DEF RamInv
  <2>2. CASE q = p
    <3>1. Temp(p) \in Location
      BY <1>2, TracksApart DEF TrackInv
    <3>2. dest_path(p) = p /\ ram'[p].kind # "dir"
      BY <1>1, <1>2 DEF RamInv
    <3>3. thread'[p] \in {"ok", "rm", "mv"} => ram[Temp(p)].kind # "dir"
      BY DEF ThreadStep, Begin, End, Post, RemoveOriginal, Rename, Goes, RamInv, PoolInv
    <3> QED
      BY <1>1, <2>2, <3>1, <3>2, <3>3
  <2> QED
    BY <2>1, <2>2
<1>5. \A q \in Location : Temp(q)' = Temp(q)
  BY DEF Temp
<1> QED
  BY <1>1, <1>2, <1>3, <1>4, <1>5 DEF RamInv

LEMMA PoolMainRam ==
  ASSUME PoolInv, RamInv, PoolMain, main' \notin {"start", "load"}
  PROVE  RamInv'
<1>1. UNCHANGED <<ram, killed>> /\ main_pool' \in {"create", "join", "done"}
  BY DEF PoolMain, ListTracks, AllCreated, JoinAll, CreateThread
<1>2. original' \in Tree
  BY DEF PoolMain, ListTracks, AllCreated, JoinAll, CreateThread, RamInv, WellFormed
<1>3. ASSUME NEW q \in Location
      PROVE  /\ thread'[q] # "none" => dest_path(q) = q
             /\ thread'[q] \notin {"none", "done"} => ram[q].kind # "dir"
             /\ thread'[q] \in {"ok", "rm", "mv"} => ram[Temp(q)].kind # "dir"
  <2>1. CASE ListTracks
    <3>1. thread'[q] = IF IsTrack(ram, q) THEN "listed" ELSE "none"
      BY <2>1 DEF ListTracks
    <3> QED
      BY <3>1 DEF IsTrack, RamInv, Settled
  <2>2. CASE AllCreated \/ JoinAll
    BY <2>2 DEF AllCreated, JoinAll, RamInv
  <2>3. ASSUME NEW p \in Location, CreateThread(p)
        PROVE  /\ thread'[q] # "none" => dest_path(q) = q
               /\ thread'[q] \notin {"none", "done"} => ram[q].kind # "dir"
               /\ thread'[q] \in {"ok", "rm", "mv"} => ram[Temp(q)].kind # "dir"
    <3>1. thread[p] = "listed" /\ thread' = [thread EXCEPT ![p] = "wait"]
      BY <2>3 DEF CreateThread
    <3> QED
      BY <3>1 DEF RamInv, PoolInv
  <2> QED
    BY <2>1, <2>2, <2>3 DEF PoolMain
<1> QED
  BY <1>1, <1>2, <1>3 DEF RamInv, Temp

LEMMA PoolRests ==
  ASSUME PoolInv, TrackInv, RamInv, UNCHANGED poolVars, main' \in {"start", "load"} => main_pool = "idle"
  PROVE  PoolInv' /\ TrackInv' /\ RamInv'
<1>1. UNCHANGED <<ram, main_pool, thread, ffmpeg_sem, original, killed>>
  BY DEF poolVars
<1>2. Holders' = Holders
  BY <1>1 DEF Holders
<1>3. PoolInv'
  BY <1>1, <1>2 DEF PoolInv
<1>4. TrackInv'
  BY <1>1 DEF TrackInv, Temp, Whole, Done
<1>5. RamInv'
  BY <1>1 DEF RamInv, Temp
<1> QED
  BY <1>3, <1>4, <1>5

-----------------------------------------------------------------------------
\* The main thread, one lemma per action.

LEMMA PoolIdle ==
  ASSUME PoolInv, RamInv, main_pool = "idle",
         UNCHANGED <<main_pool, thread, ffmpeg_sem, original, killed>>,
         WellFormed(ram)', Settled(ram)'
  PROVE  PoolInv' /\ TrackInv' /\ RamInv'
<1>1. \A p \in Location : thread'[p] = "none"
  BY DEF PoolInv
<1>2. PoolInv'
  BY <1>1 DEF PoolInv
<1>3. ram' = [p \in Location |-> ram'[p]]
  BY DEF WellFormed, Tree
<1>4. TrackInv'
  BY <1>1, <1>3 DEF TrackInv
<1>5. RamInv'
  BY <1>1 DEF RamInv
<1> QED
  BY <1>2, <1>4, <1>5

LEMMA MainHalts ==
  ASSUME CallInv, HaltInv, MainStep
  PROVE  HaltInv' /\ client = "none" /\ UNCHANGED clientVars /\ main # "ready"
<1>1. main # "ready" /\ UNCHANGED clientVars
  BY DEF MainStep, EmptyRam, LoadMaster, MasterLoaded, ProcessMp3s, WriteCrcFile
<1>2. client = "none"
  BY <1>1 DEF CallInv
<1> QED
  BY <1>1, <1>2 DEF clientVars, HaltInv

LEMMA EmptyRamKeeps ==
  ASSUME IInv, MissInv, EmptyRam
  PROVE  IInv'
<1>1. /\ main = "start" /\ main' = "load" /\ main_pool = "idle" /\ client = "none"
      /\ UNCHANGED <<main_pool, thread, ffmpeg_sem, original, killed, master, file, total_size,
                     crc_file, clientVars>>
      /\ WellFormed(ram) /\ Settled(ram) /\ NoCall({"none"}) /\ WellFormed(master)
  BY DEF EmptyRam, IInv, RamInv, CallInv
<1> DEFINE Spared(p) == p = Root \/ Hidden(p)
<1>2. /\ ram \in [Location -> Node] /\ ram' \in [Location -> Node]
      /\ \A p \in Location : ram'[p] = IF Spared(p) THEN ram[p] ELSE Absent
  <2>1. Absent \in Node
    BY Leaves DEF Leaf
  <2>2. ram' = [p \in Location |-> IF Spared(p) THEN ram[p] ELSE Absent]
    BY DEF EmptyRam
  <2> HIDE DEF Spared
  <2> QED
    BY <1>1, <2>1, <2>2 DEF WellFormed, Tree
<1>3. ASSUME NEW p \in Location, ram'[p].kind # "none", NEW k \in 0 .. Len(p) - 1
      PROVE  SubSeq(p, 1, k) \in Location /\ ram'[SubSeq(p, 1, k)].kind = "dir"
  <2>1. Spared(p) /\ ram[p].kind # "none"
    BY <1>2, <1>3 DEF Absent
  <2>2. SubSeq(p, 1, k) \in Location /\ ram[SubSeq(p, 1, k)].kind = "dir"
    BY <1>1, <2>1 DEF WellFormed
  <2>3. Spared(SubSeq(p, 1, k))
    <3>1. p \in Seq(Name)
      BY LocationAssumption
    <3>2. CASE k = 0
      BY <3>1, <3>2 DEF Root
    <3>3. CASE k # 0
      <4>1. p # Root
        BY <1>3, <3>1, <3>3 DEF Root
      <4>2. SubSeq(p, 1, k)[1] = p[1] /\ SubSeq(p, 1, k) # <<>>
        BY <3>1, <3>3
      <4> QED
        BY <2>1, <4>1, <4>2 DEF Hidden, Root
    <3> QED
      BY <3>2, <3>3
  <2> QED
    BY <1>2, <2>2, <2>3
<1>4. WellFormed(ram)'
  <2>1. ram'[Root].kind = "dir"
    BY <1>1, <1>2, LocationAssumption DEF WellFormed
  <2>2. \A p \in Location : /\ ram'[p].kind = "none" => ram'[p] = Absent
                            /\ ram'[p].kind = "file" => ram'[p].size >= Len(ram'[p].data)
    BY <1>1, <1>2 DEF WellFormed, Absent
  <2> QED
    BY <1>2, <1>3, <2>1, <2>2 DEF WellFormed, Tree
<1>5. Settled(ram)'
  <2>1. \A p \in Location : ram'[p].kind = "file" => ram[p].kind = "file"
    BY <1>2 DEF Absent
  <2> QED
    BY <1>1, <2>1 DEF Settled
<1>6. PoolInv' /\ TrackInv' /\ RamInv'
  BY <1>1, <1>4, <1>5, PoolIdle DEF IInv
<1>7. LoadFacts!CopyInv'
  <2>1. LoadFacts!WellFormed(master)' /\ LoadFacts!WellFormed(ram)'
    BY <1>1, <1>4, LoadTrees
  <2>2. /\ stack' = <<LoadFacts!Call(LoadFacts!Root)>> /\ result' = "running"
        /\ file' = LoadFacts!NoFile /\ total_size' = 0 /\ missed' = {}
    <3>1. Load!Root = Root
      BY DEF Load!Root, Root
    <3> QED
      BY <1>1, <3>1, LoadCalls DEF EmptyRam, NoCall, IInv, CallInv, MissInv
  <2> QED
    BY <2>1, <2>2, LoadFacts!CopyBegins, LoadAssumptions
<1>8. CallInv'
  BY <1>1, <1>7 DEF IInv, CallInv, clientVars
<1>9. HaltInv'
  BY MainHalts DEF MainStep, IInv
<1>10. CheckInv'
  BY <1>1 DEF IInv, CheckInv, clientVars
<1> QED
  BY <1>6, <1>8, <1>9, <1>10 DEF IInv

LEMMA LoadMasterKeeps ==
  ASSUME IInv, LoadMaster
  PROVE  IInv'
<1>1. /\ main = "load" /\ main' = "load" /\ main_pool = "idle" /\ client = "none"
      /\ UNCHANGED <<main_pool, thread, ffmpeg_sem, original, killed, master, crc_file, clientVars>>
      /\ WellFormed(master) /\ Settled(ram) /\ LoadFacts!CopyInv
  BY DEF LoadMaster, IInv, RamInv, CallInv
<1>2. LoadFacts!CopyNext /\ master' = master /\ LoadFacts!WellFormed(master)
      /\ LoadFacts!Settled(ram) /\ CHUNK \in Nat
  BY <1>1, LoadAdvances, LoadTrees, SizesAssumption DEF LoadMaster
<1>3. LoadFacts!CopyInv'
  BY <1>1, <1>2, LoadFacts!CopyStepKeeps, LoadAssumptions
<1>4. WellFormed(ram)' /\ Settled(ram)'
  <2>1. LoadFacts!WellFormed(ram)' /\ total_size' \in Nat
    BY <1>3 DEF LoadFacts!CopyInv
  <2>2. LoadFacts!Settled(ram)'
    BY <1>1, <1>2, LoadFacts!CopySettles, LoadAssumptions
  <2> QED
    BY <2>1, <2>2, LoadTrees
<1>5. PoolInv' /\ TrackInv' /\ RamInv'
  BY <1>1, <1>4, PoolIdle DEF IInv
<1>6. total_size' \in Nat
  BY <1>3 DEF LoadFacts!CopyInv
<1>7. CallInv'
  BY <1>1, <1>3, <1>6 DEF IInv, CallInv, clientVars
<1>8. HaltInv'
  BY MainHalts DEF MainStep, IInv
<1>9. CheckInv'
  BY <1>1 DEF IInv, CheckInv, clientVars
<1> QED
  BY <1>5, <1>7, <1>8, <1>9 DEF IInv

LEMMA MasterLoadedKeeps ==
  ASSUME IInv, MasterLoaded
  PROVE  IInv'
<1>1. /\ main = "load" /\ main' = "mp3" /\ client = "none" /\ main_pool = "idle"
      /\ UNCHANGED <<poolVars, master, stack, file, total_size, crc_file, clientVars>>
      /\ result # "running" /\ result' = "none" /\ missed' = {}
  BY DEF MasterLoaded, IInv, CallInv, RamInv
<1>2. PoolInv' /\ TrackInv' /\ RamInv'
  BY <1>1, PoolRests DEF IInv
<1>3. stack = <<>> /\ file = Load!NoFile
  <2>1. LoadFacts!CopyInv
    BY <1>1 DEF IInv, CallInv
  <2> QED
    BY <1>1, <2>1, LoadFacts!CopyEnds, LoadAssumptions, LoadCalls
<1>4. CallInv'
  <2>1. NoCall({"none"})'
    BY <1>1, <1>3 DEF NoCall, Load!NoFile
  <2> QED
    BY <1>1, <2>1 DEF IInv, CallInv, clientVars
<1>5. HaltInv'
  BY MainHalts DEF MainStep, IInv
<1>6. CheckInv'
  BY <1>1 DEF IInv, CheckInv, clientVars, poolVars
<1> QED
  BY <1>2, <1>4, <1>5, <1>6 DEF IInv

LEMMA ProcessMp3sKeeps ==
  ASSUME IInv, ProcessMp3s
  PROVE  IInv'
<1>1. /\ main = "mp3" /\ main' = (IF main_pool' = "done" THEN "list" ELSE "mp3")
      /\ PoolMain /\ client = "none"
      /\ UNCHANGED <<master, callVars, total_size, crc_file, clientVars>>
  BY DEF ProcessMp3s, IInv, CallInv
<1>2. PoolInv' /\ TrackInv'
  BY <1>1, PoolMainStep DEF IInv
<1>3. RamInv'
  BY <1>1, PoolMainRam DEF IInv
<1>4. CallInv'
  <2>1. NoCall({"none"})'
    BY <1>1 DEF IInv, CallInv, NoCall, callVars, Load!NoFile
  <2> QED
    BY <1>1, <2>1 DEF IInv, CallInv, clientVars
<1>5. HaltInv'
  BY MainHalts DEF MainStep, IInv
<1>6. main_pool' = "done" => \A p \in Location : thread'[p] \in {"none", "done"}
  BY <1>1 DEF PoolMain, ListTracks, AllCreated, JoinAll, CreateThread
<1>7. CheckInv'
  BY <1>1, <1>6 DEF IInv, CheckInv, clientVars
<1> QED
  BY <1>2, <1>3, <1>4, <1>5, <1>7 DEF IInv

LEMMA WriteCrcFileKeeps ==
  ASSUME IInv, WriteCrcFile
  PROVE  IInv'
<1>1. /\ main = "list" /\ main' = "ready" /\ client = "none" /\ crc_file' = generate_crcs(ram)
      /\ UNCHANGED <<poolVars, master, callVars, total_size, clientVars>>
  BY DEF WriteCrcFile, IInv, CallInv
<1>2. PoolInv' /\ TrackInv' /\ RamInv'
  BY <1>1, PoolRests DEF IInv
<1>3. CallInv'
  <2>1. NoCall({"none"})'
    BY <1>1 DEF IInv, CallInv, NoCall, callVars, Load!NoFile
  <2> QED
    BY <1>1, <2>1 DEF IInv, CallInv, clientVars
<1>4. HaltInv'
  BY MainHalts DEF MainStep, IInv
<1>5. CheckInv'
  BY <1>1 DEF IInv, CheckInv, clientVars, poolVars, generate_crcs, compute_crc32
<1> QED
  BY <1>2, <1>3, <1>4, <1>5 DEF IInv

LEMMA PoolStepKeeps ==
  ASSUME IInv, PoolStep
  PROVE  IInv'
<1>1. PICK p \in Location : ThreadStep(p)
  BY DEF PoolStep
<1>2. UNCHANGED <<master, main, callVars, total_size, crc_file, clientVars>>
  BY DEF PoolStep
<1>3. thread[p] \notin {"none", "done"} /\ main_pool' = main_pool
  BY <1>1 DEF ThreadStep, Begin, End, Post, RemoveOriginal, Rename, Goes
<1>4. main_pool \notin {"idle", "done"}
  BY <1>3 DEF IInv, PoolInv, CheckInv
<1>5. main = "mp3" /\ client = "none"
  BY <1>4 DEF IInv, CheckInv, CallInv, RamInv
<1>6. PoolInv' /\ TrackInv' /\ RamInv'
  BY <1>1, <1>2, ThreadCount, ThreadTracks, ThreadRam DEF IInv
<1>7. CallInv'
  <2>1. NoCall({"none"})'
    BY <1>2, <1>5 DEF IInv, CallInv, NoCall, callVars, Load!NoFile
  <2> QED
    BY <1>2, <1>5, <2>1 DEF IInv, CallInv, clientVars
<1>8. HaltInv'
  BY <1>2, <1>5 DEF IInv, HaltInv, clientVars
<1>9. CheckInv'
  BY <1>2, <1>3, <1>4, <1>5 DEF IInv, CheckInv, clientVars
<1> QED
  BY <1>6, <1>7, <1>8, <1>9 DEF IInv

-----------------------------------------------------------------------------
\* The client, one lemma per action.

\* The RAM disk is left alone from then on.
LEMMA ServerRests ==
  ASSUME IInv, UNCHANGED serverVars, client # "none"
  PROVE  /\ PoolInv' /\ TrackInv' /\ RamInv'
         /\ UNCHANGED <<ram, main, master, total_size, crc_file, main_pool, thread>>
         /\ main = "ready" /\ crc_file = generate_crcs(ram) /\ crc_file' = generate_crcs(ram)'
<1>1. UNCHANGED <<poolVars, master, main, total_size, crc_file>>
  BY DEF serverVars
<1>2. main = "ready" /\ crc_file = generate_crcs(ram)
  BY DEF IInv, CallInv, CheckInv
<1>3. PoolInv' /\ TrackInv' /\ RamInv'
  BY <1>1, <1>2, PoolRests DEF IInv
<1>4. UNCHANGED <<ram, main, master, total_size, crc_file, main_pool, thread>>
  BY <1>1 DEF poolVars
<1> QED
  BY <1>2, <1>3, <1>4 DEF generate_crcs, compute_crc32

\* The list comes from the RAM disk, whose names are those of the copy.
LEMMA ListedFiles ==
  ASSUME RamInv, stick \in Tree, Copy!IsCopy, missed = {}, NEW line \in generate_crcs(ram)
  PROVE  Same(line)
<1>1. PICK p \in Location : /\ ram[p].kind = "file"
                            /\ line = [path |-> p, crc |-> compute_crc32(ram, p)]
  BY DEF generate_crcs
<1>2. dest_path(p) = p /\ ~Ignored(Front(p))
  BY <1>1 DEF RamInv, Settled
<1>3. CopyFacts!IsCopy
  BY CopyResults
<1>4. p \in CopyFacts!CopiedFiles /\ CopyFacts!dest_path(p) = p
  <2>1. CopyFacts!dest_path(p) = p /\ ~CopyFacts!Ignored(CopyFacts!Front(p))
    BY <1>2, CopyNames DEF Front, CopyFacts!Front
  <2> QED
    BY <1>1, <2>1 DEF CopyFacts!CopiedFiles, CopyFacts!AllFiles, CopyFacts!Given
<1>5. stick[p].data = ram[p].data
  <2>1. stick[CopyFacts!dest_path(p)] = CopyFacts!File(ram[p].data)
    BY <1>3, <1>4 DEF CopyFacts!IsCopy
  <2>2. stick[p] = CopyFacts!File(ram[p].data)
    BY <1>4, <2>1
  <2> QED
    BY <2>2 DEF CopyFacts!File
<1> QED
  BY <1>1, <1>5 DEF Same, compute_crc32

\* Of a RAM disk with such names every copy that returns 0 is whole.
LEMMA SettledIsCopied ==
  ASSUME RamInv, CopyFacts!CopyInv, CopyFacts!InOrder, result = "ok", ~halt
  PROVE  Copy!IsCopy
<1>1. \A p \in CopyFacts!AllFiles :
        p \in Location /\ ram[p].kind = "file" /\ CopyFacts!dest_path(p) = p
  BY CopyNames DEF CopyFacts!AllFiles, RamInv, Settled
<1>2. CopyFacts!NamesStayApart
  BY <1>1 DEF CopyFacts!NamesStayApart, CopyFacts!AllDirs
<1>3. CopyFacts!NothingInTheWay
  BY <1>1 DEF CopyFacts!NothingInTheWay, CopyFacts!CopiedDirs, CopyFacts!AllDirs,
     CopyFacts!InOrder
<1>4. CopyFacts!CopyIsWhole
  BY CopyFacts!CopyWhole, CopyAssumptions
<1> QED
  BY <1>2, <1>3, <1>4, CopyResults DEF CopyFacts!CopyIsWhole

LEMMA StartCopyKeeps ==
  ASSUME IInv, StartCopy
  PROVE  IInv'
<1>1. /\ main = "ready" /\ client = "none" /\ client' = "copying" /\ stick = Empty
      /\ Copy!Start /\ UNCHANGED <<serverVars, stick, halt, unread, since_halt, decayed>>
  BY DEF StartCopy, IInv, CallInv
<1>2. /\ PoolInv' /\ TrackInv' /\ RamInv'
      /\ UNCHANGED <<ram, main, master, total_size, crc_file, main_pool, thread>>
  <2>1. UNCHANGED poolVars /\ UNCHANGED <<main, master, total_size, crc_file>>
    BY <1>1 DEF serverVars
  <2> QED
    BY <1>1, <2>1, PoolRests DEF IInv, poolVars
<1>3. /\ stack' = <<CopyFacts!Call(CopyFacts!Root)>> /\ result' = "running"
      /\ file' = CopyFacts!NoFile /\ bytes_copied' = 0 /\ missed' = {}
  BY <1>1, CopyCalls DEF Copy!Start
<1>4. WellFormed(stick)' /\ \A p \in Location : stick'[p].kind # "file"
  <2>1. Absent \in Node /\ Dir \in Node
    BY DEF Absent, Dir, Node
  <2>2. stick \in [Location -> Node] /\ \A p \in Location : stick[p] = IF p = Root THEN Dir ELSE Absent
    BY <1>1, <2>1 DEF Empty
  <2>3. ASSUME NEW p \in Location, stick[p].kind # "none", NEW k \in 0 .. Len(p) - 1 PROVE FALSE
    BY <2>2, <2>3 DEF Absent, Root
  <2>4. WellFormed(stick)
    BY <2>2, <2>3, LocationAssumption DEF WellFormed, Tree, Absent, Dir
  <2> QED
    BY <1>1, <2>2, <2>4 DEF Absent, Dir
<1>5. CopyFacts!CopyInv'
  <2>1. CopyFacts!WellFormed(ram)' /\ CopyFacts!WellFormed(stick)'
    BY <1>2, <1>3, <1>4, CopyTrees DEF RamInv
  <2> QED
    BY <1>3, <2>1, CopyFacts!CopyBegins, CopyAssumptions
<1>6. CopyFacts!InOrder'
  BY <1>3, <1>4, CopyFacts!OrderBegins, CopyAssumptions
<1>7. CallInv'
  BY <1>1, <1>2, <1>3, <1>5, <1>6 DEF IInv, CallInv
<1>8. HaltInv'
  BY <1>1 DEF IInv, HaltInv
<1>9. CheckInv'
  BY <1>1, <1>2 DEF IInv, CheckInv, generate_crcs, compute_crc32
<1> QED
  BY <1>2, <1>7, <1>8, <1>9 DEF IInv

LEMMA CopyStepKeeps ==
  ASSUME IInv, CopyStep
  PROVE  IInv'
<1>1. /\ client = "copying" /\ client' = "copying"
      /\ UNCHANGED <<serverVars, halt, unread, decayed>>
      /\ since_halt' = IF halt /\ stick' # stick THEN since_halt + 1 ELSE since_halt
  BY DEF CopyStep, CountChange
<1>2. /\ PoolInv' /\ TrackInv' /\ RamInv'
      /\ UNCHANGED <<ram, main, master, total_size, crc_file, main_pool, thread>>
      /\ main = "ready" /\ crc_file' = generate_crcs(ram)'
  BY <1>1, ServerRests
<1>3. /\ CopyFacts!CopyInv /\ CopyFacts!InOrder
      /\ CopyFacts!CopyNext /\ UNCHANGED <<ram, halt>> /\ CHUNK \in Nat
      /\ CopyFacts!WellFormed(ram) /\ CopyFacts!Settled(ram)
  BY <1>1, <1>2, CopyAdvances, CopyTrees, SizesAssumption
     DEF CopyStep, IInv, CallInv, RamInv
<1>4. CopyFacts!CopyInv'
  BY <1>3, CopyFacts!CopyStepKeeps, CopyAssumptions
<1>5. CopyFacts!InOrder'
  BY <1>3, CopyFacts!CopyStaysInOrder, CopyAssumptions
<1>6. /\ halt => ~CopyFacts!AboutToWrite'
      /\ stick' # stick => CopyFacts!AboutToWrite
  BY <1>3, CopyFacts!CopyHalts, CopyAssumptions
<1>7. CallInv'
  <2>1. bytes_copied' \in Nat /\ stick' \in Tree
    <3>1. CopyFacts!WellFormed(stick)' /\ bytes_copied' \in Nat
      BY <1>4 DEF CopyFacts!CopyInv
    <3> QED
      BY <3>1, CopyTrees DEF WellFormed
  <2> QED
    BY <1>1, <1>2, <1>4, <1>5, <2>1 DEF IInv, CallInv
<1>8. HaltInv'
  BY <1>1, <1>6 DEF IInv, HaltInv
<1>9. CheckInv'
  BY <1>1, <1>2 DEF IInv, CheckInv
<1> QED
  BY <1>2, <1>7, <1>8, <1>9 DEF IInv

\* A block of a file reads back damaged.
LEMMA DamagedTree ==
  ASSUME NEW tree \in Tree, NEW p \in Location, NEW i \in DOMAIN tree[p].data
  PROVE  [tree EXCEPT ![p].data[i] = "damaged"] \in Tree
<1>1. "damaged" \in Block /\ tree[p].data \in Seq(Block)
  BY BlocksAssumption DEF Tree, Node
<1>2. [tree[p].data EXCEPT ![i] = "damaged"] \in Seq(Block)
  BY <1>1
<1> DEFINE data == [tree[p].data EXCEPT ![i] = "damaged"]
<1>3. [tree EXCEPT ![p].data[i] = "damaged"] = [tree EXCEPT ![p] = [tree[p] EXCEPT !.data = data]]
  BY Zenon
<1> HIDE DEF data
<1>4. [tree[p] EXCEPT !.data = data] \in Node
  BY <1>2 DEF Tree, Node, data
<1> QED
  BY <1>3, <1>4 DEF Tree

\* What it is to be a copy depends on the two trees and on what readdir has given only.
LEMMA SameCopy ==
  ASSUME UNCHANGED <<ram, stick, missed>>
  PROVE  Copy!IsCopy' <=> Copy!IsCopy
<1>1. Copy!AllFiles' = Copy!AllFiles /\ Copy!AllDirs' = Copy!AllDirs
  BY DEF Copy!AllFiles, Copy!AllDirs
<1>2. \A p : Copy!Given(p)' <=> Copy!Given(p)
  BY DEF Copy!Given
<1>3. Copy!CopiedFiles' = Copy!CopiedFiles /\ Copy!CopiedDirs' = Copy!CopiedDirs
  BY <1>1, <1>2 DEF Copy!CopiedFiles, Copy!CopiedDirs
<1> QED
  BY <1>3 DEF Copy!IsCopy

LEMMA CopyReturnedKeeps ==
  ASSUME IInv, CopyReturned
  PROVE  IInv'
<1>1. /\ client = "copying" /\ result \in {"ok", "failed"}
      /\ client' = (IF result = "failed" \/ halt THEN "FAILED" ELSE "verify")
      /\ unread' = (IF client' = "verify" THEN crc_file ELSE {})
      /\ UNCHANGED <<serverVars, callVars, bytes_copied, halt, since_halt>>
      /\ \/ UNCHANGED <<stick, decayed>>
         \/ /\ decayed' = TRUE
            /\ \E p \in Location : \E i \in DOMAIN stick[p].data :
                 stick' = [stick EXCEPT ![p].data[i] = "damaged"]
  BY DEF CopyReturned
<1>2. /\ PoolInv' /\ TrackInv' /\ RamInv'
      /\ UNCHANGED <<ram, main, master, total_size, crc_file, main_pool, thread>>
      /\ main = "ready" /\ crc_file' = generate_crcs(ram)'
  BY <1>1, ServerRests
<1>3. CopyFacts!CopyInv /\ CopyFacts!InOrder /\ stick \in Tree /\ bytes_copied \in Nat
  BY <1>1 DEF IInv, CallInv
<1>4. stick' \in Tree
  BY <1>1, <1>3, DamagedTree
<1>5. NoCall({"ok", "failed"})'
  <2>1. stack = <<>> /\ file = CopyFacts!NoFile /\ missed \subseteq Location
    BY <1>1, <1>3, CopyFacts!CopyEnds, CopyAssumptions DEF CopyFacts!CopyInv
  <2>2. file' = Load!NoFile
    BY <1>1, <2>1, CopyCalls DEF callVars, Load!NoFile, Copy!NoFile, Load!Root, Copy!Root
  <2> QED
    BY <1>1, <2>1, <2>2 DEF NoCall, callVars, Load!NoFile
<1>6. CallInv'
  BY <1>1, <1>2, <1>3, <1>4, <1>5 DEF IInv, CallInv
<1>7. HaltInv'
  BY <1>1 DEF IInv, HaltInv
<1>8. CheckInv'
  <2>1. decayed' \in BOOLEAN
    BY <1>1 DEF IInv, CheckInv
  <2>2. client' = "verify" /\ ~decayed' => Copy!IsCopy'
    <3> SUFFICES ASSUME client' = "verify", ~decayed' PROVE Copy!IsCopy'
      OBVIOUS
    <3>1. result = "ok" /\ ~halt /\ UNCHANGED <<ram, stick, missed>>
      BY <1>1, <1>2 DEF callVars
    <3>2. Copy!IsCopy
      BY <1>3, <3>1, SettledIsCopied DEF IInv
    <3> QED
      BY <3>1, <3>2, SameCopy
  <2>3. client' = "verify" =>
          unread' \subseteq crc_file' /\ \A line \in crc_file' \ unread' : Same(line)'
    BY <1>1, <1>2
  <2> QED
    BY <1>1, <1>2, <2>1, <2>2, <2>3 DEF IInv, CheckInv
<1> QED
  BY <1>2, <1>6, <1>7, <1>8 DEF IInv

\* The client reads the list, or is done with it.
LEMMA VerifyRests ==
  ASSUME IInv, client = "verify", client' \in {"verify", "SUCCESS", "FAILED", "CRC_FAILED"},
         UNCHANGED <<serverVars, callVars, stick, bytes_copied, halt, since_halt, decayed>>
  PROVE  /\ PoolInv' /\ TrackInv' /\ RamInv' /\ CallInv' /\ HaltInv'
         /\ UNCHANGED <<ram, main, crc_file, main_pool, thread>>
         /\ crc_file = generate_crcs(ram) /\ crc_file' = generate_crcs(ram)'
         /\ \A l : Same(l)' <=> Same(l)
         /\ Copy!IsCopy' <=> Copy!IsCopy
<1>1. /\ PoolInv' /\ TrackInv' /\ RamInv'
      /\ UNCHANGED <<ram, main, master, total_size, crc_file, main_pool, thread>>
      /\ main = "ready" /\ crc_file = generate_crcs(ram) /\ crc_file' = generate_crcs(ram)'
  BY ServerRests
<1>2. CallInv'
  BY <1>1 DEF IInv, CallInv, NoCall, callVars, Load!NoFile
<1>3. HaltInv'
  BY DEF IInv, HaltInv
<1>4. \A l : Same(l)' <=> Same(l)
  BY DEF Same, compute_crc32
<1>5. Copy!IsCopy' <=> Copy!IsCopy
  <2>1. UNCHANGED <<ram, stick, missed>>
    BY <1>1 DEF callVars
  <2> QED
    BY <2>1, SameCopy
<1> QED
  BY <1>1, <1>2, <1>3, <1>4, <1>5

LEMMA CompareLineKeeps ==
  ASSUME IInv, CompareLine
  PROVE  IInv'
<1>1. PICK line \in unread :
        /\ unread' = unread \ {line}
        /\ client' = IF Same(line) THEN "verify" ELSE "CRC_FAILED"
  BY DEF CompareLine, Same
<1>2. /\ client = "verify"
      /\ UNCHANGED <<serverVars, callVars, stick, bytes_copied, halt, since_halt, decayed>>
  BY DEF CompareLine
<1>3. /\ PoolInv' /\ TrackInv' /\ RamInv' /\ CallInv' /\ HaltInv'
      /\ UNCHANGED <<ram, main, crc_file, main_pool, thread>>
      /\ crc_file = generate_crcs(ram) /\ crc_file' = generate_crcs(ram)'
      /\ \A l : Same(l)' <=> Same(l)
      /\ Copy!IsCopy' <=> Copy!IsCopy
  BY <1>1, <1>2, VerifyRests
<1>4. client' = "CRC_FAILED" => decayed \/ missed # {}
  <2>1. line \in crc_file
    BY <1>2 DEF IInv, CheckInv
  <2>2. Copy!IsCopy /\ missed = {} => Same(line)
    BY <1>3, <2>1, ListedFiles DEF IInv, CallInv
  <2> QED
    BY <1>1, <1>2, <2>2 DEF IInv, CheckInv
<1>5. client' = "verify" => \A l \in crc_file' \ unread' : Same(l)'
  BY <1>1, <1>2, <1>3 DEF IInv, CheckInv
<1>6. CheckInv'
  BY <1>1, <1>2, <1>3, <1>4, <1>5 DEF IInv, CheckInv, callVars
<1> QED
  BY <1>3, <1>6 DEF IInv

LEMMA VerifyDoneKeeps ==
  ASSUME IInv, VerifyDone
  PROVE  IInv'
<1>1. /\ client = "verify" /\ client' \in {"FAILED", "SUCCESS"}
      /\ client' = "SUCCESS" => unread = {}
      /\ UNCHANGED <<serverVars, callVars, stick, bytes_copied, halt, since_halt, decayed>>
  BY DEF VerifyDone, IInv, HaltInv
<1>2. /\ PoolInv' /\ TrackInv' /\ RamInv' /\ CallInv' /\ HaltInv'
      /\ UNCHANGED <<ram, main, crc_file, main_pool, thread>>
      /\ crc_file = generate_crcs(ram) /\ crc_file' = generate_crcs(ram)'
      /\ \A l : Same(l)' <=> Same(l)
  BY <1>1, VerifyRests
<1>3. CheckInv'
  BY <1>1, <1>2 DEF IInv, CheckInv
<1> QED
  BY <1>2, <1>3 DEF IInv

LEMMA AskToHaltKeeps ==
  ASSUME IInv, AskToHalt
  PROVE  IInv'
<1>1. /\ client \in {"copying", "verify"} /\ halt' = TRUE
      /\ UNCHANGED <<serverVars, callVars, client, stick, bytes_copied, unread, since_halt, decayed>>
  BY DEF AskToHalt
<1>2. /\ PoolInv' /\ TrackInv' /\ RamInv'
      /\ UNCHANGED <<ram, main, master, total_size, crc_file, main_pool, thread>>
      /\ main = "ready" /\ crc_file' = generate_crcs(ram)'
  BY <1>1, ServerRests
<1>3. client = "copying" => CopyFacts!CopyInv' /\ CopyFacts!InOrder'
  <2>1. UNCHANGED <<ram, CopyFacts!copyVars>>
    BY <1>1, <1>2 DEF callVars, CopyFacts!copyVars
  <2> QED
    BY <1>1, <2>1, CopyFacts!CopyRests, CopyFacts!OrderRests, CopyAssumptions DEF IInv, CallInv
<1>4. CallInv'
  BY <1>1, <1>2, <1>3 DEF IInv, CallInv, NoCall, callVars, Load!NoFile
<1>5. HaltInv'
  BY <1>1 DEF IInv, HaltInv, CopyFacts!AboutToWrite, callVars, CopyFacts!Top
<1>6. CheckInv'
  <2>1. UNCHANGED <<ram, stick, missed>>
    BY <1>1, <1>2 DEF callVars
  <2> QED
    BY <1>1, <1>2, <2>1, SameCopy DEF IInv, CheckInv, Same, compute_crc32
<1> QED
  BY <1>2, <1>4, <1>5, <1>6 DEF IInv

LEMMA NothingKeeps ==
  ASSUME IInv, UNCHANGED vars
  PROVE  IInv'
<1>1. /\ UNCHANGED <<poolVars, master, main, callVars, total_size, crc_file, client, stick,
                     bytes_copied, halt, unread, since_halt, decayed>>
  BY DEF vars, clientVars
<1>2. PoolInv' /\ TrackInv' /\ RamInv' /\ UNCHANGED <<ram, main_pool, thread>>
  BY <1>1, PoolRests DEF IInv, RamInv, poolVars
<1>3. main = "load" => LoadFacts!CopyInv'
  <2>1. UNCHANGED <<master, LoadFacts!copyVars>>
    BY <1>1, <1>2 DEF callVars, LoadFacts!copyVars
  <2> QED
    BY <2>1, LoadFacts!CopyRests, LoadAssumptions DEF IInv, CallInv
<1>4. client = "copying" => CopyFacts!CopyInv' /\ CopyFacts!InOrder'
  <2>1. UNCHANGED <<ram, CopyFacts!copyVars>>
    BY <1>1, <1>2 DEF callVars, CopyFacts!copyVars
  <2> QED
    BY <1>1, <2>1, CopyFacts!CopyRests, CopyFacts!OrderRests, CopyAssumptions DEF IInv, CallInv
<1>5. CallInv'
  BY <1>1, <1>2, <1>3, <1>4 DEF IInv, CallInv, NoCall, callVars, Load!NoFile
<1>6. HaltInv'
  BY <1>1 DEF IInv, HaltInv, CopyFacts!AboutToWrite, callVars, CopyFacts!Top
<1>7. CheckInv'
  <2>1. UNCHANGED <<ram, stick, missed>>
    BY <1>1, <1>2 DEF callVars
  <2> QED
    BY <1>1, <1>2, <2>1, SameCopy DEF IInv, CheckInv, Same, compute_crc32, generate_crcs
<1> QED
  BY <1>2, <1>5, <1>6, <1>7 DEF IInv

-----------------------------------------------------------------------------
LEMMA InvInit == Init => IInv
<1> SUFFICES ASSUME Init PROVE IInv
  OBVIOUS
<1>1. /\ WellFormed(master) /\ WellFormed(ram) /\ Settled(ram) /\ original = ram
      /\ thread = [p \in Location |-> "none"] /\ main_pool = "idle" /\ ffmpeg_sem = 0 /\ killed = {}
      /\ main = "start" /\ client = "none" /\ stick = Empty /\ NoCall({"none"})
      /\ total_size = 0 /\ bytes_copied = 0 /\ halt = FALSE /\ since_halt = 0 /\ decayed = FALSE
  BY TreesAssumption DEF Init, NoCall
<1>2. ram \in Tree /\ ram = [p \in Location |-> ram[p]]
  BY <1>1 DEF WellFormed, Tree
<1>3. PoolInv
  BY <1>1 DEF PoolInv, ThreadSteps
<1>4. TrackInv
  BY <1>1, <1>2 DEF TrackInv
<1>5. RamInv
  BY <1>1, <1>2 DEF RamInv
<1>6. stick \in Tree
  <2>1. Absent \in Node /\ Dir \in Node
    BY DEF Absent, Dir, Node
  <2> QED
    BY <1>1, <2>1 DEF Empty, Tree
<1>7. CallInv
  BY <1>1, <1>6 DEF CallInv
<1>8. HaltInv /\ CheckInv
  BY <1>1 DEF HaltInv, CheckInv
<1> QED
  BY <1>3, <1>4, <1>5, <1>7, <1>8 DEF IInv

\* Only a directory that is opened can have entries that readdir does not give.
LEMMA MissInit == Init => MissInv
  BY DEF Init, MissInv

LEMMA MissStep == MissInv /\ [Next]_vars => MissInv'
<1> SUFFICES ASSUME MissInv, [Next]_vars PROVE MissInv'
  OBVIOUS
<1>1. CASE EmptyRam \/ LoadMaster
  BY <1>1 DEF MissInv, EmptyRam, LoadMaster
<1>2. CASE MasterLoaded
  BY <1>2 DEF MissInv, MasterLoaded
<1>3. CASE ProcessMp3s \/ WriteCrcFile
  BY <1>3 DEF MissInv, ProcessMp3s, WriteCrcFile, callVars, clientVars
<1>4. CASE PoolStep
  BY <1>4 DEF MissInv, PoolStep, callVars, clientVars
<1>5. CASE StartCopy
  BY <1>5 DEF MissInv, StartCopy, Copy!Start, serverVars
<1>6. CASE CopyStep
  <2>1. client = "copying" /\ client' = "copying" /\ main' = main /\ Copy!CopyNext
    BY <1>6 DEF CopyStep, serverVars
  <2>2. ASSUME "read" \notin CopyFails, missed = {} PROVE missed' = {}
    <3>1. CASE Copy!Enter
      BY <2>2, <3>1 DEF Copy!Enter
    <3>2. CASE UNCHANGED missed
      BY <2>2, <3>2
    <3> QED
      BY <2>1, <3>1, <3>2 DEF Copy!CopyNext
  <2> QED
    BY <2>1, <2>2 DEF MissInv
<1>7. CASE CopyReturned \/ CompareLine \/ VerifyDone \/ AskToHalt
  BY <1>7 DEF MissInv, CopyReturned, CompareLine, VerifyDone, AskToHalt, serverVars, callVars
<1>8. CASE UNCHANGED vars
  BY <1>8 DEF MissInv, vars, callVars, clientVars
<1> QED
  BY <1>1, <1>2, <1>3, <1>4, <1>5, <1>6, <1>7, <1>8 DEF Next, MainStep, ClientStep

LEMMA InvStep == IInv /\ MissInv /\ [Next]_vars => IInv'
  BY EmptyRamKeeps, LoadMasterKeeps, MasterLoadedKeeps, ProcessMp3sKeeps, WriteCrcFileKeeps,
     PoolStepKeeps, StartCopyKeeps, CopyStepKeeps, CopyReturnedKeeps, CompareLineKeeps,
     VerifyDoneKeeps, AskToHaltKeeps, NothingKeeps DEF Next, MainStep, ClientStep

\* The invariant of the way of the files: whatever the trees, the failures and the order
\* of the threads, the RAM disk stays a tree whose names a stick takes as they are, and
\* each of the two copies is where its stack says.
THEOREM Invariance == Spec => [](IInv /\ MissInv)
<1> QED
  BY InvInit, InvStep, MissInit, MissStep, PTL DEF Spec

-----------------------------------------------------------------------------
\* The trees stay trees, the calls are at one of their steps, the semaphore within its
\* bounds: from the master to the outcome of a client.
THEOREM PipelineTyping == Spec => []TypeOK
<1>1. IInv => TypeOK
  <2> SUFFICES ASSUME IInv PROVE TypeOK
    OBVIOUS
  <2>1. PoolTypeOK
    <3>1. Cardinality(Holders) \in Nat
      BY LocationAssumption, FS_Subset, FS_CardinalityType DEF Holders
    <3>2. ffmpeg_sem \in 0 .. NUMBER_OF_FFMPEG_THREADS
      BY <3>1, ThreadsAssumption DEF IInv, PoolInv, RamInv
    <3> QED
      BY <3>2 DEF PoolTypeOK, IInv, PoolInv, RamInv, WellFormed
  <2>2. CallTypeOK
    <3>1. CASE main = "load"
      <4>1. LoadFacts!CopyInv
        BY <3>1 DEF IInv, CallInv
      <4> QED
        BY <4>1, LoadFacts!CopyTyped, LoadAssumptions, LoadTypes
    <3>2. CASE client = "copying"
      <4>1. CopyFacts!CopyInv
        BY <3>2 DEF IInv, CallInv
      <4> QED
        BY <4>1, CopyFacts!CopyTyped, CopyAssumptions, CopyTypes
    <3>3. CASE main # "load" /\ client # "copying"
      <4>1. NoCall({"none", "ok", "failed"})
        BY <3>3 DEF IInv, CallInv, NoCall
      <4> QED
        BY <4>1, LocationAssumption DEF CallTypeOK, NoCall, Load!NoFile, Load!Root, Root
    <3> QED
      BY <3>1, <3>2, <3>3
  <2>3. Load!CopyTypeOK /\ Copy!CopyTypeOK
    BY <2>2, LoadTypes, CopyTypes DEF IInv, CallInv, RamInv, WellFormed
  <2> QED
    BY <2>1, <2>3 DEF TypeOK, IInv, CallInv, HaltInv, CheckInv
<1> QED
  BY <1>1, Invariance, PTL

\* When load_master returns 0, the RAM disk holds every file and directory of the master
\* that readdir has given: the recursion, the loops over sorted names, the chunks and the
\* second way of copying after a refused sendfile leave nothing out, and a listing that an
\* error cuts short takes no more away than its own entries.
THEOREM LoadIsAll == Spec => []LoadIsWhole
<1>1. IInv => LoadIsWhole
  BY LoadFacts!CopyWhole, LoadAssumptions, LoadResults DEF IInv, CallInv, LoadIsWhole
<1> QED
  BY <1>1, Invariance, PTL

\* total_size and bytes_copied, from which the progress of a stick is told, are what the
\* files come to: sendfile's first bytes are not counted again when it is refused, and
\* nothing of an ignored directory is counted.
THEOREM BytesAreAllCounted == Spec => []BytesAreCounted
<1>1. IInv => BytesAreCounted
  <2> SUFFICES ASSUME IInv PROVE BytesAreCounted
    OBVIOUS
  <2>1. ASSUME main = "load" PROVE Load!BytesAreCounted
    <3>1. LoadFacts!CopyInv /\ LoadFacts!WellFormed(master)
      BY <2>1, LoadTrees DEF IInv, CallInv
    <3> QED
      BY <3>1, LoadFacts!CopyCounted, LoadAssumptions, LoadResults
  <2>2. ASSUME client = "copying" PROVE Copy!BytesAreCounted
    <3>1. CopyFacts!CopyInv /\ CopyFacts!WellFormed(ram)
      BY <2>2, CopyTrees DEF IInv, CallInv, RamInv
    <3> QED
      BY <3>1, CopyFacts!CopyCounted, CopyAssumptions, CopyResults
  <2> QED
    BY <2>1, <2>2 DEF BytesAreCounted
<1> QED
  BY <1>1, Invariance, PTL

\* The semaphore never lets more ffmpeg run than it was made for, however many tracks
\* there are and in whatever order their threads run and fail.
THEOREM FewFfmpegAtOnce == Spec => []FewAtOnce
<1>1. IInv => FewAtOnce
  <2> SUFFICES ASSUME IInv PROVE FewAtOnce
    OBVIOUS
  <2> DEFINE Busy == {p \in Location : thread[p] = "ffmpeg"}
  <2>1. IsFiniteSet(Holders) /\ Busy \subseteq Holders
    BY LocationAssumption, FS_Subset DEF Holders
  <2>2. /\ Cardinality(Busy) <= Cardinality(Holders)
        /\ Cardinality(Busy) \in Nat /\ Cardinality(Holders) \in Nat
    BY <2>1, FS_Subset, FS_CardinalityType
  <2>3. CASE main_pool = "idle"
    <3>1. Busy = {}
      BY <2>3 DEF IInv, PoolInv
    <3>2. Cardinality(Busy) = 0
      BY <3>1, FS_EmptySet
    <3> QED
      BY <3>2, ThreadsAssumption DEF FewAtOnce
  <2>4. CASE main_pool # "idle"
    BY <2>2, <2>4, ThreadsAssumption DEF IInv, PoolInv, FewAtOnce
  <2> QED
    BY <2>3, <2>4
<1> QED
  BY <1>1, Invariance, PTL

\* No track is lost or left half written unless its ffmpeg was killed, whichever
\* step of whichever thread fails.
THEOREM TracksStaySafe == Spec => []TracksAreSafe
<1>1. IInv => TracksAreSafe
  BY DEF IInv, PoolInv, TrackInv, TracksAreSafe, ThreadSteps, Whole, Done
<1> QED
  BY <1>1, Invariance, PTL

\* A client that is asked to halt makes one more directory, file or chunk at most.
THEOREM HaltIsHeard == Spec => []HaltStopsWriting
<1>1. IInv => HaltStopsWriting
  BY DEF IInv, HaltInv, HaltStopsWriting
<1> QED
  BY <1>1, Invariance, PTL

\* Two files with the same checksum have the same checked blocks.
LEMMA SameBlocks ==
  ASSUME NEW r \in Tree, NEW s \in Tree, NEW p \in Location,
         compute_crc32(s, p) = compute_crc32(r, p),
         NEW i \in 1 .. CRC_SIZE, i <= Len(r[p].data)
  PROVE  i <= Len(s[p].data) /\ s[p].data[i] = r[p].data[i]
<1> DEFINE R == r[p].data
           S == s[p].data
           Checked(q) == IF Len(q) < CRC_SIZE THEN Len(q) ELSE CRC_SIZE
<1>1. R \in Seq(Block) /\ S \in Seq(Block) /\ CRC_SIZE \in Nat
  BY SizesAssumption DEF Tree, Node
<1>2. SubSeq(S, 1, Checked(S)) = SubSeq(R, 1, Checked(R))
  BY DEF compute_crc32
<1>3. /\ Checked(S) \in 0 .. Len(S) /\ Checked(R) \in 0 .. Len(R)
      /\ i \in 1 .. Checked(R)
  BY <1>1
<1> HIDE DEF Checked
<1>4. Checked(S) = Len(SubSeq(S, 1, Checked(S))) /\ Checked(R) = Len(SubSeq(R, 1, Checked(R)))
  BY <1>1, <1>3
<1>5. Checked(S) = Checked(R)
  BY <1>2, <1>4
<1>6. S[i] = SubSeq(S, 1, Checked(S))[i] /\ R[i] = SubSeq(R, 1, Checked(R))[i]
  BY <1>1, <1>3, <1>5
<1> QED
  BY <1>1, <1>2, <1>3, <1>5, <1>6

\* A stick that is accepted has the checked part of every MP3 file that was on the
\* RAM disk when the list was made and is there still.
THEOREM SuccessIsEarned == Spec => []SuccessIsChecked
<1>1. IInv => SuccessIsChecked
  <2> SUFFICES ASSUME IInv, client = "SUCCESS",
                      NEW p \in Location, ram[p].kind = "file", HasChecksum(Last(p)),
                      NEW i \in 1 .. CRC_SIZE, i <= Len(ram[p].data)
               PROVE  i <= Len(stick[p].data) /\ stick[p].data[i] = ram[p].data[i]
    BY DEF SuccessIsChecked
  <2>1. ram \in Tree /\ stick \in Tree
    BY DEF IInv, RamInv, CallInv, WellFormed
  <2> DEFINE line == [path |-> p, crc |-> compute_crc32(ram, p)]
  <2>2. line \in generate_crcs(ram)
    BY DEF generate_crcs
  <2>3. Same(line)
    BY <2>2 DEF IInv, CallInv, CheckInv
  <2>4. compute_crc32(stick, p) = compute_crc32(ram, p)
    BY <2>3 DEF Same
  <2> QED
    BY <2>1, <2>4, SameBlocks
<1> QED
  BY <1>1, Invariance, PTL

\* A stick is rejected only for damage: the list, made from the RAM disk after ffmpeg,
\* has the names and the blocks that a copy that returned 0 gave the stick.
THEOREM GoodStickPasses == Spec => []GoodStickIsAccepted
<1>1. IInv => GoodStickIsAccepted
  BY DEF IInv, CheckInv, GoodStickIsAccepted
<1> QED
  BY <1>1, Invariance, PTL

-----------------------------------------------------------------------------
\* What a step does to the stick.

OrderedStep ==
  \A p \in Location : stick[p] = Absent /\ stick'[p].kind = "file" =>
    \A q \in Copy!InDir(Front(p)) : stick[q].kind = "file" => Copy!Before(Last(q), Last(p))

LEMMA CopyOrders ==
  CopyFacts!MadeInOrder => OrderedStep
<1>1. \A p : CopyFacts!InDir(CopyFacts!Front(p)) = Copy!InDir(Front(p))
  BY DEF Copy!InDir, CopyFacts!InDir, Copy!Front, CopyFacts!Front, Front
<1>2. \A m, n : CopyFacts!Before(m, n) <=> Copy!Before(m, n)
  BY DEF Copy!Before, CopyFacts!Before, Copy!Code, CopyFacts!Code
<1>3. \A p : CopyFacts!Last(p) = Last(p)
  BY DEF CopyFacts!Last, Last
<1>4. CopyFacts!Absent = Absent
  BY DEF CopyFacts!Absent, Absent
<1> QED
  BY <1>1, <1>2, <1>3, <1>4 DEF CopyFacts!MadeInOrder, OrderedStep

LEMMA OnlyDecay ==
  ASSUME CopyReturned
  PROVE  \/ UNCHANGED stick
         \/ /\ result = "ok" /\ ~halt
            /\ \E p \in Location : \E i \in DOMAIN stick[p].data :
                 stick' = [stick EXCEPT ![p].data[i] = "damaged"]
  BY DEF CopyReturned

\* Damage makes no file.
LEMMA DamagedNode ==
  ASSUME NEW tree \in Tree, NEW p \in Location, NEW i \in DOMAIN tree[p].data,
         NEW new, new = [tree EXCEPT ![p].data[i] = "damaged"]
  PROVE  \A q \in Location : new[q].kind = tree[q].kind
<1>1. new = [tree EXCEPT ![p] = [tree[p] EXCEPT !.data = [tree[p].data EXCEPT ![i] = "damaged"]]]
  BY Zenon
<1>2. tree \in [Location -> Node] /\ tree[p] \in Node
  BY DEF Tree
<1> QED
  BY <1>1, <1>2 DEF Node

\* Each directory of a stick gets its files in the order of their names, whatever the
\* order in which readdir and the threads leave them on the RAM disk.
THEOREM FilesAreSorted == Spec => FilesInOrder
<1>1. IInv /\ [Next]_vars => OrderedStep
  <2> SUFFICES ASSUME IInv, [Next]_vars PROVE OrderedStep
    OBVIOUS
  <2>1. CASE UNCHANGED stick
    BY <2>1 DEF OrderedStep, Absent
  <2>2. CASE CopyStep
    <3>1. /\ CopyFacts!CopyInv /\ CopyFacts!InOrder /\ CopyFacts!CopyNext
          /\ CopyFacts!WellFormed(ram) /\ CopyFacts!Settled(ram)
      BY <2>2, CopyAdvances, CopyTrees DEF CopyStep, IInv, CallInv, RamInv
    <3>2. CopyFacts!MadeInOrder
      BY <3>1, CopyFacts!CopyIsOrdered, CopyAssumptions
    <3> QED
      BY <3>2, CopyOrders DEF OrderedStep
  <2>3. CASE CopyReturned
    <3> SUFFICES ASSUME NEW p \in Location, stick[p] = Absent, stick'[p].kind = "file"
                 PROVE  FALSE
      BY DEF OrderedStep
    <3>1. stick \in Tree
      BY DEF IInv, CallInv
    <3>2. CASE UNCHANGED stick
      BY <3>2 DEF Absent
    <3>3. ASSUME NEW r \in Location, NEW i \in DOMAIN stick[r].data,
                 stick' = [stick EXCEPT ![r].data[i] = "damaged"]
          PROVE  FALSE
      <4>1. stick'[p].kind = stick[p].kind
        BY <3>1, <3>3, DamagedNode
      <4> QED
        BY <4>1 DEF Absent
    <3> QED
      BY <2>3, <3>2, <3>3, OnlyDecay
  <2>4. CASE MainStep \/ PoolStep
    <3>1. UNCHANGED clientVars
      BY <2>4 DEF MainStep, EmptyRam, LoadMaster, MasterLoaded, ProcessMp3s, WriteCrcFile, PoolStep
    <3> QED
      BY <2>1, <3>1 DEF clientVars
  <2>5. CASE StartCopy \/ CompareLine \/ VerifyDone \/ AskToHalt
    BY <2>1, <2>5 DEF StartCopy, CompareLine, VerifyDone, AskToHalt
  <2>6. CASE UNCHANGED vars
    BY <2>1, <2>6 DEF vars, clientVars
  <2> QED
    BY <2>2, <2>3, <2>4, <2>5, <2>6 DEF Next, ClientStep
<1>2. OrderedStep => [OrderedStep]_vars
  OBVIOUS
<1> QED
  BY <1>1, Invariance, PTL DEF Spec, FilesInOrder, OrderedStep

-----------------------------------------------------------------------------
\* The copy to a stick implements Transfer.

Status ==
  IF client = "none" \/ result = "none" THEN "idle"
  ELSE IF result = "running" THEN "copying" ELSE result

WholeStick == client # "none" /\ missed = {} /\ Copy!IsCopy

ContractStep ==
  \/ Status = "idle" /\ Status' = "copying" /\ UNCHANGED halt
  \/ Status = "copying" /\ UNCHANGED <<Status, halt>>
  \/ Status = "copying" /\ Status' = "ok" /\ (~halt => WholeStick') /\ UNCHANGED halt
  \/ Status = "copying" /\ Status' = "failed" /\ UNCHANGED halt
  \/ halt' = TRUE /\ UNCHANGED <<Status, WholeStick>>
  \/ Status = "ok" /\ WholeStick' = FALSE /\ UNCHANGED <<Status, halt>>
  \/ UNCHANGED <<Status, WholeStick, halt>>

LEMMA ContractStepIs == ContractStep => [Contract!Next]_(Contract!transferVars)
<1>1. WholeStick \in BOOLEAN /\ WholeStick' \in BOOLEAN
  BY DEF WholeStick
<1> QED
  BY <1>1 DEF ContractStep, Contract!Next, Contract!Start, Contract!Work, Contract!Succeed,
     Contract!GiveUp, Contract!AskToHalt, Contract!Decay, Contract!transferVars, Status, WholeStick

LEMMA ContractRests ==
  ASSUME UNCHANGED <<client, result, ram, stick, halt, missed>>
  PROVE  ContractStep
<1>1. UNCHANGED <<Status, WholeStick>>
  BY SameCopy DEF Status, WholeStick
<1> QED
  BY <1>1 DEF ContractStep

\* ... also in the state that a step leads to.
LEMMA SettledIsCopiedThen ==
  (RamInv /\ CopyFacts!CopyInv /\ CopyFacts!InOrder /\ result = "ok" /\ ~halt => Copy!IsCopy)'
<1>1. RamInv /\ CopyFacts!CopyInv /\ CopyFacts!InOrder /\ result = "ok" /\ ~halt => Copy!IsCopy
  BY SettledIsCopied
<1> QED
  BY <1>1, PTL

LEMMA ContractIsKept ==
  ASSUME "read" \notin CopyFails, IInv, MissInv, MissInv', [Next]_vars
  PROVE  ContractStep
<1>1. CASE UNCHANGED vars
  BY <1>1, ContractRests DEF vars, poolVars, callVars, clientVars
<1>2. CASE MainStep \/ PoolStep
  <2>1. UNCHANGED clientVars
    BY <1>2 DEF MainStep, EmptyRam, LoadMaster, MasterLoaded, ProcessMp3s, WriteCrcFile, PoolStep
  <2>2. client = "none"
    <3>1. CASE MainStep
      BY <3>1, MainHalts DEF IInv
    <3>2. CASE PoolStep
      <4>1. PICK p \in Location : ThreadStep(p)
        BY <3>2 DEF PoolStep
      <4>2. thread[p] \notin {"none", "done"}
        BY <4>1 DEF ThreadStep, Begin, End, Post, RemoveOriginal, Rename, Goes
      <4> QED
        BY <4>2 DEF IInv, CheckInv, CallInv
    <3> QED
      BY <1>2, <3>1, <3>2
  <2>3. Status = "idle" /\ Status' = "idle" /\ WholeStick = FALSE /\ WholeStick' = FALSE
    BY <2>1, <2>2 DEF Status, WholeStick, clientVars
  <2> QED
    BY <2>1, <2>3 DEF ContractStep, clientVars
<1>3. CASE StartCopy
  BY <1>3 DEF StartCopy, Copy!Start, Status, ContractStep
<1>4. CASE CopyStep
  <2>1. /\ client = "copying" /\ client' = "copying" /\ UNCHANGED <<halt, ram>>
        /\ CopyFacts!CopyNext /\ CopyFacts!CopyInv
    BY <1>4, CopyAdvances DEF CopyStep, serverVars, poolVars, IInv, CallInv
  <2>2. result = "running"
    BY <2>1 DEF CopyFacts!CopyInv, CopyFacts!CallsOK, CopyFacts!CopyNext, CopyFacts!Enter,
       CopyFacts!Listed, CopyFacts!CannotLook, CopyFacts!HaltSeen, CopyFacts!NextFile,
       CopyFacts!FilesDone, CopyFacts!NextDir, CopyFacts!DirsDone, CopyFacts!AtStep, CopyFacts!Running,
       CopyFacts!Open, CopyFacts!CheckHalt, CopyFacts!Send, CopyFacts!Refused, CopyFacts!Read,
       CopyFacts!Write, CopyFacts!At
  <2>3. IInv'
    BY <1>4, CopyStepKeeps
  <2>4. result' \in {"none", "running", "ok", "failed"} /\ CopyFacts!CopyInv' /\ CopyFacts!InOrder'
    BY <2>1, <2>3 DEF IInv, CallInv, CopyFacts!CopyInv, CopyFacts!CallsOK
  <2>5. result' # "none"
    BY <2>1, <2>2 DEF CopyFacts!CopyNext, CopyFacts!Enter,
       CopyFacts!Listed, CopyFacts!CannotLook, CopyFacts!HaltSeen, CopyFacts!NextFile,
       CopyFacts!FilesDone, CopyFacts!NextDir, CopyFacts!DirsDone, CopyFacts!Return,
       CopyFacts!Fail, CopyFacts!GoOn, CopyFacts!FileDone,
       CopyFacts!Open, CopyFacts!CheckHalt, CopyFacts!Send, CopyFacts!Refused, CopyFacts!Read,
       CopyFacts!Write
  <2>6. result' = "ok" /\ ~halt => WholeStick'
    <3> SUFFICES ASSUME result' = "ok", ~halt PROVE Copy!IsCopy'
      <4>1. main' = "ready"
        BY <2>1, <2>3 DEF IInv, CallInv
      <4>2. missed' = {}
        BY <4>1 DEF MissInv
      <4> QED
        BY <2>1, <4>2 DEF WholeStick
    <3>1. RamInv' /\ ~halt'
      BY <2>1, <2>3 DEF IInv
    <3> QED
      BY <2>4, <3>1, SettledIsCopiedThen
  <2> QED
    BY <2>1, <2>2, <2>4, <2>5, <2>6 DEF Status, ContractStep
<1>5. CASE CopyReturned
  <2>1. /\ client = "copying" /\ client' # "none" /\ result \in {"ok", "failed"}
        /\ UNCHANGED <<result, halt, ram, missed>> /\ missed = {}
    BY <1>5 DEF MissInv, IInv, CallInv, CopyReturned, callVars, serverVars,
       poolVars
  <2>2. Status = result /\ Status' = Status
    BY <2>1 DEF Status
  <2>3. CASE UNCHANGED stick
    <3>1. WholeStick' = WholeStick
      BY <2>1, <2>3, SameCopy DEF WholeStick
    <3> QED
      BY <2>1, <2>2, <3>1 DEF ContractStep
  <2>4. CASE result = "ok" /\ ~halt
    <3>1. WholeStick
      BY <2>1, <2>4, SettledIsCopied DEF WholeStick, IInv, CallInv
    <3>2. WholeStick' = FALSE \/ WholeStick' = WholeStick
      BY <3>1 DEF WholeStick
    <3> QED
      BY <2>1, <2>2, <2>4, <3>2 DEF ContractStep
  <2> QED
    BY <1>5, <2>3, <2>4, OnlyDecay
<1>6. CASE CompareLine \/ VerifyDone
  <2>1. /\ client = "verify" /\ client' # "none" /\ UNCHANGED <<result, ram, stick, halt, missed>>
    BY <1>6 DEF CompareLine, VerifyDone, callVars, serverVars, poolVars
  <2>2. UNCHANGED <<Status, WholeStick>>
    BY <2>1, SameCopy DEF Status, WholeStick
  <2> QED
    BY <2>1, <2>2 DEF ContractStep
<1>7. CASE AskToHalt
  <2>1. halt' = TRUE /\ UNCHANGED <<client, result, ram, stick, missed>>
    BY <1>7 DEF AskToHalt, callVars, serverVars, poolVars
  <2>2. UNCHANGED <<Status, WholeStick>>
    BY <2>1, SameCopy DEF Status, WholeStick
  <2> QED
    BY <2>1, <2>2 DEF ContractStep
<1> QED
  BY <1>1, <1>2, <1>3, <1>4, <1>5, <1>6, <1>7 DEF Next, ClientStep

\* The copy, with its chunks, calls, failures and halt, is the one step that Client and
\* Startup make of it: one that reports success and was not asked to halt has copied
\* everything, and nothing but decay takes that away.  It reads the RAM disk, so reads are
\* assumed not to fail.
THEOREM CopyIsATransfer ==
  ASSUME "read" \notin CopyFails
  PROVE  Spec => Contract!SafeSpec
<1>1. Init => Contract!Init
  BY DEF Init, Contract!Init
<1>2. IInv /\ MissInv /\ MissInv' /\ [Next]_vars => [Contract!Next]_(Contract!transferVars)
  BY ContractIsKept, ContractStepIs
<1> QED
  BY <1>1, <1>2, Invariance, PTL DEF Spec, Contract!SafeSpec
=============================================================================
