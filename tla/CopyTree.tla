------------------------------ MODULE CopyTree ------------------------------
(***************************************************************************)
(* One call of copy_directory and the calls of itself and of copy_file     *)
(* that it makes (utilities.c): the tree of one disk is copied to another, *)
(* files of a directory before its subdirectories, both by name, until it  *)
(* is done, fails, or is asked to halt.                                    *)
(*                                                                         *)
(* The module is a component for others to instantiate: it is used for the *)
(* copy from the master to the RAM disk and for that from the RAM disk to  *)
(* a stick.  It reads halt and source and leaves them to its environment.  *)
(***************************************************************************)
EXTENDS FileNames

CONSTANTS
  CharOrder,      \* the characters by their codes, a sequence
  CHUNK,          \* what one sendfile or read takes
  MAX_FILES,      \* entries in a directory
  FAT,            \* the target refuses some characters
  CopyFails       \* what may go wrong: "read", "write", "no_sendfile"

VARIABLES
  source,         \* the tree that is copied
  target,         \* the tree it is copied to
  stack,          \* the calls of copy_directory in progress, the last one innermost
  file,           \* the call of copy_file in progress
  result,         \* "none", "running", or what the outermost call returned
  bytes_copied,
  halt

\* History: the entries that readdir has not given.
VARIABLE missed

copyVars == <<target, stack, file, result, bytes_copied, missed>>

Steps == {"enter", "listed", "files", "dirs"}
NoFile == [at |-> "none", from |-> Root, to |-> Root, pos |-> 0]

CopyTypeOK ==
  /\ target \in Tree
  /\ \A i \in DOMAIN stack :
       /\ stack[i].dir \in Location /\ stack[i].at \in Steps
       /\ stack[i].todo \subseteq {Last(p) : p \in Location \ {Root}}
  /\ file.at \in {"none", "open", "check", "send", "read", "write"}
  /\ file.from \in Location /\ file.pos \in Nat
  /\ result \in {"none", "running", "ok", "failed"}
  /\ bytes_copied \in Nat /\ missed \subseteq Location

-----------------------------------------------------------------------------
\* strcmp, and the entries of a directory.
Code(c) == CHOOSE i \in DOMAIN CharOrder : CharOrder[i] = c
Before(m, n) ==
  \E k \in 0 .. Len(m) :
    /\ k < Len(n) /\ SubSeq(m, 1, k) = SubSeq(n, 1, k)
    /\ k = Len(m) \/ Code(m[k + 1]) < Code(n[k + 1])

\* Faulty variant of IsFirst: the names are not sorted.
IsFound(n, names) == n \in names

IsFirst(n, names) == n \in names /\ \A other \in names \ {n} : Before(n, other)

InDir(dir) == {p \in Location : Len(p) = Len(dir) + 1 /\ Front(p) = dir}
Entries(dir) == {Last(p) : p \in {q \in InDir(dir) : source[q].kind # "none"}}
Listing(dir) == {n \in Entries(dir) : Append(dir, n) \notin missed}

\* An entry can be made in the target.
IsDir(p) == p \in Location /\ target[p].kind = "dir"
Storable(n) == n # <<>> /\ (FAT => \A i \in Positions(n) : n[i] \notin FatRefuses)

-----------------------------------------------------------------------------
\* Going from one step to the next.
Top == stack[Len(stack)]
Running == result = "running" /\ stack # <<>>
AtStep(step) == Running /\ file = NoFile /\ Top.at = step

Gone(step, names) ==
  [stack EXCEPT ![Len(stack)] = [dir |-> Top.dir, at |-> step, todo |-> names]]

GoOn(step, names) == stack' = Gone(step, names) /\ UNCHANGED result

\* copy_directory returns 0.
Return ==
  /\ stack' = Front(stack)
  /\ result' = IF Len(stack) = 1 THEN "ok" ELSE result

\* -1 is handed up through all the calls.
Fail ==
  /\ stack' = <<>> /\ result' = "failed" /\ file' = NoFile
  /\ UNCHANGED bytes_copied

Call(dir) == [dir |-> dir, at |-> "enter", todo |-> {}]

Start ==
  /\ stack' = <<Call(Root)>> /\ result' = "running" /\ file' = NoFile
  /\ bytes_copied' = 0 /\ missed' = {}

\* The target's directory is made, unless anything of its name is there; then
\* the names are collected and sorted.  An error of readdir is taken for the end of
\* the directory.
Enter ==
  LET dir == Top.dir
      made == [target EXCEPT ![dir] = IF @ = Absent THEN Dir ELSE @]
      can_make == target[dir] = Absent => IsDir(Front(dir)) /\ Storable(Last(dir))
      listings == IF "read" \in CopyFails THEN SUBSET Entries(dir) ELSE {Entries(dir)}
  IN  /\ AtStep("enter")
      /\ \/ Ignored(dir) /\ Return /\ UNCHANGED <<target, file, bytes_copied, missed>>
         \/ /\ ~Ignored(dir) /\ can_make
            /\ \E names \in listings :
                 /\ Cardinality(names) <= MAX_FILES
                 /\ GoOn("listed", names)
                 /\ missed' = (missed \ InDir(dir)) \cup {Append(dir, n) : n \in Entries(dir) \ names}
            /\ target' = made
            /\ UNCHANGED <<file, bytes_copied>>
         \/ /\ ~Ignored(dir) /\ can_make /\ Cardinality(Entries(dir)) > MAX_FILES
            /\ Fail /\ target' = made /\ UNCHANGED missed
         \/ /\ ~Ignored(dir) /\ (~can_make \/ CopyFails \cap {"read", "write"} # {})
            /\ Fail /\ UNCHANGED <<target, missed>>

Listed ==
  /\ AtStep("listed")
  /\ \/ halt /\ Return
     \/ ~halt /\ GoOn("files", Top.todo)
  /\ UNCHANGED <<target, file, bytes_copied>>

\* stat fails, or the lengths of paths are found too long: the check adds that of
\* dest_path, which holds the path before or, at first, was never set.
CannotLook ==
  /\ Running /\ file = NoFile /\ Top.todo # {}
  /\ \/ Top.at = "files"
     \/ Top.at = "dirs" /\ "read" \in CopyFails
  /\ Fail /\ UNCHANGED target

HaltSeen ==
  /\ Running /\ file = NoFile /\ Top.at \in {"files", "dirs"} /\ Top.todo # {} /\ halt
  /\ Return
  /\ UNCHANGED <<target, file, bytes_copied>>

NextFile ==
  /\ AtStep("files") /\ ~halt
  /\ \E n \in Top.todo :
       LET p == Append(Top.dir, n)
       IN  /\ IsFirst(n, Top.todo)
           /\ GoOn("files", Top.todo \ {n})
           /\ file' = IF source[p].kind = "file"
                      THEN [at |-> "open", from |-> p, to |-> dest_path(p), pos |-> 0]
                      ELSE NoFile
  /\ UNCHANGED <<target, bytes_copied>>

FilesDone ==
  /\ AtStep("files") /\ Top.todo = {}
  /\ GoOn("dirs", Listing(Top.dir))
  /\ UNCHANGED <<target, file, bytes_copied>>

NextDir ==
  /\ AtStep("dirs") /\ ~halt
  /\ \E n \in Top.todo :
       LET p == Append(Top.dir, n)
           rest == Gone("dirs", Top.todo \ {n})
       IN  /\ IsFirst(n, Top.todo)
           /\ stack' = IF source[p].kind = "dir" THEN Append(rest, Call(p)) ELSE rest
  /\ UNCHANGED <<target, file, result, bytes_copied>>

DirsDone ==
  /\ AtStep("dirs") /\ Top.todo = {}
  /\ Return
  /\ UNCHANGED <<target, file, bytes_copied>>

-----------------------------------------------------------------------------
\* copy_file.

At(step) == Running /\ file.at = step

\* copy_file returns 0.
FileDone == file' = NoFile /\ UNCHANGED <<target, stack, result, bytes_copied>>

Src == source[file.from]
Left == Len(Src.data) - file.pos

\* The target's file from pos on becomes data; what lies behind stays.
Overwrite(data) ==
  target' = [target EXCEPT ![file.to] =
    File(SubSeq(@.data, 1, file.pos) \o data
           \o SubSeq(@.data, file.pos + Len(data) + 1, Len(@.data)))]

CanOpen ==
  /\ file.to \in Location /\ IsDir(Front(file.to)) /\ ~IsDir(file.to)
  /\ Storable(Last(file.to))

Open ==
  /\ At("open")
  /\ \/ /\ CanOpen
        /\ target' = [target EXCEPT ![file.to] = File(<<>>)]
        /\ file' = [file EXCEPT !.at = "check"]
        /\ UNCHANGED <<stack, result, bytes_copied>>
     \/ /\ ~CanOpen \/ CopyFails \cap {"read", "write"} # {}
        /\ Fail /\ UNCHANGED target

\* Faulty variant of CheckHalt: halt is not looked at.
CheckSize ==
  /\ At("check")
  /\ \/ file.pos >= Src.size /\ FileDone
     \/ /\ file.pos < Src.size
        /\ file' = [file EXCEPT !.at = "send"]
        /\ UNCHANGED <<target, stack, result, bytes_copied>>

\* Nothing is left by the size that stat gave, or it is asked to halt.
CheckHalt ==
  /\ At("check")
  /\ \/ (file.pos >= Src.size \/ halt) /\ FileDone
     \/ /\ file.pos < Src.size /\ ~halt
        /\ file' = [file EXCEPT !.at = "send"]
        /\ UNCHANGED <<target, stack, result, bytes_copied>>

\* Faulty variant of Send: what was asked for is taken for what was moved.
SendAssumed ==
  /\ At("send")
  /\ \/ \E k \in 1 .. CHUNK :
          /\ k <= Left
          /\ Overwrite(SubSeq(Src.data, file.pos + 1, file.pos + k))
          /\ bytes_copied' = bytes_copied + k
          /\ file' = IF file.pos + CHUNK >= Src.size THEN NoFile
                     ELSE [file EXCEPT !.at = "check", !.pos = @ + k]
          /\ UNCHANGED <<stack, result>>
     \/ Left = 0 /\ FileDone
     \/ CopyFails \cap {"read", "write"} # {} /\ Fail /\ UNCHANGED target

\* sendfile moves some of the chunk; nothing if the file is shorter than stat said.
Send ==
  /\ At("send")
  /\ \/ \E k \in 1 .. CHUNK :
          /\ k <= Left
          /\ Overwrite(SubSeq(Src.data, file.pos + 1, file.pos + k))
          /\ bytes_copied' = bytes_copied + k
          /\ file' = [file EXCEPT !.at = "check", !.pos = @ + k]
          /\ UNCHANGED <<stack, result>>
     \/ Left = 0 /\ FileDone
     \/ CopyFails \cap {"read", "write"} # {} /\ Fail /\ UNCHANGED target

\* Faulty variant of Refused: what sendfile has counted is not taken back.
RefusedCounted ==
  /\ At("send") /\ "no_sendfile" \in CopyFails
  /\ file' = [file EXCEPT !.at = "read", !.pos = 0]
  /\ UNCHANGED <<target, stack, result, bytes_copied>>

\* EINVAL or ENOSYS: both files are rewound and the bytes counted are taken back.
Refused ==
  /\ At("send") /\ "no_sendfile" \in CopyFails
  /\ bytes_copied' = bytes_copied - file.pos
  /\ file' = [file EXCEPT !.at = "read", !.pos = 0]
  /\ UNCHANGED <<target, stack, result>>

\* A chunk is in the buffer before halt is looked at.
Read ==
  /\ At("read")
  /\ \/ (Left = 0 \/ halt) /\ FileDone
     \/ /\ Left > 0 /\ ~halt
        /\ file' = [file EXCEPT !.at = "write"]
        /\ UNCHANGED <<target, stack, result, bytes_copied>>
     \/ "read" \in CopyFails /\ Fail /\ UNCHANGED target

\* Faulty variant of Write: an error is taken for the end of the file.
WriteUnchecked ==
  LET k == IF Left < CHUNK THEN Left ELSE CHUNK
  IN  /\ At("write")
      /\ \/ /\ Overwrite(SubSeq(Src.data, file.pos + 1, file.pos + k))
            /\ bytes_copied' = bytes_copied + k
            /\ file' = [file EXCEPT !.at = "read", !.pos = @ + k]
            /\ UNCHANGED <<stack, result>>
         \/ "write" \in CopyFails /\ FileDone

Write ==
  LET k == IF Left < CHUNK THEN Left ELSE CHUNK
  IN  /\ At("write")
      /\ \/ /\ Overwrite(SubSeq(Src.data, file.pos + 1, file.pos + k))
            /\ bytes_copied' = bytes_copied + k
            /\ file' = [file EXCEPT !.at = "read", !.pos = @ + k]
            /\ UNCHANGED <<stack, result>>
         \/ "write" \in CopyFails /\ Fail /\ UNCHANGED target

CopyNext ==
  \/ Enter
  \/ /\ \/ Listed \/ CannotLook \/ HaltSeen \/ NextFile \/ FilesDone \/ NextDir \/ DirsDone
        \/ Open \/ CheckHalt \/ Send \/ Refused \/ Read \/ Write
     /\ UNCHANGED missed

-----------------------------------------------------------------------------
\* What a copy is to be, said without saying how it is made.

\* readdir has given the entry, and all the directories on the way to it.
Given(p) == \A k \in 1 .. Len(p) : SubSeq(p, 1, k) \notin missed

AllFiles == {p \in Location : source[p].kind = "file" /\ ~Ignored(Front(p))}
AllDirs == {p \in Location : source[p].kind = "dir" /\ ~Ignored(p)}
CopiedFiles == {p \in AllFiles : Given(p)}
CopiedDirs == {p \in AllDirs : Given(p)}

\* No two files get the same name, nor a file that of a directory.
NamesStayApart ==
  /\ \A p, q \in AllFiles : dest_path(p) = dest_path(q) => p = q
  /\ \A p \in AllFiles : dest_path(p) \notin AllDirs

IsCopy ==
  /\ \A p \in CopiedDirs : target[p].kind = "dir"
  /\ \A p \in CopiedFiles : target[dest_path(p)] = File(source[p].data)

\* No file is where a directory is to be: mkdir takes it for the directory.
NothingInTheWay == \A p \in CopiedDirs : target[p].kind # "file"

\* A copy that returns 0 and was not halted is a copy of all that readdir has given.
CopyIsWhole == result = "ok" /\ ~halt /\ NamesStayApart /\ NothingInTheWay => IsCopy

\* ... and its bytes have been counted, each once.
Total(f, S) == FoldFunctionOnSet(LAMBDA m, n : m + n, 0, f, S)
Sizes == [p \in Location |-> Len(source[p].data)]

BytesAreCounted ==
  result = "ok" /\ ~halt => bytes_copied = Total(Sizes, CopiedFiles)
=============================================================================
