----------------------------- MODULE FileNames -----------------------------
(***************************************************************************)
(* File names and what the copier does to them (utilities.c, server.c).    *)
(* A name is a sequence of characters.  What the code never takes apart    *)
(* and only compares, such as the "mp3" of an extension, is one character  *)
(* here, so lengths count these.                                           *)
(***************************************************************************)
EXTENDS Naturals, FiniteSets, SequencesExt

CONSTANTS
  Char,        \* the characters of names
  Odd,         \* those that sanitize_filename replaces: '?', '*', '\' and control characters
  FatRefuses,  \* those that a FAT file system refuses, as ':' too
  SystemVolume,  \* "System Volume Information", one character
  NameMax      \* the 64 that copy_directory passes to shorten_filename

Dot == "."
Underscore == "_"

ASSUME CharAssumption ==
  /\ Odd \subseteq FatRefuses /\ FatRefuses \subseteq Char
  /\ {Dot, Underscore, "mp3", "MP3", "tmp"} \subseteq Char \ FatRefuses
ASSUME NameMaxAssumption == NameMax \in Nat \ {0}

Name == Seq(Char)

Positions(n) == 1 .. Len(n)

sanitize_filename(n) == [i \in Positions(n) |-> IF n[i] \in Odd THEN Underscore ELSE n[i]]

\* strrchr(n, '.'): the name up to its last dot, and the rest.
IsLastDot(n, i) == n[i] = Dot /\ \A j \in i + 1 .. Len(n) : n[j] # Dot
BaseLen(n) ==
  IF \E i \in Positions(n) : IsLastDot(n, i)
  THEN (CHOOSE i \in Positions(n) : IsLastDot(n, i)) - 1
  ELSE Len(n)
Base(n) == SubSeq(n, 1, BaseLen(n))
Extension(n) == SubSeq(n, BaseLen(n) + 1, Len(n))

\* The extension is kept; a name whose extension leaves no room becomes empty.
shorten_filename(n) ==
  IF Len(n) <= NameMax THEN n
  ELSE IF Len(Extension(n)) >= NameMax THEN <<>>
  ELSE SubSeq(n, 1, NameMax - Len(Extension(n))) \o Extension(n)

\* The name of a file's copy.  Names of directories stay as they are.
dest_name(n) == shorten_filename(sanitize_filename(n))

\* The files that ffmpeg gets, by exact comparison ...
is_mp3(n) == Extension(n) = <<Dot, "mp3">>

\* ... and those that get a checksum, in upper or lower case.
HasChecksum(n) ==
  Len(n) >= 2 /\ n[Len(n) - 1] = Dot /\ n[Len(n)] \in {"mp3", "MP3"}

\* The file that ffmpeg writes.
temp_file(n) == Base(n) \o <<Dot, "tmp">>

-----------------------------------------------------------------------------
\* Trees of files: functions from locations, paths from the root, to nodes.
CONSTANTS
  Location,    \* the paths that can occur
  Block        \* the contents of a block of a file

Node == [kind : {"none", "dir", "file"}, size : Nat, data : Seq(Block)]

Absent == [kind |-> "none", size |-> 0, data |-> <<>>]
Dir == [kind |-> "dir", size |-> 0, data |-> <<>>]
File(data) == [kind |-> "file", size |-> Len(data), data |-> data]

Root == <<>>
Tree == [Location -> Node]

\* What is there lies in directories, up to the root; what stat says of a file may
\* be more than can be read.
WellFormed(tree) ==
  /\ tree \in Tree /\ tree[Root].kind = "dir"
  /\ \A p \in Location :
       /\ tree[p].kind = "none" => tree[p] = Absent
       /\ tree[p].kind = "file" => tree[p].size >= Len(tree[p].data)
       /\ tree[p].kind # "none" => \A k \in 0 .. Len(p) - 1 :
            SubSeq(p, 1, k) \in Location /\ tree[SubSeq(p, 1, k)].kind = "dir"

dest_path(p) == Append(Front(p), dest_name(Last(p)))

\* The directory that Windows hides is not copied, nor one whose path has its name.
Ignored(dir) == \E i \in DOMAIN dir : Contains(dir[i], SystemVolume)

\* As copies leave it: no name that would be changed, nothing that is not copied.
Settled(tree) ==
  \A p \in Location : tree[p].kind = "file" => dest_path(p) = p /\ ~Ignored(Front(p))

ASSUME LocationAssumption ==
  /\ Location \subseteq Seq(Name) /\ IsFiniteSet(Location) /\ Root \in Location
  /\ \A p \in Location : Len(p) = 1 /\ is_mp3(p[1]) => <<temp_file(p[1])>> \in Location
=============================================================================
