---------------------------- MODULE MCPipeline ----------------------------
(***************************************************************************)
(* Values of the constants of Pipeline for TLC.  A name has four           *)
(* characters at most, an extension included, a chunk has two blocks.      *)
(***************************************************************************)
EXTENDS Pipeline, TLC

CONSTANT Tried    \* which of the masters below

MCCharOrder == <<".", ":", "?", "MP3", "_", "a", "b", "c", "d", "mp3", "svi", "tmp">>
MCChar == {MCCharOrder[i] : i \in DOMAIN MCCharOrder}
MCOdd == {"?"}
MCFatRefuses == {"?", ":"}

aMp3 == <<"a", ".", "mp3">>
bMP3 == <<"b", ".", "MP3">>
cMp3 == <<"c", ".", "mp3">>
oddMp3 == <<"?", "b", ".", "mp3">>
longMp3 == <<"b", "c", "d", "a", ".", "mp3">>
longToo == <<"b", "c", "d", "b", ".", "mp3">>
hiddenMP3 == <<".", "a", ".", "MP3">>
noRoom == <<"c", ".", "a", "b", "c">>
d == <<"d">>
oddDir == <<"d", "?">>
svi == <<"svi">>
colon == <<"a", ":">>

\* What sanitising, shortening and ffmpeg make of them.
Made ==
  {<<"_", "b", ".", "mp3">>, <<"b", "c", ".", "mp3">>,
   <<"c", ".">> \o <<"a", "b", "c">>, <<>>}
Temps ==
  {<<"a", ".", "tmp">>, <<"c", ".", "tmp">>, <<"?", "b", ".", "tmp">>, <<"_", "b", ".", "tmp">>,
   <<"b", "c", ".", "tmp">>, <<"b", "c", "d", "a", ".", "tmp">>,
   <<"b", "c", "d", "b", ".", "tmp">>}

RootNames ==
  {aMp3, bMP3, cMp3, oddMp3, longMp3, longToo, hiddenMP3, noRoom, d, oddDir, svi, colon}
    \cup Made \cup Temps

MCLocation ==
  {<<>>} \cup {<<n>> : n \in RootNames}
    \cup {<<d, n>> : n \in {aMp3, bMP3}} \cup {<<oddDir, aMp3>>, <<svi, aMp3>>}

Short(data) == [File(data) EXCEPT !.size = @ + 1]

Holding(files) ==
  [p \in MCLocation |->
     IF p = <<>> THEN Dir ELSE IF p \in DOMAIN files THEN files[p] ELSE Absent]

\* Chunks and directories.
Tree1 == Holding(<<aMp3>> :> File(<<"a1", "a2", "a3">>) @@ <<d>> :> Dir
                   @@ <<d, bMP3>> :> File(<<"b1">>) @@ <<d, aMp3>> :> File(<<"d1">>))
\* Names that change, and a file that is shorter than its directory entry says.
Tree2 == Holding(<<oddMp3>> :> File(<<"o1">>) @@ <<longMp3>> :> File(<<"l1">>)
                   @@ <<cMp3>> :> Short(<<"c1">>))
\* A name that cannot be shortened, an empty file, the directory of Windows.
Tree3 == Holding(<<aMp3>> :> File(<<>>) @@ <<noRoom>> :> File(<<"n1">>)
                   @@ <<svi>> :> Dir @@ <<svi, aMp3>> :> File(<<"s1">>))
\* A directory that a stick refuses.
Tree4 == Holding(<<oddDir>> :> Dir @@ <<oddDir, aMp3>> :> File(<<"a1">>)
                   @@ <<bMP3>> :> File(<<"b1">>))
\* Two names that shortening makes equal.
Tree5 == Holding(<<longMp3>> :> File(<<"l1">>) @@ <<longToo>> :> File(<<"l2">>))

\* A name that is not made fit for a stick.
Tree6 == Holding(<<colon>> :> File(<<"a1">>))

\* An empty directory with the name of a file that rm spares.
Tree7 == Holding(<<hiddenMP3>> :> Dir @@ <<bMP3>> :> File(<<"b1">>))

MCMasters == {<<Tree1, Tree2, Tree3, Tree4, Tree5, Tree6, Tree7>>[i] : i \in Tried}

MCBlock ==
  {"a1", "a2", "a3", "b1", "c1", "d1", "h1", "h2", "l1", "l2", "n1", "o1", "s1",
   "processed", "torn", "damaged"}

\* Tracks of an earlier master, one of which rm spares.
MCLeftovers == {Holding(<<hiddenMP3>> :> File(<<"h1">>) @@ <<cMp3>> :> File(<<"h2">>))}
=============================================================================
