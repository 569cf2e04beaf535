------------------------------ MODULE Mp3Pool ------------------------------
(***************************************************************************)
(* process_all_mp3_files and its threads (server.c): each MP3 file in the  *)
(* root of the RAM disk is rewritten by ffmpeg into a temporary file,      *)
(* which then takes its place.  A semaphore lets few ffmpeg run at once;   *)
(* the main thread waits until all threads have ended.                     *)
(***************************************************************************)
EXTENDS FileNames

CONSTANTS
  NUMBER_OF_FFMPEG_THREADS,
  PoolFails        \* what may go wrong

ASSUME BlocksAssumption == {"processed", "torn", "damaged"} \subseteq Block
ASSUME ThreadsAssumption == NUMBER_OF_FFMPEG_THREADS \in Nat \ {0}
ASSUME PoolFailsAssumption ==
  PoolFails \subseteq {"ffmpeg",   \* ffmpeg gives up
                       "killed",   \* ffmpeg is ended by a signal
                       "rm", "mv"}

VARIABLES
  ram,             \* the tree of the RAM disk
  main_pool,       \* the main thread: "idle", "create", "join", "done"
  thread,          \* [Location -> ThreadSteps]: the thread of each file
  ffmpeg_sem,      \* the value of the semaphore
  original,        \* history: the RAM disk when the threads were created
  killed           \* history: the files whose ffmpeg was ended by a signal

poolVars == <<ram, main_pool, thread, ffmpeg_sem, original, killed>>

\* "listed": the thread is not created yet; "ok" and "bad": ffmpeg has returned,
\* and the semaphore is still held.
ThreadSteps == {"none", "listed", "wait", "ffmpeg", "ok", "bad", "rm", "mv", "done"}

PoolTypeOK ==
  /\ ram \in Tree /\ original \in Tree
  /\ main_pool \in {"idle", "create", "join", "done"}
  /\ thread \in [Location -> ThreadSteps]
  /\ ffmpeg_sem \in 0 .. NUMBER_OF_FFMPEG_THREADS
  /\ killed \subseteq Location

PoolInit ==
  /\ ram \in Tree /\ original = ram
  /\ main_pool = "idle"
  /\ thread = [p \in Location |-> "none"]
  /\ ffmpeg_sem = 0 /\ killed = {}

-----------------------------------------------------------------------------
\* The files in the root only, by exact extension.
IsTrack(tree, p) == Len(p) = 1 /\ tree[p].kind = "file" /\ is_mp3(p[1])

Temp(p) == <<temp_file(p[1])>>

\* What ffmpeg makes of a file: anything that is not the file.
Processed(data) == <<"processed">> \o data
Torn == File(<<"torn">>)

ListTracks ==
  /\ main_pool = "idle"
  /\ main_pool' = "create"
  /\ thread' = [p \in Location |-> IF IsTrack(ram, p) THEN "listed" ELSE "none"]
  /\ ffmpeg_sem' = NUMBER_OF_FFMPEG_THREADS
  /\ original' = ram
  /\ UNCHANGED <<ram, killed>>

CreateThread(p) ==
  /\ main_pool = "create" /\ thread[p] = "listed"
  /\ thread' = [thread EXCEPT ![p] = "wait"]
  /\ UNCHANGED <<ram, main_pool, ffmpeg_sem, original, killed>>

AllCreated ==
  /\ main_pool = "create" /\ \A p \in Location : thread[p] # "listed"
  /\ main_pool' = "join"
  /\ UNCHANGED <<ram, thread, ffmpeg_sem, original, killed>>

\* Faulty variant of JoinAll: the threads are left to themselves.
JoinNone ==
  /\ main_pool = "join"
  /\ main_pool' = "done"
  /\ UNCHANGED <<ram, thread, ffmpeg_sem, original, killed>>

JoinAll ==
  /\ main_pool = "join" /\ \A p \in Location : thread[p] \in {"none", "done"}
  /\ main_pool' = "done"
  /\ UNCHANGED <<ram, thread, ffmpeg_sem, original, killed>>

-----------------------------------------------------------------------------
\* ffmpeg_thread_function.

Goes(p, from, to) ==
  /\ thread[p] = from
  /\ thread' = [thread EXCEPT ![p] = to]
  /\ UNCHANGED <<main_pool, original>>

\* Faulty variant of Begin: the semaphore is not taken.
BeginUnasked(p) ==
  /\ Goes(p, "wait", "ffmpeg")
  /\ ram' = [ram EXCEPT ![Temp(p)] = IF @.kind = "dir" THEN @ ELSE Torn]
  /\ UNCHANGED <<ffmpeg_sem, killed>>

\* sem_wait; ffmpeg overwrites what has the temporary name, unless it is a directory.
Begin(p) ==
  /\ Goes(p, "wait", "ffmpeg")
  /\ ffmpeg_sem > 0
  /\ ffmpeg_sem' = ffmpeg_sem - 1
  /\ ram' = [ram EXCEPT ![Temp(p)] = IF @.kind = "dir" THEN @ ELSE Torn]
  /\ UNCHANGED killed

\* ffmpeg ends.  Of one that was ended by a signal there is no exit status, and
\* execute_command takes that for success; a directory of the temporary name stops
\* ffmpeg before it does anything.
End(p) ==
  /\ \/ /\ Goes(p, "ffmpeg", "ok")
        /\ ram[p].data # <<>> /\ ram[Temp(p)].kind # "dir"
        /\ ram' = [ram EXCEPT ![Temp(p)] = File(Processed(ram[p].data))]
        /\ UNCHANGED killed
     \/ /\ Goes(p, "ffmpeg", "bad")
        /\ ram[p].data = <<>> \/ ram[Temp(p)].kind = "dir" \/ "ffmpeg" \in PoolFails
        /\ UNCHANGED <<ram, killed>>
     \/ /\ Goes(p, "ffmpeg", "ok")
        /\ ram[Temp(p)].kind # "dir" /\ "killed" \in PoolFails
        /\ killed' = killed \cup {p}
        /\ UNCHANGED ram
  /\ UNCHANGED ffmpeg_sem

\* Faulty variant of Post: what ffmpeg returned is not looked at.
PostAnyway(p) ==
  /\ Goes(p, "ok", "rm") \/ Goes(p, "bad", "rm")
  /\ ffmpeg_sem' = ffmpeg_sem + 1
  /\ UNCHANGED <<ram, killed>>

\* Faulty variant of Post: a thread whose ffmpeg failed returns without it.
PostAfterSuccess(p) ==
  /\ \/ Goes(p, "ok", "rm") /\ ffmpeg_sem' = ffmpeg_sem + 1
     \/ Goes(p, "bad", "done") /\ UNCHANGED ffmpeg_sem
  /\ UNCHANGED <<ram, killed>>

\* sem_post, and the count; after a failure the file is left as it is.
Post(p) ==
  /\ Goes(p, "ok", "rm") \/ Goes(p, "bad", "done")
  /\ ffmpeg_sem' = ffmpeg_sem + 1
  /\ UNCHANGED <<ram, killed>>

RemoveOriginal(p) ==
  /\ \/ Goes(p, "rm", "mv") /\ ram' = [ram EXCEPT ![p] = Absent]
     \/ Goes(p, "rm", "done") /\ "rm" \in PoolFails /\ UNCHANGED ram
  /\ UNCHANGED <<ffmpeg_sem, killed>>

Rename(p) ==
  /\ Goes(p, "mv", "done")
  /\ \/ ram' = [ram EXCEPT ![p] = ram[Temp(p)], ![Temp(p)] = Absent]
     \/ "mv" \in PoolFails /\ UNCHANGED ram
  /\ UNCHANGED <<ffmpeg_sem, killed>>

ThreadStep(p) == Begin(p) \/ End(p) \/ Post(p) \/ RemoveOriginal(p) \/ Rename(p)

PoolMain == ListTracks \/ AllCreated \/ JoinAll \/ \E p \in Location : CreateThread(p)

PoolNext == PoolMain \/ \E p \in Location : ThreadStep(p)

PoolSpec == PoolInit /\ [][PoolNext]_poolVars

-----------------------------------------------------------------------------
\* "Use a semaphore to only allow 4 instances of ffmpeg to run at one time".
FewAtOnce ==
  Cardinality({p \in Location : thread[p] = "ffmpeg"}) <= NUMBER_OF_FFMPEG_THREADS

\* No track is lost or left half written, unless its ffmpeg was killed: it is there
\* under its own name, as it was or processed, or under its temporary name, to be
\* renamed.  It takes the threads of the other tracks to stay off its temporary file.
Whole(p, node) == node \in {original[p], File(Processed(original[p].data))}

TracksAreSafe ==
  \A p \in Location \ killed : thread[p] # "none" =>
    \/ Whole(p, ram[p])
    \/ thread[p] \in {"mv", "done"} /\ ram[p] = Absent /\ Whole(p, ram[Temp(p)])

=============================================================================
