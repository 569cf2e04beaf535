------------------------------- MODULE Client -------------------------------
(***************************************************************************)
(* The client program (client.c): one process per stick, forked by the     *)
(* server for one channel.  It formats, fills, unmounts and verifies the   *)
(* stick with shell commands, reports each phase by writing state, and     *)
(* looks at halt before each phase.  A process that exits gives its slot   *)
(* in Procs back.  Built with PARTITION 0, FORMAT 1 and VERIFY 1.          *)
(***************************************************************************)
EXTENDS Sticks

CONSTANTS
  Procs,      \* slots of client processes
  MayFail     \* steps that may fail although nothing in the model prevents them

Failable ==
  {"fork", "sudo", "mkfs", "mkdir", "mount", "copy", "flash", "sync", "umount", "crc_file", "crc_line"}

ASSUME MayFailAssumption == MayFail \subseteq Failable

VARIABLES
  pc,      \* [Procs -> ClientSteps]: the next step of each process
  chan,    \* [Procs -> Devices]: its device_id argument
  dev      \* [Procs -> Names \cup {NoName}]: the device_name it read when it started

clientVars == <<pc, chan, dev>>

ClientSteps ==
  {"none", "child", "exec", "init", "umount_old", "format", "mkdir", "mount", "copy",
   "copying", "sync", "umount", "verify", "vmount", "compare", "vsync", "vumount",
   "result", "passed", "vfail", "failed", "failed_halt"}

\* A process works on a stick until it has published an outcome.
WorkingSteps == ClientSteps \ {"none", "failed_halt"}
Working(p) == pc[p] \in WorkingSteps

ClientTypeOK ==
  /\ pc \in [Procs -> ClientSteps]
  /\ chan \in [Procs -> Devices]
  /\ dev \in [Procs -> Names \cup {NoName}]

ClientInit ==
  /\ pc = [p \in Procs |-> "none"]
  /\ chan = [p \in Procs |-> 0]
  /\ dev = [p \in Procs |-> NoName]

-----------------------------------------------------------------------------
At(p, step) == pc[p] = step

GoTo(p, step) == pc' = [pc EXCEPT ![p] = step] /\ UNCHANGED <<chan, dev>>

Exit(p) ==
  /\ pc' = [pc EXCEPT ![p] = "none"]
  /\ chan' = [chan EXCEPT ![p] = 0]
  /\ dev' = [dev EXCEPT ![p] = NoName]

SetState(p, s) ==
  /\ state' = [state EXCEPT ![chan[p]] = s]
  /\ UNCHANGED <<halt, device_name, device_path>>

Halted(p) == halt[chan[p]]

\* start_process, parent side: the server forks a child for channel d.
Fork(p, d) ==
  /\ At(p, "none")
  /\ pc' = [pc EXCEPT ![p] = "child"]
  /\ chan' = [chan EXCEPT ![p] = d]
  /\ UNCHANGED dev

\* start_process, child side: announce the client, then exec "sudo ./client".
Child(p) ==
  /\ At(p, "child")
  /\ SetState(p, "STARTING")
  /\ GoTo(p, "exec")
  /\ UNCHANGED stickVars

\* The exec, sudo or the checks before the channel is known may fail: the
\* process ends without a word.  Otherwise main reads the name and the path.
Exec(p) ==
  /\ At(p, "exec")
  /\ \/ "sudo" \in MayFail /\ Exit(p)
     \/ /\ device_name[chan[p]] # NoName /\ device_path[chan[p]] # NoPath
        /\ pc' = [pc EXCEPT ![p] = "init"]
        /\ dev' = [dev EXCEPT ![p] = device_name[chan[p]]]
        /\ UNCHANGED chan
     \/ /\ device_name[chan[p]] = NoName \/ device_path[chan[p]] = NoPath
        /\ GoTo(p, "failed")
  /\ UNCHANGED <<sharedVars, stickVars>>

Initialise(p) ==
  /\ At(p, "init")
  /\ state' = [state EXCEPT ![chan[p]] = "STARTING"]
  /\ halt' = [halt EXCEPT ![chan[p]] = FALSE]
  /\ GoTo(p, "umount_old")
  /\ UNCHANGED <<device_name, device_path, stickVars>>

UnmountOld(p) ==
  /\ At(p, "umount_old")
  /\ \/ ~Halted(p) /\ mounted' = [mounted EXCEPT ![dev[p]] = FALSE]
     \/ (Halted(p) \/ "umount" \in MayFail) /\ UNCHANGED mounted
  /\ GoTo(p, "format")
  /\ UNCHANGED <<sharedVars, plugged, holds_master, mount_dir>>

Format(p) ==
  /\ At(p, "format")
  /\ \/ Halted(p) /\ GoTo(p, "mkdir") /\ UNCHANGED <<sharedVars, holds_master>>
     \/ /\ ~Halted(p)
        /\ SetState(p, "FORMATING")
        /\ \/ /\ CanFormat(dev[p])
              /\ holds_master' = [holds_master EXCEPT ![dev[p]] = FALSE]
              /\ GoTo(p, "mkdir")
           \/ /\ ~CanFormat(dev[p]) \/ "mkfs" \in MayFail
              /\ GoTo(p, "failed")
              /\ UNCHANGED holds_master
  /\ UNCHANGED <<plugged, mounted, mount_dir>>

MakeMountPoint(p) ==
  /\ At(p, "mkdir")
  /\ \/ Halted(p) /\ GoTo(p, "mount") /\ UNCHANGED <<sharedVars, mount_dir>>
     \/ /\ ~Halted(p)
        /\ SetState(p, "MOUNTING")
        /\ \/ mount_dir' = [mount_dir EXCEPT ![dev[p]] = TRUE] /\ GoTo(p, "mount")
           \/ "mkdir" \in MayFail /\ GoTo(p, "failed") /\ UNCHANGED mount_dir
  /\ UNCHANGED <<plugged, holds_master, mounted>>

Mount(p) ==
  /\ At(p, "mount")
  /\ \/ Halted(p) /\ GoTo(p, "copy") /\ UNCHANGED mounted
     \/ /\ ~Halted(p) /\ CanMount(dev[p])
        /\ mounted' = [mounted EXCEPT ![dev[p]] = TRUE]
        /\ GoTo(p, "copy")
     \/ /\ ~Halted(p)
        /\ ~CanMount(dev[p]) \/ "mount" \in MayFail
        /\ GoTo(p, "failed")
        /\ UNCHANGED mounted
  /\ UNCHANGED <<sharedVars, plugged, holds_master, mount_dir>>

StartCopy(p) ==
  /\ At(p, "copy")
  /\ \/ Halted(p) /\ GoTo(p, "sync") /\ UNCHANGED sharedVars
     \/ ~Halted(p) /\ SetState(p, "COPYING") /\ GoTo(p, "copying")
  /\ UNCHANGED stickVars

\* copy_directory returns 0 when everything is copied, and also when a halt cut
\* it short.  Into a mount point with nothing mounted it fills the SD card.
Copy(p) ==
  LET onto == mounted[dev[p]] /\ Present(dev[p])
      Copied(faithful) ==
        holds_master' = [holds_master EXCEPT ![dev[p]] = faithful] /\ GoTo(p, "sync")
  IN  /\ At(p, "copying")
      /\ \/ onto /\ Copied(TRUE)
         \/ onto /\ (Halted(p) \/ "flash" \in MayFail) /\ Copied(FALSE)
         \/ (~mounted[dev[p]] \/ Halted(p)) /\ GoTo(p, "sync") /\ UNCHANGED holds_master
         \/ /\ (mounted[dev[p]] /\ ~Present(dev[p])) \/ "copy" \in MayFail
            /\ GoTo(p, "failed")
            /\ UNCHANGED holds_master
      /\ UNCHANGED <<sharedVars, plugged, mounted, mount_dir>>

\* Written whether halted or not.  When sync fails, main returns 1 and leaves
\* state at UNMOUNTING.
Sync(p) ==
  /\ At(p, "sync")
  /\ SetState(p, "UNMOUNTING")
  /\ \/ CanSync(dev[p]) /\ GoTo(p, "umount")
     \/ (SyncTrouble(dev[p]) \/ "sync" \in MayFail) /\ Exit(p)
  /\ UNCHANGED stickVars

Unmount(p) ==
  /\ At(p, "umount")
  /\ \/ /\ CanUnmount(dev[p])
        /\ mounted' = [mounted EXCEPT ![dev[p]] = FALSE]
        /\ GoTo(p, "verify")
     \/ /\ ~CanUnmount(dev[p]) \/ "umount" \in MayFail
        /\ GoTo(p, "failed")
        /\ UNCHANGED mounted
  /\ UNCHANGED <<sharedVars, plugged, holds_master, mount_dir>>

\* Faulty variant of StartVerify: a halted client just leaves.
StartVerifySilent(p) ==
  /\ At(p, "verify")
  /\ \/ Halted(p) /\ Exit(p) /\ UNCHANGED sharedVars
     \/ ~Halted(p) /\ SetState(p, "VERIFYING") /\ GoTo(p, "vmount")
  /\ UNCHANGED stickVars

StartVerify(p) ==
  /\ At(p, "verify")
  /\ \/ Halted(p) /\ SetState(p, "FAILED") /\ Exit(p)
     \/ ~Halted(p) /\ SetState(p, "VERIFYING") /\ GoTo(p, "vmount")
  /\ UNCHANGED stickVars

-----------------------------------------------------------------------------
\* verify(): a halt skips the mount, and the unmount that follows then fails.
VerifyMount(p) ==
  /\ At(p, "vmount")
  /\ \/ Halted(p) /\ GoTo(p, "compare") /\ UNCHANGED mounted
     \/ /\ ~Halted(p) /\ CanMount(dev[p])
        /\ mounted' = [mounted EXCEPT ![dev[p]] = TRUE]
        /\ GoTo(p, "compare")
     \/ /\ \/ ~Halted(p) /\ (~CanMount(dev[p]) \/ "mount" \in MayFail)
           \/ "crc_file" \in MayFail
        /\ GoTo(p, "vfail")
        /\ UNCHANGED mounted
  /\ UNCHANGED <<sharedVars, plugged, holds_master, mount_dir>>

\* Faulty variant of Compare: a mismatch is reported but the loop goes on.
CompareLenient(p) ==
  /\ At(p, "compare")
  /\ GoTo(p, "vsync")
  /\ UNCHANGED <<sharedVars, stickVars>>

\* The loop over the lines of the CRC file: a halt ends it early, a mismatch
\* returns with the stick still mounted, a line without a tab exits.
Compare(p) ==
  LET matches == mounted[dev[p]] /\ Present(dev[p]) /\ holds_master[dev[p]]
  IN  /\ At(p, "compare")
      /\ \/ (Halted(p) \/ matches) /\ GoTo(p, "vsync")
         \/ ~Halted(p) /\ ~matches /\ GoTo(p, "vfail")
         \/ ~Halted(p) /\ "crc_line" \in MayFail /\ Exit(p)
      /\ UNCHANGED <<sharedVars, stickVars>>

VerifySync(p) ==
  /\ At(p, "vsync")
  /\ \/ CanSync(dev[p]) /\ GoTo(p, "vumount")
     \/ (SyncTrouble(dev[p]) \/ "sync" \in MayFail) /\ GoTo(p, "vfail")
  /\ UNCHANGED <<sharedVars, stickVars>>

VerifyUnmount(p) ==
  /\ At(p, "vumount")
  /\ \/ /\ CanUnmount(dev[p])
        /\ mounted' = [mounted EXCEPT ![dev[p]] = FALSE]
        /\ GoTo(p, "result")
     \/ /\ ~CanUnmount(dev[p]) \/ "umount" \in MayFail
        /\ GoTo(p, "vfail")
        /\ UNCHANGED mounted
  /\ UNCHANGED <<sharedVars, plugged, holds_master, mount_dir>>

\* Faulty variant of Result: halt is not looked at any more.
ResultUnasked(p) ==
  /\ At(p, "result")
  /\ GoTo(p, "passed")
  /\ UNCHANGED <<sharedVars, stickVars>>

\* The last look at halt.  Its FAILED is written at once, since whatever happens
\* in between is as good before the look.
Result(p) ==
  /\ At(p, "result")
  /\ \/ Halted(p) /\ SetState(p, "FAILED") /\ Exit(p)
     \/ ~Halted(p) /\ GoTo(p, "passed") /\ UNCHANGED sharedVars
  /\ UNCHANGED stickVars

\* SUCCESS is written after the look: a halt raised in between comes too late.
Passed(p) ==
  /\ At(p, "passed")
  /\ SetState(p, "SUCCESS")
  /\ Exit(p)
  /\ UNCHANGED stickVars

\* Faulty variant of VerifyFailed: the result of verify() is dropped.
VerifyFailedSilent(p) ==
  /\ At(p, "vfail")
  /\ Exit(p)
  /\ UNCHANGED <<sharedVars, stickVars>>

VerifyFailed(p) ==
  /\ At(p, "vfail")
  /\ SetState(p, "CRC_FAILED")
  /\ Exit(p)
  /\ UNCHANGED stickVars

\* Faulty variant of Failed: halt is raised but FAILED is never published.
FailedSilent(p) ==
  /\ At(p, "failed")
  /\ GoTo(p, "failed_halt")
  /\ UNCHANGED <<sharedVars, stickVars>>

\* failed() publishes FAILED first and raises halt afterwards.
Failed(p) ==
  /\ At(p, "failed")
  /\ SetState(p, "FAILED")
  /\ GoTo(p, "failed_halt")
  /\ UNCHANGED stickVars

FailedHalt(p) ==
  /\ At(p, "failed_halt")
  /\ halt' = [halt EXCEPT ![chan[p]] = TRUE]
  /\ Exit(p)
  /\ UNCHANGED <<state, device_name, device_path, stickVars>>

ClientNext(p) ==
  \/ Child(p) \/ Exec(p) \/ Initialise(p) \/ UnmountOld(p) \/ Format(p)
  \/ MakeMountPoint(p) \/ Mount(p) \/ StartCopy(p) \/ Copy(p) \/ Sync(p)
  \/ Unmount(p) \/ StartVerify(p) \/ VerifyMount(p) \/ Compare(p) \/ VerifySync(p)
  \/ VerifyUnmount(p) \/ Result(p) \/ Passed(p) \/ VerifyFailed(p) \/ Failed(p) \/ FailedHalt(p)
=============================================================================
