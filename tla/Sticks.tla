------------------------------- MODULE Sticks -------------------------------
(***************************************************************************)
(* What lies outside the program: the sockets, the sticks in them, the     *)
(* kernel that names the sticks and the mount table.  Modelled from the    *)
(* shell commands and the /sys/block scan that the code runs against it.   *)
(***************************************************************************)
EXTENDS SharedData

CONSTANT MountDirs     \* mount points that exist before the server starts

ASSUME MountDirsAssumption == MountDirs \subseteq Names

VARIABLES
  plugged,        \* [Paths -> Names \cup {NoName}]: the stick in each socket
  holds_master,   \* [Names -> BOOLEAN]: every file of the CRC list is on the stick and matches
  mounted,        \* [Names -> BOOLEAN]: partition mounted at its mount point
  mount_dir       \* [Names -> BOOLEAN]: the mount point /mnt/usb/sdX1 exists

stickVars == <<plugged, holds_master, mounted, mount_dir>>

SticksTypeOK ==
  /\ plugged \in [Paths -> Names \cup {NoName}]
  /\ holds_master \in [Names -> BOOLEAN]
  /\ mounted \in [Names -> BOOLEAN]
  /\ mount_dir \in [Names -> BOOLEAN]

SticksInit ==
  /\ plugged = [path \in Paths |-> NoName]
  /\ holds_master = [n \in Names |-> FALSE]
  /\ mounted = [n \in Names |-> FALSE]
  /\ mount_dir = [n \in Names |-> n \in MountDirs]

Present(n) == \E path \in Paths : plugged[path] = n

\* A stick enters an empty socket under a name no present or mounted stick has.
\* Nothing is known of its contents, so it does not count as holding the master.
Plug(path, n) ==
  /\ plugged[path] = NoName
  /\ ~Present(n)
  /\ ~mounted[n]
  /\ plugged' = [plugged EXCEPT ![path] = n]
  /\ UNCHANGED <<holds_master, mounted, mount_dir>>

\* A stick is pulled: nothing can be read from its name any more, but a mount
\* of it stays in the mount table.
Unplug(path) ==
  /\ plugged[path] # NoName
  /\ plugged' = [plugged EXCEPT ![path] = NoName]
  /\ holds_master' = [holds_master EXCEPT ![plugged[path]] = FALSE]
  /\ UNCHANGED <<mounted, mount_dir>>

-----------------------------------------------------------------------------
\* When each shell command of the client can succeed, and when sync can fail.
CanFormat(n) == Present(n) /\ ~mounted[n]
CanMount(n) == Present(n) /\ mount_dir[n] /\ ~mounted[n]
CanSync(n) == mount_dir[n]
SyncTrouble(n) == ~mount_dir[n] \/ (mounted[n] /\ ~Present(n))
CanUnmount(n) == mounted[n]
=============================================================================
