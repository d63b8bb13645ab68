----------------------------- MODULE NodePaths -----------------------------
(***************************************************************************)
(* A path of a node, as the FlexVolume driver sees it through stat,        *)
(* mountpoint(1), mount, unmount, mkdir, RemoveAll and s3fs: a directory,  *)
(* and the filesystems mounted on it, the last one first.  External, from  *)
(* the way src/driver/driver.go uses it.                                   *)
(***************************************************************************)
EXTENDS Sequences

CONSTANTS
  Buckets,     \* buckets a volume may name
  Secrets,     \* credentials, as they are written into a password file
  NoSecret,    \* no password file
  Tmpfs        \* in place of a bucket: the mount is a tmpfs

ASSUME NoSecretAssumption == NoSecret \notin Secrets
ASSUME TmpfsAssumption == Tmpfs \notin Buckets

\* A mounted filesystem.  `secret` is the password file in a tmpfs, or the
\* credentials an s3fs was started with.  An s3fs that is not live has died
\* and left its mount behind: "Transport endpoint is not connected".
Mount ==
  [bucket : Buckets \cup {Tmpfs}, secret : Secrets \cup {NoSecret},
   live : BOOLEAN]

EmptyTmpfs == [bucket |-> Tmpfs, secret |-> NoSecret, live |-> TRUE]

\* `file` is the password file in the directory itself, on the node's disk.
Path == [dir : BOOLEAN, file : Secrets \cup {NoSecret}, mounts : Seq(Mount)]

NoPath == [dir |-> FALSE, file |-> NoSecret, mounts |-> <<>>]

Mounted(path) == path.mounts # <<>>

Top(path) == Head(path.mounts)

Corrupted(path) == Mounted(path) /\ ~ Top(path).live

Mounting(path, m) == [path EXCEPT !.mounts = <<m>> \o @]

Unmounting(path) == [path EXCEPT !.mounts = Tail(@)]

\* What a program finds, or writes, in the password file of that path.
Password(path) == IF Mounted(path) THEN Top(path).secret ELSE path.file

WithPassword(path, secret) ==
  IF Mounted(path)
    THEN Mounting(Unmounting(path), [Top(path) EXCEPT !.secret = secret])
    ELSE [path EXCEPT !.file = secret]

\* RemoveAll empties what is mounted there but cannot remove a mount point.
Emptied(path) ==
  IF Corrupted(path) \/ (Mounted(path) /\ Top(path).bucket # Tmpfs)
    THEN path ELSE WithPassword(path, NoSecret)

\* The buckets whose objects RemoveAll deletes on the way.
Wiped(path) ==
  IF Mounted(path) /\ Top(path).live THEN {Top(path).bucket} \ {Tmpfs} ELSE {}
=============================================================================
