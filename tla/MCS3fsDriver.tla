---------------------------- MODULE MCS3fsDriver ----------------------------
(***************************************************************************)
(* Small instances of S3fsDriver for TLC.                                  *)
(***************************************************************************)
EXTENDS S3fsDriver, TLC

CONSTANTS p1, p2, t1, b1, s1, s2, none, tmpfs

MCSymmetry == Permutations(Procs) \cup Permutations(Secrets)

\* A pod's volume names one bucket; its credentials may be changed.
MCRequests == [bucket : {b1}, secret : Secrets]

\* System calls of unmountPath, of Mount itself, and of calls that do not overlap.
UnmountFaults == {"stat", "mountpoint", "detach", "force", "remove"}

MountFaults == {"check", "target", "mkdir", "tmpfs", "passwd", "s3fs", "dies"}

SerialFaults == UnmountFaults \cup MountFaults \cup {"crash"}

AllFaults == SerialFaults \cup {"restart"}
=============================================================================
