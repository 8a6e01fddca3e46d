------------------------------- MODULE MCTable -------------------------------
(* The two ways the daemon uses a store. *)
EXTENDS Table, TLC

CONSTANTS udev, review, dbus

\* mount_points: the udev thread mounts and unmounts, the review task removes
\* expired rows, the D-Bus thread looks devices up.  The daemon never calls
\* Update of this store; here the review does, in place of its deletions.
MountPointsCalls ==
    (udev :> {"create", "delete"}) @@ (review :> {"expire", "update"})
      @@ (dbus :> {"find"})

\* permissions: the D-Bus thread saves the rules in transactions, the udev
\* thread looks rules up.
PermissionsCalls == (dbus :> {"transaction", "find"}) @@ (udev :> {"find"})
=============================================================================
