---------------------------- MODULE SnapshotStore ----------------------------
(***************************************************************************)
(* What the backups of one tenant promise, with no key, no files and no    *)
(* tables read one by one: a backup is an instantaneous copy of the        *)
(* database.  TenantOps implements this while operations stay within the   *)
(* key's time to live and every writer takes the key.                      *)
(***************************************************************************)
CONSTANT States   \* the contents a database can have

VARIABLES
  data,      \* the database
  archive    \* the contents of the backups that can be restored

Init == data \in States /\ archive = {}

(* A product transaction commits.                                           *)
Modify == data' \in States /\ archive' = archive

(* A backup completes: it holds what the database holds at that moment.     *)
Snapshot == archive' = archive \cup {data} /\ data' = data

(* Backups are deleted or rotated away.                                     *)
Forget == archive' \subseteq archive /\ data' = data

Next == Modify \/ Snapshot \/ Forget

Spec == Init /\ [][Next]_<<data, archive>>
=============================================================================
