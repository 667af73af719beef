--------------------------- MODULE BackupManager ---------------------------
(***************************************************************************)
(* The `proxmox-backup-manager` shim as operators on the state.json of one *)
(* PBS server: the registered datastores with their paths, and the prune   *)
(* jobs; on the Proxmox nodes, where the same shim runs, the snapshots.    *)
(* labctl and pbs-init.sh call the prune job of a datastore by the name of *)
(* the datastore with "-prune" after it, so jobs are indexed by datastore  *)
(* name here.  What a job keeps, and when it runs, is one value: its       *)
(* policy.                                                                 *)
(***************************************************************************)

\* f with x mapped to v: an entry of a JSON object that is set.
Put(f, x, v) == [y \in DOMAIN f \cup {x} |-> IF y = x THEN v ELSE f[y]]

Nothing == [x \in {} |-> x]

NewServer == [datastores |-> Nothing, jobs |-> Nothing]

\* Also when the datastore is there: its path is replaced.
DatastoreCreate(server, name, path) ==
  [server EXCEPT !.datastores = Put(@, name, path)]

\* Mutant: the policy goes where the store belongs.
PruneJobSwapped(server, name, store, policy) ==
  [server EXCEPT !.jobs = Put(@, name, [store |-> policy, policy |-> store])]

\* `prune-job create` and `prune-job update` alike replace the whole record, and
\* do not look for the datastore.
PruneJobPut(server, name, store, policy) ==
  [server EXCEPT !.jobs = Put(@, name, [store |-> store, policy |-> policy])]

\* The key of a snapshot is made of the vmid and the second it is taken in; the
\* datastore is no part of it.
SnapshotPut(snapshots, vmid, when, what) == Put(snapshots, <<vmid, when>>, what)
=============================================================================
