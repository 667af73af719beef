--------------------------------- MODULE Qm ---------------------------------
(***************************************************************************)
(* The `qm` shim (lab-test/fake-pve/qm) as operators on the list of VM     *)
(* records it keeps in state.json.  Every operator is the effect of one    *)
(* completed shim process; how concurrent processes share the file is the  *)
(* subject of module StateFile.                                            *)
(***************************************************************************)
EXTENDS Lists

VmRecord(vmid, name, disk, status, node) ==
  [vmid |-> vmid, name |-> name, disk |-> disk, status |-> status, node |-> node]

\* Mutant: the record says the VM runs already.
QmCreateRunning(recs, vmid, name, disk, node) ==
  Append(recs, VmRecord(vmid, name, disk, "running", node))

\* `.vms += [...]`: appended, whether or not the vmid is already there.
QmCreate(recs, vmid, name, disk, node) ==
  Append(recs, VmRecord(vmid, name, disk, "created", node))

\* `(.vms[] | select(.vmid == $vmid) | .field) = value`: every record with the
\* vmid is changed, and it is no error when there is none.
QmUpdate(recs, vmid, field, value) ==
  [i \in DOMAIN recs |->
     IF recs[i].vmid = vmid THEN [recs[i] EXCEPT ![field] = value] ELSE recs[i]]

QmStart(recs, vmid) == QmUpdate(recs, vmid, "status", "running")

QmStop(recs, vmid) == QmUpdate(recs, vmid, "status", "stopped")

\* Mutant: the record says it has been moved instead of where to.
QmMigrateStatus(recs, vmid, target) == QmUpdate(recs, vmid, "status", "migrated")

QmMigrate(recs, vmid, target) == QmUpdate(recs, vmid, "node", target)

\* `.vms |= map(select(.vmid != $vmid))`
QmDestroy(recs, vmid) == Only(recs, {rec \in Elements(recs) : rec.vmid # vmid})
=============================================================================
