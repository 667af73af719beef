--------------------------- MODULE ClusterProofs ---------------------------
(***************************************************************************)
(* What holds of migrations and HA drills for any manifest, any nodes,     *)
(* operators, requests and console commands.                               *)
(***************************************************************************)
EXTENDS Cluster, WellFoundedInduction, TLAPS

(* Natural numbers *)

\* A non-empty set of naturals has a least element.
LEMMA LeastOf ==
  ASSUME NEW T, T \subseteq Nat, T # {}
  PROVE  \E x \in T : \A y \in T : x <= y
<1>1. PICK x \in T : \A y \in T : ~ (<<y, x>> \in OpToRel(<, Nat))
  BY NatLessThanWellFounded, WFMin
<1> SUFFICES ASSUME NEW y \in T, ~(x <= y) PROVE FALSE
  BY <1>1
<1>2. <<y, x>> \in Nat \X Nat /\ y < x
  OBVIOUS
<1>3. <<y, x>> \in OpToRel(<, Nat)
  BY <1>2 DEF OpToRel
<1> QED
  BY <1>1, <1>3

\* A set that holds 0 and every successor holds all naturals.
LEMMA HoldsAll ==
  ASSUME NEW G, 0 \in G, \A n \in Nat : n \in G => n + 1 \in G
  PROVE  Nat \subseteq G
<1> SUFFICES ASSUME Nat \ G # {} PROVE FALSE
  OBVIOUS
<1>1. Nat \ G \subseteq Nat
  OBVIOUS
<1>2. PICK x \in Nat \ G : \A y \in Nat \ G : x <= y
  BY <1>1, LeastOf
<1>3. x # 0 /\ x - 1 \in Nat /\ ~(x <= x - 1) /\ (x - 1) + 1 = x
  BY <1>2
<1> QED
  BY <1>2, <1>3

-----------------------------------------------------------------------------
(* Lists of which some elements are dropped *)

\* k goes through what is kept of the first elements of s.
Kept(s, S, k) ==
  k = [i \in 0..Len(s) |-> IF i = 0 THEN <<>>
                           ELSE IF s[i] \in S THEN Append(k[i - 1], s[i])
                           ELSE k[i - 1]]

LEMMA KeptSteps ==
  ASSUME NEW X, NEW s \in Seq(X), NEW S, NEW k, Kept(s, S, k)
  PROVE  /\ k[0] = <<>>
         /\ \A i \in 1..Len(s) : k[i] = IF s[i] \in S THEN Append(k[i - 1], s[i])
                                        ELSE k[i - 1]
<1> DEFINE F(h) == [i \in 0..Len(s) |-> IF i = 0 THEN <<>>
                                        ELSE IF s[i] \in S THEN Append(h[i - 1], s[i])
                                        ELSE h[i - 1]]
<1>1. Len(s) \in Nat
  OBVIOUS
<1>2. /\ F(k)[0] = <<>>
      /\ \A i \in 1..Len(s) : F(k)[i] = IF s[i] \in S THEN Append(k[i - 1], s[i])
                                        ELSE k[i - 1]
  BY <1>1
<1>3. k = F(k)
  BY DEF Kept
<1> HIDE DEF F
<1> QED
  BY <1>2, <1>3

LEMMA KeptMore ==
  ASSUME NEW X, NEW s \in Seq(X), NEW x \in X, NEW S, NEW k, Kept(s, S, k)
  PROVE  \E j : Kept(Append(s, x), S, j)
<1> DEFINE m == Len(s)
           t == Append(s, x)
           j == [i \in 0..m + 1 |-> IF i = m + 1
                                    THEN IF x \in S THEN Append(k[m], x) ELSE k[m]
                                    ELSE k[i]]
<1>1. m \in Nat /\ Len(t) = m + 1 /\ t[m + 1] = x /\ \A i \in 1..m : t[i] = s[i]
  OBVIOUS
<1>2. /\ k[0] = <<>>
      /\ \A i \in 1..m : k[i] = IF s[i] \in S THEN Append(k[i - 1], s[i]) ELSE k[i - 1]
  BY KeptSteps
<1>3. j[0] = <<>>
  BY <1>1, <1>2
<1>4. ASSUME NEW i \in 1..m
      PROVE  j[i] = IF s[i] \in S THEN Append(j[i - 1], s[i]) ELSE j[i - 1]
  BY <1>1, <1>2
<1>5. j[m + 1] = IF x \in S THEN Append(j[m], x) ELSE j[m]
  <2>1. m + 1 \in 0..m + 1 /\ m \in 0..m + 1 /\ m # m + 1
    BY <1>1
  <2>2. j[m + 1] = IF x \in S THEN Append(k[m], x) ELSE k[m]
    BY <2>1
  <2>3. j[m] = k[m]
    BY <2>1
  <2> QED
    BY <2>2, <2>3
<1> HIDE DEF j, t
<1>6. \A i \in 0..m + 1 : j[i] = IF i = 0 THEN <<>>
                                 ELSE IF t[i] \in S THEN Append(j[i - 1], t[i])
                                 ELSE j[i - 1]
  <2> SUFFICES ASSUME NEW i \in 0..m + 1
               PROVE  j[i] = IF i = 0 THEN <<>>
                             ELSE IF t[i] \in S THEN Append(j[i - 1], t[i])
                             ELSE j[i - 1]
    OBVIOUS
  <2>1. CASE i = 0
    BY <2>1, <1>3
  <2>2. CASE i \in 1..m
    <3>1. i # 0 /\ t[i] = s[i]
      BY <2>2, <1>1
    <3>2. j[i] = IF s[i] \in S THEN Append(j[i - 1], s[i]) ELSE j[i - 1]
      BY <2>2, <1>4
    <3> QED
      BY <3>1, <3>2
  <2>3. CASE i = m + 1
    <3>1. i # 0 /\ t[i] = x /\ i - 1 = m
      BY <2>3, <1>1
    <3> QED
      BY <3>1, <2>3, <1>5
  <2> QED
    BY <1>1, <2>1, <2>2, <2>3
<1>7. j = [i \in 0..m + 1 |-> IF i = 0 THEN <<>>
                              ELSE IF t[i] \in S THEN Append(j[i - 1], t[i])
                              ELSE j[i - 1]]
  <2>1. j = [i \in 0..m + 1 |-> j[i]]
    BY DEF j
  <2> QED
    BY <1>6, <2>1
<1>8. Kept(t, S, j)
  BY <1>1, <1>7 DEF Kept
<1> QED
  BY <1>8 DEF t

LEMMA KeptTotal ==
  ASSUME NEW X, NEW S
  PROVE  \A s \in Seq(X) : \E k : Kept(s, S, k)
<1> DEFINE G == {n \in Nat : \A s \in Seq(X) : Len(s) = n => \E k : Kept(s, S, k)}
<1>1. 0 \in G
  <2> SUFFICES ASSUME NEW s \in Seq(X), Len(s) = 0 PROVE \E k : Kept(s, S, k)
    OBVIOUS
  <2> DEFINE k == [i \in 0..0 |-> <<>>]
  <2>1. k = [i \in 0..0 |-> IF i = 0 THEN <<>>
                            ELSE IF s[i] \in S THEN Append(k[i - 1], s[i])
                            ELSE k[i - 1]]
    OBVIOUS
  <2>2. Kept(s, S, k)
    BY <2>1 DEF Kept
  <2> QED
    BY <2>2
<1>2. ASSUME NEW n \in Nat, n \in G PROVE n + 1 \in G
  <2> SUFFICES ASSUME NEW s \in Seq(X), Len(s) = n + 1 PROVE \E k : Kept(s, S, k)
    OBVIOUS
  <2> DEFINE front == SubSeq(s, 1, n)
  <2>1. front \in Seq(X) /\ Len(front) = n /\ s[n + 1] \in X
    OBVIOUS
  <2>2. s = Append(front, s[n + 1])
    OBVIOUS
  <2>3. PICK k : Kept(front, S, k)
    BY <1>2, <2>1
  <2> HIDE DEF front
  <2> QED
    BY <2>1, <2>2, <2>3, KeptMore
<1>3. Nat \subseteq G
  <2> HIDE DEF G
  <2> QED
    BY <1>1, <1>2, HoldsAll
<1> QED
  BY <1>3

\* What is left of a list are elements of it that were to be kept.
LEMMA OnlyKeeps ==
  ASSUME NEW X, NEW s \in Seq(X), NEW S
  PROVE  Only(s, S) \in Seq(Elements(s) \cap S)
<1> DEFINE m == Len(s)
           Y == Elements(s) \cap S
           c == CHOOSE k : k = [i \in 0..m |-> IF i = 0 THEN <<>>
                                  ELSE IF s[i] \in S THEN Append(k[i - 1], s[i])
                                  ELSE k[i - 1]]
           G == {n \in Nat : n \in 0..m => c[n] \in Seq(Y)}
<1>1. m \in Nat /\ \A i \in 1..m : s[i] \in Elements(s)
  BY DEF Elements
<1>2. PICK k : Kept(s, S, k)
  BY KeptTotal
<1>3. Kept(s, S, c)
  BY <1>2 DEF Kept
<1>4. Only(s, S) = c[m]
  BY DEF Only
<1> HIDE DEF c
<1>5. /\ c[0] = <<>>
      /\ \A i \in 1..m : c[i] = IF s[i] \in S THEN Append(c[i - 1], s[i]) ELSE c[i - 1]
  BY <1>3, KeptSteps
<1>6. 0 \in G
  <2>1. <<>> \in Seq(Y)
    OBVIOUS
  <2> HIDE DEF Y
  <2> QED
    BY <1>5, <2>1
<1>7. ASSUME NEW n \in Nat, n \in G PROVE n + 1 \in G
  <2> SUFFICES ASSUME n + 1 \in 0..m PROVE c[n + 1] \in Seq(Y)
    OBVIOUS
  <2>1. n + 1 \in 1..m /\ (n + 1) - 1 = n /\ c[n] \in Seq(Y)
    <3>1. n \in 0..m /\ n + 1 \in 1..m /\ (n + 1) - 1 = n
      BY <1>1
    <3> QED
      BY <1>7, <3>1
  <2>2. c[n + 1] = IF s[n + 1] \in S THEN Append(c[n], s[n + 1]) ELSE c[n]
    BY <1>5, <2>1
  <2>3. s[n + 1] \in S => s[n + 1] \in Y
    BY <1>1, <2>1
  <2> HIDE DEF Y
  <2> QED
    BY <2>1, <2>2, <2>3
<1>8. Nat \subseteq G
  <2> HIDE DEF G
  <2> QED
    BY <1>6, <1>7, HoldsAll
<1>9. m \in G
  BY <1>1, <1>8
<1> QED
  BY <1>1, <1>4, <1>9

-----------------------------------------------------------------------------
(* What labctl sends *)

\* The first cluster of a hypervisor that has one lists it, and all its members
\* are nodes.
LEMMA FirstOwns ==
  ASSUME NEW h, Owners(Manifest, h) # {}
  PROVE  /\ FirstCluster(Manifest, h).hypervisors \in Seq(Nodes)
         /\ h \in Nodes /\ Member(h) \subseteq Nodes
<1>1. Owners(Manifest, h) \subseteq Nat
  BY ManifestAssumption DEF Owners
<1>2. \E i \in Owners(Manifest, h) : \A j \in Owners(Manifest, h) : i <= j
  BY <1>1, LeastOf
<1>3. FirstOwner(Manifest, h) \in Owners(Manifest, h)
  BY <1>2 DEF FirstOwner
<1>4. FirstCluster(Manifest, h).hypervisors \in Seq(Nodes)
  BY <1>3, ManifestAssumption DEF Owners, FirstCluster
<1>5. \A s \in Seq(Nodes) : Elements(s) \subseteq Nodes
  BY DEF Elements
<1>6. h \in Nodes
  BY <1>3, <1>5, ManifestAssumption DEF Owners
<1> QED
  BY <1>4, <1>5, <1>6 DEF Member

\* A drill runs on a member of the cluster that is not the node it is about.
LEMMA WitnessIsAnother ==
  ASSUME NEW h, Owners(Manifest, h) # {}, Survivors(h) # {}
  PROVE  Witness(h) \in Nodes /\ Witness(h) # h
<1> DEFINE members == FirstCluster(Manifest, h).hypervisors
           i == CHOOSE x \in Survivors(h) : \A y \in Survivors(h) : x <= y
<1>1. members \in Seq(Nodes)
  BY FirstOwns
<1>2. Survivors(h) \subseteq DOMAIN members /\ \A x \in Survivors(h) : members[x] # h
  BY DEF Survivors
<1>3. DOMAIN members \subseteq Nat
  BY <1>1
<1>4. \E x \in Survivors(h) : \A y \in Survivors(h) : x <= y
  BY <1>2, <1>3, LeastOf
<1>5. i \in Survivors(h)
  BY <1>4
<1>6. Witness(h) = members[i]
  BY DEF Witness
<1> HIDE DEF members, i
<1> QED
  BY <1>1, <1>2, <1>5, <1>6

\* A command labctl sends: a migration goes to a member of the cluster of the node
\* it runs on, and a node is not asked to fence itself.
Sent ==
  {e \in [node : Nodes, cmd : [op : {"migrate", "fence", "unfence"},
                               vmid : VmIds, node : Nodes]] :
     /\ e.cmd.op = "migrate" => Owners(Manifest, e.node) # {} /\ e.cmd.node \in Member(e.node)
     /\ e.cmd.op = "fence" => e.cmd.node # e.node}

LEMMA TaskIsSent ==
  ASSUME NEW r \in Requests, ~Refused(r)
  PROVE  Task(r) \in Sent
<1>1. CASE r.kind = "migrate"
  <2>1. /\ Named(r.vm) # {} /\ Owners(Manifest, VmOf(r).hypervisor) # {}
        /\ Proxmox(VmOf(r).hypervisor) /\ r.target \in Member(VmOf(r).hypervisor)
    BY <1>1 DEF Refused, MigrateRefused
  <2>2. \E k \in Named(r.vm) : \A l \in Named(r.vm) : k <= l
    <3>1. Named(r.vm) \subseteq Nat
      BY ManifestAssumption DEF Named
    <3> QED
      BY <2>1, <3>1, LeastOf
  <2>3. VmOf(r).vmid \in VmIds
    <3>1. (CHOOSE k \in Named(r.vm) : \A l \in Named(r.vm) : k <= l) \in Named(r.vm)
      BY <2>2
    <3> QED
      BY <3>1, ManifestAssumption DEF VmOf, Named
  <2>4. VmOf(r).hypervisor \in Nodes /\ r.target \in Nodes
    BY <2>1, FirstOwns
  <2>5. Task(r) = [node |-> VmOf(r).hypervisor,
                   cmd |-> [op |-> "migrate", vmid |-> VmOf(r).vmid, node |-> r.target]]
    BY <1>1 DEF Task, On, Shim
  <2> QED
    BY <2>1, <2>3, <2>4, <2>5 DEF Sent
<1>2. CASE r.kind # "migrate"
  <2>1. Owners(Manifest, r.node) # {} /\ Survivors(r.node) # {}
    BY <1>2 DEF Refused, DrillRefused
  <2>2. Witness(r.node) \in Nodes /\ Witness(r.node) # r.node /\ r.node \in Nodes
    BY <2>1, FirstOwns, WitnessIsAnother
  <2>3. PICK op \in {"fence", "unfence"} :
          Task(r) = [node |-> Witness(r.node),
                     cmd |-> [op |-> op, vmid |-> None, node |-> r.node]]
    BY <1>2 DEF Task, On, Shim
  <2> QED
    BY <2>2, <2>3 DEF Sent, VmIds
<1> QED
  BY <1>1, <1>2

-----------------------------------------------------------------------------
(* What the shims make of their files *)

\* VM records on the nodes of M.
RecordsOn(M) == {rec \in VmRecords : rec.node \in M}

LEMMA QmKeeps ==
  ASSUME NEW M \in SUBSET Nodes, NEW recs \in Seq(RecordsOn(M)), NEW vmid \in VmIds
  PROVE  /\ \A node \in M : /\ QmCreate(recs, vmid, None, None, node) \in Seq(RecordsOn(M))
                            /\ QmMigrate(recs, vmid, node) \in Seq(RecordsOn(M))
         /\ QmStart(recs, vmid) \in Seq(RecordsOn(M))
         /\ QmStop(recs, vmid) \in Seq(RecordsOn(M))
         /\ QmDestroy(recs, vmid) \in Seq(RecordsOn(M))
<1>1. \A node \in M : VmRecord(vmid, None, None, "created", node) \in RecordsOn(M)
  BY DEF VmRecord, VmRecords, RecordsOn
<1>2. \A node \in M : QmCreate(recs, vmid, None, None, node) \in Seq(RecordsOn(M))
  BY <1>1 DEF QmCreate
<1>3. ASSUME NEW field \in {"status", "node"}, NEW v,
             field = "status" => v \in {"running", "stopped"},
             field = "node" => v \in M
      PROVE  QmUpdate(recs, vmid, field, v) \in Seq(RecordsOn(M))
  <2>1. ASSUME NEW rec \in RecordsOn(M) PROVE [rec EXCEPT ![field] = v] \in RecordsOn(M)
    <3>1. CASE field = "status"
      BY <1>3, <2>1, <3>1 DEF RecordsOn, VmRecords
    <3>2. CASE field = "node"
      BY <1>3, <2>1, <3>2 DEF RecordsOn, VmRecords
    <3> QED
      BY <3>1, <3>2
  <2>2. \A i \in DOMAIN recs : recs[i] \in RecordsOn(M)
    OBVIOUS
  <2> DEFINE new(i) == IF recs[i].vmid = vmid THEN [recs[i] EXCEPT ![field] = v] ELSE recs[i]
  <2>3. \A i \in DOMAIN recs : new(i) \in RecordsOn(M)
    BY <2>1, <2>2
  <2>4. QmUpdate(recs, vmid, field, v) = [i \in DOMAIN recs |-> new(i)]
    BY DEF QmUpdate
  <2> HIDE DEF new
  <2>5. DOMAIN recs = 1..Len(recs) /\ Len(recs) \in Nat
    OBVIOUS
  <2> QED
    BY <2>3, <2>4, <2>5
<1>4. QmStart(recs, vmid) \in Seq(RecordsOn(M))
  BY <1>3 DEF QmStart
<1>5. QmStop(recs, vmid) \in Seq(RecordsOn(M))
  BY <1>3 DEF QmStop
<1>6. \A node \in M : QmMigrate(recs, vmid, node) \in Seq(RecordsOn(M))
  BY <1>3 DEF QmMigrate
<1>7. QmDestroy(recs, vmid) \in Seq(RecordsOn(M))
  <2> DEFINE S == {rec \in Elements(recs) : rec.vmid # vmid}
  <2>1. Only(recs, S) \in Seq(Elements(recs) \cap S)
    BY OnlyKeeps
  <2>2. Elements(recs) \cap S \subseteq RecordsOn(M)
    BY DEF Elements
  <2> QED
    BY <2>1, <2>2 DEF QmDestroy
<1> QED
  BY <1>2, <1>4, <1>5, <1>6, <1>7

\* An ha.json without a resource left behind.
HaFiles ==
  {h \in [resources : Seq(HaResources), fenced : SUBSET Nodes] :
     \A i \in DOMAIN h.resources :
       h.resources[i].state = "fenced" => h.resources[i].node \in h.fenced}

LEMMA HaKeeps ==
  ASSUME NEW h \in HaFiles, NEW vmid \in VmIds
  PROVE  /\ \A node \in Nodes : /\ HaAdd(h, vmid, "default", node) \in HaFiles
                                /\ HaFence(h, node) \in HaFiles
                                /\ HaUnfence(h, node) \in HaFiles
         /\ HaRemove(h, vmid) \in HaFiles
<1> DEFINE rs == h.resources
           Sound(ts, F) == \A i \in DOMAIN ts : ts[i].state = "fenced" => ts[i].node \in F
<1>1. /\ rs \in Seq(HaResources) /\ h.fenced \in SUBSET Nodes /\ Sound(rs, h.fenced)
      /\ h = [resources |-> rs, fenced |-> h.fenced]
      /\ DOMAIN rs = 1..Len(rs) /\ Len(rs) \in Nat
  BY DEF HaFiles
<1>2. ASSUME NEW ts \in Seq(HaResources), NEW F \in SUBSET Nodes, Sound(ts, F)
      PROVE  [resources |-> ts, fenced |-> F] \in HaFiles
  BY <1>2 DEF HaFiles
<1> HIDE DEF rs
<1>3. ASSUME NEW node \in Nodes PROVE HaAdd(h, vmid, "default", node) \in HaFiles
  <2> DEFINE r == HaResource(vmid, "default", node)
             ts == Append(rs, r)
  <2>1. r \in HaResources /\ r.state # "fenced"
    BY DEF HaResource, HaResources
  <2> HIDE DEF r
  <2>2. ts \in Seq(HaResources) /\ Sound(ts, h.fenced)
    BY <1>1, <2>1
  <2>3. HaAdd(h, vmid, "default", node) = [resources |-> ts, fenced |-> h.fenced]
    <3>1. HaAdd(h, vmid, "default", node) = [h EXCEPT !.resources = ts]
      BY DEF HaAdd, r, rs
    <3>2. \A x : [h EXCEPT !.resources = x] = [resources |-> x, fenced |-> h.fenced]
      BY <1>1
    <3> QED
      BY <3>1, <3>2
  <2> HIDE DEF ts
  <2> QED
    BY <1>1, <1>2, <2>2, <2>3
<1>4. ASSUME NEW node \in Nodes PROVE HaFence(h, node) \in HaFiles
  <2> DEFINE new(i) == IF rs[i].node = node THEN [rs[i] EXCEPT !.state = "fenced"] ELSE rs[i]
             ts == [i \in DOMAIN rs |-> new(i)]
  <2>1. \A i \in DOMAIN rs : rs[i] \in HaResources
    BY <1>1
  <2>2. \A i \in DOMAIN rs : /\ new(i) \in HaResources /\ new(i).node = rs[i].node
                             /\ new(i).state = IF rs[i].node = node THEN "fenced" ELSE rs[i].state
    BY <2>1 DEF HaResources
  <2> HIDE DEF new
  <2>3. ts \in Seq(HaResources)
    BY <1>1, <2>2
  <2>4. \A i \in DOMAIN ts : /\ i \in DOMAIN rs
                             /\ ts[i].node = rs[i].node
                             /\ ts[i].state = "fenced" => rs[i].node = node \/ rs[i].state = "fenced"
    BY <2>2
  <2> HIDE DEF ts
  <2>5. Sound(ts, h.fenced \cup {node})
    BY <1>1, <2>4
  <2>6. HaFence(h, node) = [resources |-> ts, fenced |-> h.fenced \cup {node}]
    BY DEF HaFence, rs, new, ts
  <2> QED
    BY <1>1, <1>2, <2>3, <2>5, <2>6
<1>5. ASSUME NEW node \in Nodes PROVE HaUnfence(h, node) \in HaFiles
  <2> DEFINE new(i) == IF rs[i].state = "fenced" THEN [rs[i] EXCEPT !.state = "started"]
                       ELSE rs[i]
             ts == [i \in DOMAIN rs |-> new(i)]
  <2>1. \A i \in DOMAIN rs : rs[i] \in HaResources
    BY <1>1
  <2>2. \A i \in DOMAIN rs : new(i) \in HaResources /\ new(i).state # "fenced"
    BY <2>1 DEF HaResources
  <2> HIDE DEF new
  <2>3. ts \in Seq(HaResources) /\ Sound(ts, h.fenced \ {node})
    BY <1>1, <2>2
  <2>4. HaUnfence(h, node) = [resources |-> ts, fenced |-> h.fenced \ {node}]
    BY DEF HaUnfence, rs, new
  <2> HIDE DEF ts
  <2> QED
    BY <1>1, <1>2, <2>3, <2>4
<1>6. HaRemove(h, vmid) \in HaFiles
  <2> DEFINE S == {r \in Elements(rs) : r.vmid # vmid}
             ts == Only(rs, S)
  <2>1. ts \in Seq(Elements(rs) \cap S)
    BY <1>1, OnlyKeeps
  <2>2. \A r \in Elements(rs) : r \in HaResources /\ (r.state = "fenced" => r.node \in h.fenced)
    BY <1>1 DEF Elements
  <2>3. HaRemove(h, vmid) = [resources |-> ts, fenced |-> h.fenced]
    BY <1>1 DEF HaRemove, rs
  <2> HIDE DEF ts
  <2>4. ts \in Seq(HaResources) /\ Sound(ts, h.fenced)
    BY <2>1, <2>2
  <2> QED
    BY <1>1, <1>2, <2>3, <2>4
<1> QED
  BY <1>3, <1>4, <1>5, <1>6

-----------------------------------------------------------------------------
(* One command on one node *)

\* Where a record that node n keeps may say its VM is.
Places(n) ==
  {m \in Nodes : m = Fallback \/ (Owners(Manifest, n) # {} /\ m \in Member(n))}

\* The files of the nodes: no record beyond the cluster, no resource left behind.
FilesOK ==
  /\ vms \in [Nodes -> Seq(VmRecords)]
  /\ \A n \in Nodes : vms[n] \in Seq(RecordsOn(Places(n)))
  /\ ha \in [Nodes -> HaFiles]

\* What may run on n: a create or a migration that leaves the VM at one of its
\* places, any other command about any node.
Fitting(n) ==
  [op : {"create", "migrate"}, vmid : VmIds, node : Places(n)]
    \cup [op : {"start", "stop", "destroy", "remove"}, vmid : VmIds, node : {None}]
    \cup [op : {"add", "fence", "unfence"}, vmid : VmIds, node : Nodes]

LEMMA ExecuteKeeps ==
  ASSUME FilesOK, NEW n \in Nodes, NEW c \in Fitting(n), Execute(n, c)
  PROVE  FilesOK'
<1>1. Places(n) \in SUBSET Nodes /\ c.vmid \in VmIds
  BY DEF Places, Fitting
<1>2. PICK recs \in Seq(RecordsOn(Places(n))) : vms' = [vms EXCEPT ![n] = recs]
  <2>1. vms[n] \in Seq(RecordsOn(Places(n)))
    BY DEF FilesOK
  <2>2. /\ \A node \in Places(n) :
             /\ QmCreate(vms[n], c.vmid, None, None, node) \in Seq(RecordsOn(Places(n)))
             /\ QmMigrate(vms[n], c.vmid, node) \in Seq(RecordsOn(Places(n)))
        /\ QmStart(vms[n], c.vmid) \in Seq(RecordsOn(Places(n)))
        /\ QmStop(vms[n], c.vmid) \in Seq(RecordsOn(Places(n)))
        /\ QmDestroy(vms[n], c.vmid) \in Seq(RecordsOn(Places(n)))
    BY <1>1, <2>1, QmKeeps
  <2>3. CASE c.op = "create"
    BY <2>2, <2>3 DEF Execute, Fitting
  <2>4. CASE c.op = "start"
    BY <2>2, <2>4 DEF Execute
  <2>5. CASE c.op = "stop"
    BY <2>2, <2>5 DEF Execute
  <2>6. CASE c.op = "destroy"
    BY <2>2, <2>6 DEF Execute
  <2>7. CASE c.op = "migrate"
    BY <2>2, <2>7 DEF Execute, Fitting
  <2>8. CASE c.op \notin {"create", "start", "stop", "destroy", "migrate"}
    <3>1. vms' = vms
      BY <2>8 DEF Execute
    <3>2. vms = [vms EXCEPT ![n] = vms[n]]
      BY DEF FilesOK
    <3> QED
      BY <2>1, <3>1, <3>2
  <2> QED
    BY <2>3, <2>4, <2>5, <2>6, <2>7, <2>8
<1>3. PICK h \in HaFiles : ha' = [ha EXCEPT ![n] = h]
  <2>1. ha[n] \in HaFiles
    BY DEF FilesOK
  <2>2. /\ \A node \in Nodes : /\ HaAdd(ha[n], c.vmid, "default", node) \in HaFiles
                              /\ HaFence(ha[n], node) \in HaFiles
                              /\ HaUnfence(ha[n], node) \in HaFiles
        /\ HaRemove(ha[n], c.vmid) \in HaFiles
    BY <1>1, <2>1, HaKeeps
  <2>3. CASE c.op = "add"
    BY <2>2, <2>3 DEF Execute, Fitting
  <2>4. CASE c.op = "remove"
    BY <2>2, <2>4 DEF Execute
  <2>5. CASE c.op = "fence"
    BY <2>2, <2>5 DEF Execute, Fitting
  <2>6. CASE c.op = "unfence"
    BY <2>2, <2>6 DEF Execute, Fitting
  <2>7. CASE c.op \notin {"add", "remove", "fence", "unfence"}
    <3>1. ha' = ha
      BY <2>7 DEF Execute
    <3>2. ha = [ha EXCEPT ![n] = ha[n]]
      BY DEF FilesOK
    <3> QED
      BY <2>1, <3>1, <3>2
  <2> QED
    BY <2>3, <2>4, <2>5, <2>6, <2>7
<1>4. Seq(RecordsOn(Places(n))) \subseteq Seq(VmRecords)
  BY DEF RecordsOn
<1> QED
  BY <1>2, <1>3, <1>4 DEF FilesOK

\* Only `ha-manager fence` on a node makes an ha.json call a node fenced.
LEMMA ExecuteFences ==
  ASSUME FilesOK, NEW n \in Nodes, NEW c \in Fitting(n), Execute(n, c),
         NEW m \in Nodes, NEW x, x \in ha'[m].fenced, x \notin ha[m].fenced
  PROVE  m = n /\ c.op = "fence" /\ x = c.node
<1>1. ha \in [Nodes -> HaFiles] /\ ha[m].fenced \in SUBSET Nodes
  BY DEF FilesOK, HaFiles
<1>2. m = n
  BY <1>1 DEF Execute
<1>3. CASE c.op = "fence"
  BY <1>1, <1>2, <1>3 DEF Execute, HaFence
<1>4. CASE c.op = "unfence"
  BY <1>1, <1>2, <1>4 DEF Execute, HaUnfence
<1>5. CASE c.op = "add"
  <2>1. HaAdd(ha[n], c.vmid, "default", c.node).fenced = ha[n].fenced
    BY <1>1, <1>2 DEF HaAdd, HaFiles
  <2> QED
    BY <1>1, <1>2, <1>5, <2>1 DEF Execute
<1>6. CASE c.op = "remove"
  <2>1. HaRemove(ha[n], c.vmid).fenced = ha[n].fenced
    BY <1>1, <1>2 DEF HaRemove, HaFiles
  <2> QED
    BY <1>1, <1>2, <1>6, <2>1 DEF Execute
<1>7. CASE c.op \notin {"add", "remove", "fence", "unfence"}
  BY <1>1, <1>7 DEF Execute
<1> QED
  BY <1>2, <1>3, <1>4, <1>5, <1>6, <1>7

\* What labctl sends fits the node it is sent to, and so do the other commands.
LEMMA SentFits == \A e \in Sent : e.node \in Nodes /\ e.cmd \in Fitting(e.node)
<1> SUFFICES ASSUME NEW e \in Sent PROVE e.node \in Nodes /\ e.cmd \in Fitting(e.node)
  OBVIOUS
<1>1. e.node \in Nodes /\ e.cmd \in [op : {"migrate", "fence", "unfence"},
                                     vmid : VmIds, node : Nodes]
  BY DEF Sent
<1>2. e.cmd.op = "migrate" => e.cmd.node \in Places(e.node)
  BY <1>1 DEF Sent, Places
<1> QED
  BY <1>1, <1>2 DEF Fitting

LEMMA ConsoleFits ==
  ASSUME NEW n \in Nodes, NEW c \in Console
  PROVE  /\ (IF c.op = "add" THEN [c EXCEPT !.node = n] ELSE c) \in Fitting(n)
<1>1. CASE c.op = "add"
  <2>1. [c EXCEPT !.node = n] = [op |-> "add", vmid |-> c.vmid, node |-> n] /\ c.vmid \in VmIds
    BY <1>1, ConsoleAssumption
  <2> QED
    BY <1>1, <2>1 DEF Fitting
<1>2. CASE c.op # "add"
  BY <1>2, ConsoleAssumption DEF Fitting, VmIds
<1> QED
  BY <1>1, <1>2

LEMMA ProvisionFits ==
  ASSUME NEW k \in DOMAIN Manifest.vms, Proxmox(Manifest.vms[k].hypervisor)
  PROVE  LET v == Manifest.vms[k]
         IN  /\ v.hypervisor \in Nodes
             /\ Shim("create", v.vmid, Fallback) \in Fitting(v.hypervisor)
             /\ Shim("add", v.vmid, Fallback) \in Fitting(v.hypervisor)
BY ManifestAssumption DEF Fitting, Shim, Places

-----------------------------------------------------------------------------
(* The invariant *)

\* Beside the files: what is being done was not refused, what is still to come was
\* sent by labctl, and neither asks more of a node than fits it.
ClusterInv ==
  /\ req \in [Operators -> Requests \cup {None}]
  /\ pc \in [Operators -> {"idle", "confirm", "run", "status"}]
  /\ rc \in [Operators -> {None, 0, 1, 130}]
  /\ calls \in Nat
  /\ \A o \in Operators : pc[o] # "idle" => req[o] \in Requests /\ ~Refused(req[o])
  /\ late \subseteq Sent
  /\ FilesOK

LEMMA ClusterInit == Init => ClusterInv
<1> SUFFICES ASSUME Init PROVE ClusterInv
  OBVIOUS
<1>1. NoHa \in HaFiles
  BY DEF NoHa, HaFiles
<1>2. \A S : <<>> \in Seq(S)
  OBVIOUS
<1>3. FilesOK
  BY <1>1, <1>2 DEF Init, FilesOK
<1> QED
  BY <1>3 DEF Init, ClusterInv

LEMMA ClusterStep == ClusterInv /\ [Next]_vars => ClusterInv'
<1> SUFFICES ASSUME ClusterInv, [Next]_vars PROVE ClusterInv'
  OBVIOUS
<1>1. ASSUME NEW o \in Operators, NEW r \in Requests, Call(o, r) PROVE ClusterInv'
  <2>1. FilesOK'
    BY <1>1 DEF Call, machines, ClusterInv, FilesOK
  <2> QED
    BY <1>1, <2>1 DEF Call, machines, ClusterInv, Exit, Goto
<1>2. ASSUME NEW o \in Operators, NEW yes \in BOOLEAN, Answer(o, yes) PROVE ClusterInv'
  <2>1. FilesOK'
    BY <1>2 DEF Answer, machines, ClusterInv, FilesOK
  <2> QED
    BY <1>2, <2>1 DEF Answer, ClusterInv, Exit, Goto
<1>3. ASSUME NEW o \in Operators, RunOk(o) PROVE ClusterInv'
  <2>1. Task(req[o]) \in Sent
    BY <1>3, TaskIsSent DEF RunOk, ClusterInv
  <2>2. FilesOK'
    <3>1. PICK e \in Sent : Execute(e.node, e.cmd)
      BY <1>3, <2>1 DEF RunOk
    <3>2. FilesOK
      BY DEF ClusterInv
    <3> QED
      BY <3>1, <3>2, SentFits, ExecuteKeeps
  <2> QED
    BY <1>3, <2>2 DEF RunOk, ClusterInv, Exit, Goto
<1>4. ASSUME NEW o \in Operators, NEW timeout \in BOOLEAN, RunFail(o, timeout)
      PROVE  ClusterInv'
  <2>1. Task(req[o]) \in Sent
    BY <1>4, TaskIsSent DEF RunFail, ClusterInv
  <2>2. FilesOK'
    BY <1>4 DEF RunFail, machines, ClusterInv, FilesOK
  <2> QED
    BY <1>4, <2>1, <2>2 DEF RunFail, ClusterInv, Exit
<1>5. ASSUME NEW o \in Operators, Status(o) PROVE ClusterInv'
  <2>1. FilesOK'
    BY <1>5 DEF Status, machines, ClusterInv, FilesOK
  <2> QED
    BY <1>5, <2>1 DEF Status, ClusterInv, Exit
<1>6. ASSUME NEW o \in Operators, Interrupt(o) PROVE ClusterInv'
  <2>1. Task(req[o]) \in Sent
    BY <1>6, TaskIsSent DEF Interrupt, ClusterInv
  <2>2. FilesOK'
    BY <1>6 DEF Interrupt, machines, ClusterInv, FilesOK
  <2> QED
    BY <1>6, <2>1, <2>2 DEF Interrupt, ClusterInv, Exit
<1>7. ASSUME NEW k \in DOMAIN Manifest.vms, Provision(k) PROVE ClusterInv'
  <2>1. FilesOK'
    <3> DEFINE v == Manifest.vms[k]
    <3>1. PICK op \in {"create", "add"} : Execute(v.hypervisor, Shim(op, v.vmid, Fallback))
      BY <1>7 DEF Provision
    <3>2. v.hypervisor \in Nodes /\ Shim(op, v.vmid, Fallback) \in Fitting(v.hypervisor)
      BY <1>7, ProvisionFits DEF Provision
    <3>3. FilesOK
      BY DEF ClusterInv
    <3> HIDE DEF v
    <3> QED
      BY <3>1, <3>2, <3>3, ExecuteKeeps
  <2>2. UNCHANGED <<req, pc, rc, late>> /\ calls' = calls + 1
    BY <1>7 DEF Provision, labctl
  <2> QED
    BY <2>1, <2>2 DEF ClusterInv
<1>8. ASSUME NEW n \in Nodes, NEW c \in Console, AtConsole(n, c) PROVE ClusterInv'
  <2>1. FilesOK'
    <3> DEFINE d == IF c.op = "add" THEN [c EXCEPT !.node = n] ELSE c
    <3>1. d \in Fitting(n)
      BY ConsoleFits
    <3>2. FilesOK /\ Execute(n, d)
      BY <1>8 DEF AtConsole, ClusterInv
    <3> HIDE DEF d
    <3> QED
      BY <3>1, <3>2, ExecuteKeeps
  <2> QED
    BY <1>8, <2>1 DEF AtConsole, labctl, ClusterInv
<1>9. ASSUME NEW n \in Nodes, Restart(n) PROVE ClusterInv'
  <2>1. \A S : <<>> \in Seq(S)
    OBVIOUS
  <2>2. FilesOK'
    BY <1>9, <2>1 DEF Restart, ClusterInv, FilesOK
  <2> QED
    BY <1>9, <2>2 DEF Restart, labctl, ClusterInv
<1>10. ASSUME NEW e \in late, LateRun(e) PROVE ClusterInv'
  <2>1. e \in Sent
    BY DEF ClusterInv
  <2>2. FilesOK'
    <3>1. FilesOK /\ Execute(e.node, e.cmd)
      BY <1>10 DEF LateRun, ClusterInv
    <3> QED
      BY <2>1, <3>1, SentFits, ExecuteKeeps
  <2> QED
    BY <1>10, <2>2 DEF LateRun, labctl, ClusterInv
<1>11. CASE UNCHANGED vars
  <2>1. FilesOK'
    BY <1>11 DEF vars, machines, ClusterInv, FilesOK
  <2> QED
    BY <1>11, <2>1 DEF vars, labctl, machines, ClusterInv
<1> QED
  BY <1>1, <1>2, <1>3, <1>4, <1>5, <1>6, <1>7, <1>8, <1>9, <1>10, <1>11 DEF Next, Proceed

LEMMA ClusterInvariant == Spec => []ClusterInv
BY ClusterInit, ClusterStep, PTL DEF Spec

\* The shims keep the shape of their files, and labctl is in a known place with a
\* known exit code, for any lab.yaml and any number of operators.
THEOREM TypeCorrect == Spec => []TypeOK
<1>1. HaFiles \subseteq [resources : Seq(HaResources), fenced : SUBSET Nodes]
  BY DEF HaFiles
<1>2. Sent \subseteq [node : Nodes, cmd : [op : {"migrate", "fence", "unfence"},
                                          vmid : VmIds, node : Nodes]]
  BY DEF Sent
<1>3. ClusterInv => TypeOK
  BY <1>1, <1>2 DEF ClusterInv, FilesOK, TypeOK
<1> QED
  BY <1>3, ClusterInvariant, PTL

\* No migration, however late it runs, takes a VM out of the cluster.
THEOREM StaysWithinCluster == Spec => []MovesWithinCluster
<1>1. ASSUME FilesOK PROVE MovesWithinCluster
  <2> SUFFICES ASSUME NEW n \in Nodes, NEW i \in DOMAIN vms[n]
               PROVE  \/ vms[n][i].node = Fallback
                      \/ Owners(Manifest, n) # {} /\ vms[n][i].node \in Member(n)
    BY DEF MovesWithinCluster
  <2>1. vms[n] \in Seq(RecordsOn(Places(n)))
    BY <1>1 DEF FilesOK
  <2>2. vms[n][i] \in RecordsOn(Places(n))
    BY <2>1
  <2> QED
    BY <2>2 DEF RecordsOn, Places
<1>2. ClusterInv => MovesWithinCluster
  BY <1>1 DEF ClusterInv
<1> QED
  BY <1>2, ClusterInvariant, PTL

\* No HA resource is left behind by an unfence, in whatever order operators,
\* consoles and late commands fence and unfence.
THEOREM NoneLeftBehind == Spec => []FencedOnFencedNode
<1>1. ClusterInv => FencedOnFencedNode
  BY DEF ClusterInv, FilesOK, HaFiles, FencedOnFencedNode
<1> QED
  BY <1>1, ClusterInvariant, PTL

\* No step of a drill, and no drill's command that runs late, makes a node call
\* itself fenced.
THEOREM NeverFencesItself == Spec => FencedByItselfAtConsole
<1> DEFINE A == \A n \in Nodes : n \in ha'[n].fenced \ ha[n].fenced =>
                  \E c \in Console : AtConsole(n, c)
<1>1. ClusterInv /\ [Next]_vars => [A]_vars
  <2> SUFFICES ASSUME ClusterInv, Next, NEW n \in Nodes,
                      n \in ha'[n].fenced, n \notin ha[n].fenced
               PROVE  \E c \in Console : AtConsole(n, c)
    BY DEF vars
  <2>1. FilesOK
    BY DEF ClusterInv
  <2>2. ha' # ha
    OBVIOUS
  <2>3. ASSUME NEW e \in Sent, Execute(e.node, e.cmd) PROVE FALSE
    <3>1. n = e.node /\ e.cmd.op = "fence" /\ n = e.cmd.node
      BY <2>1, <2>3, SentFits, ExecuteFences
    <3> QED
      BY <3>1 DEF Sent
  <2>4. ASSUME NEW o \in Operators, RunOk(o) PROVE FALSE
    <3>1. Task(req[o]) \in Sent
      BY <2>4, TaskIsSent DEF RunOk, ClusterInv
    <3> QED
      BY <2>3, <2>4, <3>1 DEF RunOk
  <2>5. ASSUME NEW e \in late, LateRun(e) PROVE FALSE
    BY <2>3, <2>5 DEF LateRun, ClusterInv
  <2>6. ASSUME NEW k \in DOMAIN Manifest.vms, Provision(k) PROVE FALSE
    <3> DEFINE v == Manifest.vms[k]
    <3>1. PICK op \in {"create", "add"} : Execute(v.hypervisor, Shim(op, v.vmid, Fallback))
      BY <2>6 DEF Provision
    <3>2. /\ v.hypervisor \in Nodes /\ Shim(op, v.vmid, Fallback) \in Fitting(v.hypervisor)
          /\ Shim(op, v.vmid, Fallback).op # "fence"
      BY <2>6, ProvisionFits DEF Provision, Shim
    <3> QED
      BY <2>1, <3>1, <3>2, ExecuteFences
  <2>7. ASSUME NEW m \in Nodes, NEW c \in Console, AtConsole(m, c)
        PROVE  \E d \in Console : AtConsole(n, d)
    <3>1. n = m
      BY <2>1, <2>7, ConsoleFits, ExecuteFences DEF AtConsole
    <3> QED
      BY <2>7, <3>1
  <2>8. ASSUME NEW o \in Operators,
               \/ \E r \in Requests : Call(o, r)
               \/ \E yes \in BOOLEAN : Answer(o, yes)
               \/ \E timeout \in BOOLEAN : RunFail(o, timeout)
               \/ Status(o) \/ Interrupt(o)
        PROVE  FALSE
    BY <2>2, <2>8 DEF Call, Answer, RunFail, Status, Interrupt, machines
  <2>9. ASSUME NEW m \in Nodes, Restart(m) PROVE FALSE
    BY <2>2, <2>9 DEF Restart
  <2> QED
    BY <2>4, <2>5, <2>6, <2>7, <2>8, <2>9 DEF Next, Proceed
<1>2. Spec => [][A]_vars
  BY <1>1, ClusterInvariant, PTL DEF Spec
<1> QED
  BY <1>2 DEF FencedByItselfAtConsole
=============================================================================
