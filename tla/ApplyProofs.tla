---------------------------- MODULE ApplyProofs ----------------------------
(***************************************************************************)
(* Proofs about modules Apply and Plan, for every set of manifests, hosts  *)
(* and command lines and any number of runs.                               *)
(***************************************************************************)
EXTENDS Plan, FiniteSetTheorems, WellFoundedInduction, TLAPS

-----------------------------------------------------------------------------
(* The cluster that owns a hypervisor *)

\* A non-empty set of naturals has a least element.
LEMMA LeastElement ==
  ASSUME NEW T, T \subseteq Nat, T # {}
  PROVE  \E x \in T : \A y \in T : x <= y
<1>1. PICK x \in T : \A y \in T : ~ (<<y, x>> \in OpToRel(<, Nat))
  BY NatLessThanWellFounded, WFMin
<1>2. SUFFICES ASSUME NEW y \in T, ~(x <= y) PROVE FALSE
  BY <1>1
<1>3. <<y, x>> \in Nat \X Nat /\ y < x
  BY <1>2
<1>4. <<y, x>> \in OpToRel(<, Nat)
  BY <1>3 DEF OpToRel
<1> QED
  BY <1>1, <1>4

\* A non-empty set of positions of a sequence has a last one.
LEMMA LastPosition ==
  ASSUME NEW n \in Nat, NEW T, T \subseteq 1..n, T # {}
  PROVE  \E x \in T : \A y \in T : y <= x
<1> DEFINE U == {n - i : i \in T}
<1>1. \A i \in T : i \in 1..n /\ n - i \in Nat
  OBVIOUS
<1>2. U \subseteq Nat /\ U # {}
  BY <1>1
<1>3. PICK u \in U : \A w \in U : u <= w
  BY <1>2, LeastElement
<1>4. PICK i \in T : u = n - i
  BY <1>3
<1>5. \A j \in T : n - i <= n - j
  BY <1>3, <1>4
<1> QED
  BY <1>1, <1>5

\* The cluster of a hypervisor that has one lists it among its members.
LEMMA OwnerOwns ==
  ASSUME NEW l \in Labs, NEW h, Owners(l, h) # {}
  PROVE  /\ Cluster(l, h) \in Elements(l.clusters)
         /\ h \in Elements(Cluster(l, h).hypervisors)
<1>1. Owners(l, h) \subseteq 1..Len(l.clusters) /\ Len(l.clusters) \in Nat
  BY LabsAssumption DEF Owners
<1>2. \E i \in Owners(l, h) : \A j \in Owners(l, h) : j <= i
  BY <1>1, LastPosition
<1>3. LastOwner(l, h) \in Owners(l, h)
  BY <1>2 DEF LastOwner
<1> QED
  BY <1>3 DEF Owners, Cluster, Elements

\* In a valid manifest an HA VM is on a Proxmox hypervisor, one of a cluster.
LEMMA HaVmIsClustered ==
  ASSUME NEW l \in Labs, Valid(l), NEW v \in Elements(l.vms), v.ha
  PROVE  /\ l.hvs[v.hypervisor].type = "proxmox"
         /\ \E c \in Elements(l.clusters) :
              c.type = "proxmox" /\ v.hypervisor \in Elements(c.hypervisors)
<1> DEFINE c == Cluster(l, v.hypervisor)
<1>1. Owners(l, v.hypervisor) # {} /\ c.type = "proxmox"
  BY DEF Valid, HaOK
<1>2. c \in Elements(l.clusters) /\ v.hypervisor \in Elements(c.hypervisors)
  BY <1>1, OwnerOwns
<1>3. l.hvs[v.hypervisor].type = c.type
  BY <1>2 DEF Valid, ClustersOK
<1> QED
  BY <1>1, <1>2, <1>3

-----------------------------------------------------------------------------
(* The commands labctl generates for one VM *)

\* Repeating a command n times gives a sequence of n equal commands.
LEMMA RepeatType ==
  ASSUME NEW n \in Nat, NEW S, NEW c \in S
  PROVE  /\ Repeat(n, c) \in Seq(S)
         /\ Len(Repeat(n, c)) = n
         /\ \A i \in 1..n : Repeat(n, c)[i] = c
  BY DEF Repeat

\* A concatenation keeps the first element of its first part, and ends in its
\* second part when that is a single element.
LEMMA ConcatEnds ==
  ASSUME NEW S, NEW s \in Seq(S), NEW t \in Seq(S), Len(s) >= 1
  PROVE  /\ s \o t \in Seq(S)
         /\ Len(s \o t) = Len(s) + Len(t) /\ Len(s \o t) >= 1
         /\ (s \o t)[1] = s[1]
         /\ Len(t) = 1 => (s \o t)[Len(s \o t)] = t[1]
  OBVIOUS

\* A concatenation has the elements of its first part.
LEMMA ConcatHas ==
  ASSUME NEW S, NEW s \in Seq(S), NEW t \in Seq(S), NEW c,
         \E i \in DOMAIN s : s[i] = c
  PROVE  s \o t \in Seq(S) /\ \E i \in DOMAIN (s \o t) : (s \o t)[i] = c
  OBVIOUS

\* A concatenation has the elements of its second part.
LEMMA ConcatHasRight ==
  ASSUME NEW S, NEW s \in Seq(S), NEW t \in Seq(S), NEW c,
         \E i \in DOMAIN t : t[i] = c
  PROVE  s \o t \in Seq(S) /\ \E i \in DOMAIN (s \o t) : (s \o t)[i] = c
<1>1. PICK i \in DOMAIN t : t[i] = c
  OBVIOUS
<1>2. Len(s) + i \in DOMAIN (s \o t) /\ (s \o t)[Len(s) + i] = c
  BY <1>1
<1> QED
  BY <1>2

\* For a Proxmox VM the first command creates it; an HA command comes after it,
\* exists exactly for a VM that is to be HA, and all are about this VM.
LEMMA QmCommandsShape ==
  ASSUME NEW l, NEW v \in VmEntries, DiskStorage(l, v) \in Labels \cup {None}
  PROVE  LET s == QmCommands(l, v)
         IN  /\ s \in Seq(Commands)
             /\ Len(s) >= 1 /\ s[1].op = "create"
             /\ \A i \in DOMAIN s : s[i].vmid = v.vmid /\ s[i].name = v.name
             /\ \A i \in DOMAIN s : s[i].op = "ha_add" => v.ha
             /\ v.ha => s[Len(s)].op = "ha_add"
<1> DEFINE create == Command("create", v, DiskStorage(l, v))
           set    == Command("set", v, None)
           add    == Command("ha_add", v, HaGroup(v))
           Own    == {create, set} \cup (IF v.ha THEN {add} ELSE {})
           s1     == <<create>>
           s2     == Repeat(IF v.iso THEN 2 ELSE 0, set)
           s3     == Repeat(IF v.onboot THEN 1 ELSE 0, set)
           s4     == Repeat(IF v.ha THEN 1 ELSE 0, add)
           s      == s1 \o s2 \o s3 \o s4
<1>1. /\ create \in Commands /\ set \in Commands /\ add \in Commands
      /\ \A c \in Own : c.vmid = v.vmid /\ c.name = v.name
      /\ \A c \in Own : c.op = "ha_add" => v.ha
      /\ create.op = "create" /\ add.op = "ha_add"
  <2>1. HaGroup(v) \in Labels \cup {None} /\ v.vmid \in Nat \cup {None} /\ v.name \in Nat
    BY NamesAssumption DEF HaGroup, VmEntries
  <2>2. create \in Commands /\ set \in Commands /\ add \in Commands
    BY <2>1 DEF Commands, Command
  <2>3. /\ create.vmid = v.vmid /\ create.name = v.name /\ create.op = "create"
        /\ set.vmid = v.vmid /\ set.name = v.name /\ set.op = "set"
        /\ add.vmid = v.vmid /\ add.name = v.name /\ add.op = "ha_add"
    BY DEF Command
  <2> HIDE DEF create, set, add
  <2>4. \A c \in Own : c = create \/ c = set \/ (v.ha /\ c = add)
    OBVIOUS
  <2> QED
    BY <2>2, <2>3, <2>4
<1>2. s1 \in Seq(Own) /\ s2 \in Seq(Own) /\ s3 \in Seq(Own) /\ s1[1] = create /\ Len(s1) = 1
  BY RepeatType
<1>3. s4 \in Seq(Own) /\ (v.ha => Len(s4) = 1 /\ s4[1] = add)
  <2>1. CASE v.ha
    <3>1. s4 = Repeat(1, add) /\ add \in Own
      BY <2>1
    <3> HIDE DEF s4, Own, add
    <3>2. 1 \in Nat /\ 1 \in 1..1
      OBVIOUS
    <3>3. /\ Repeat(1, add) \in Seq(Own) /\ Len(Repeat(1, add)) = 1
          /\ \A i \in 1..1 : Repeat(1, add)[i] = add
      BY <3>1, <3>2, RepeatType
    <3> QED
      BY <3>1, <3>2, <3>3
  <2>2. CASE ~v.ha
    <3>1. s4 = <<>>
      BY <2>2 DEF Repeat
    <3> HIDE DEF s4, Own, add
    <3>2. s4 \in Seq(Own)
      BY <3>1
    <3> QED
      BY <2>2, <3>2
  <2> QED
    BY <2>1, <2>2
<1>4. Own \subseteq Commands
  BY <1>1
<1>5. QmCommands(l, v) = s
  BY DEF QmCommands
<1> HIDE DEF s1, s2, s3, s4, Own, create, set, add
<1>6. s1 \o s2 \in Seq(Own) /\ Len(s1 \o s2) >= 1 /\ (s1 \o s2)[1] = create
  BY <1>2, ConcatEnds
<1>7. s1 \o s2 \o s3 \in Seq(Own) /\ Len(s1 \o s2 \o s3) >= 1 /\ (s1 \o s2 \o s3)[1] = create
  BY <1>2, <1>6, ConcatEnds
<1>8. s \in Seq(Own) /\ Len(s) >= 1 /\ s[1] = create /\ (v.ha => s[Len(s)] = add)
  BY <1>3, <1>7, ConcatEnds
<1> HIDE DEF s
<1>9. s \in Seq(Commands) /\ \A i \in DOMAIN s : s[i] \in Own
  BY <1>4, <1>8
<1> QED
  BY <1>1, <1>5, <1>8, <1>9

\* For a Hyper-V VM some command creates it, no command is about HA, and all are
\* about this VM.
LEMMA HypervCommandsShape ==
  ASSUME NEW l, NEW v \in VmEntries
  PROVE  LET s == HypervCommands(l, v)
         IN  /\ s \in Seq(Commands)
             /\ \E i \in DOMAIN s : s[i].op = "create"
             /\ \A i \in DOMAIN s : /\ s[i].vmid = v.vmid /\ s[i].name = v.name
                                    /\ s[i].op # "ha_add"
<1> DEFINE create == Command("create", v, None)
           set    == Command("set", v, None)
           Own    == {create, set}
           s1     == Repeat(2, set)
           s2     == <<create>>
           s3     == Repeat(1, set)
           s4     == Repeat(IF v.iso THEN 1 ELSE 0, set)
           s5     == Repeat(IF l.nets[v.network] # 0 THEN 1 ELSE 0, set)
           s      == s1 \o s2 \o s3 \o s4 \o s5
<1>1. /\ create.vmid = v.vmid /\ create.name = v.name /\ create.op = "create"
      /\ set.vmid = v.vmid /\ set.name = v.name /\ set.op = "set"
  BY DEF Command
<1>2. v.vmid \in Nat \cup {None} /\ v.name \in Nat
  BY DEF VmEntries
<1>3. create \in Commands /\ set \in Commands
  BY <1>2 DEF Commands, Command
<1>4. /\ s1 \in Seq(Own) /\ s2 \in Seq(Own) /\ s3 \in Seq(Own)
      /\ s4 \in Seq(Own) /\ s5 \in Seq(Own)
  <2>1. create \in Own /\ set \in Own
    OBVIOUS
  <2> HIDE DEF create, set, Own
  <2>2. /\ 1 \in Nat /\ 2 \in Nat /\ (IF v.iso THEN 1 ELSE 0) \in Nat
        /\ (IF l.nets[v.network] # 0 THEN 1 ELSE 0) \in Nat
    OBVIOUS
  <2>3. s1 \in Seq(Own) /\ s3 \in Seq(Own)
    BY <2>1, <2>2, RepeatType
  <2>4. s4 \in Seq(Own) /\ s5 \in Seq(Own)
    BY <2>1, <2>2, RepeatType
  <2> QED
    BY <2>1, <2>3, <2>4
<1>5. HypervCommands(l, v) = s
  BY DEF HypervCommands
<1> DEFINE Has(q) == q \in Seq(Own) /\ \E i \in DOMAIN q : q[i] = create
<1>6. Has(s2)
  <2> HIDE DEF create, set
  <2>1. 1 \in DOMAIN s2 /\ s2[1] = create
    OBVIOUS
  <2> HIDE DEF s2
  <2> QED
    BY <1>4, <2>1
<1> HIDE DEF s1, s2, s3, s4, s5, create, set, Own
<1>7. Has(s1 \o s2)
  <2>1. s1 \in Seq(Own) /\ s2 \in Seq(Own)
    BY <1>4
  <2>2. PICK i \in DOMAIN s2 : s2[i] = create
    BY <1>6
  <2> HIDE DEF Has
  <2>3. s1 \o s2 \in Seq(Own)
    BY <2>1
  <2>4. \E j \in DOMAIN (s1 \o s2) : (s1 \o s2)[j] = create
    BY <2>1, <2>2, ConcatHasRight
  <2> QED
    BY <2>3, <2>4 DEF Has
<1>8. Has(s1 \o s2 \o s3)
  BY <1>4, <1>7, ConcatHas
<1>9. Has(s1 \o s2 \o s3 \o s4)
  BY <1>4, <1>8, ConcatHas
<1>10. Has(s)
  BY <1>4, <1>9, ConcatHas
<1> HIDE DEF s
<1>11. s \in Seq(Commands) /\ \A i \in DOMAIN s : s[i] \in Own
  BY <1>3, <1>10 DEF Own
<1> QED
  BY <1>1, <1>5, <1>10, <1>11 DEF Own

\* What the invariants need to know of the commands of a VM of a valid manifest.
CommandsFit(l, v, s) ==
  /\ s \in Seq(Commands)
  /\ s # <<>> <=> Supported(l, v)
  /\ \A i \in DOMAIN s : s[i].vmid = v.vmid /\ s[i].name = v.name
  /\ \A i \in DOMAIN s : s[i].op = "ha_add" =>
       v.ha /\ \E j \in DOMAIN s : j < i /\ s[j].op = "create"
  /\ Supported(l, v) => \E i \in DOMAIN s : s[i].op = "create"
  /\ Supported(l, v) /\ v.ha => \E i \in DOMAIN s : s[i].op = "ha_add"

\* The commands of every VM of a valid manifest fit, whatever its hypervisor.
LEMMA CommandsShape ==
  ASSUME NEW l \in Labs, Valid(l), NEW k \in DOMAIN l.vms
  PROVE  CommandsFit(l, l.vms[k], GenCreateCommands(l, l.vms[k]))
<1> DEFINE v == l.vms[k]
           s == GenCreateCommands(l, v)
<1>1. v \in VmEntries /\ v \in Elements(l.vms)
  BY LabsAssumption DEF Elements
<1> HIDE DEF v
<1>2. CASE l.hvs[v.hypervisor].type = "proxmox"
  <2>1. DiskStorage(l, v) \in Labels \cup {None}
    BY <1>1, NamesAssumption DEF DiskStorage, VmEntries
  <2>2. s = QmCommands(l, v) /\ Supported(l, v)
    BY <1>2 DEF GenCreateCommands, Supported
  <2> HIDE DEF s
  <2>3. /\ s \in Seq(Commands)
        /\ Len(s) >= 1 /\ s[1].op = "create"
        /\ \A i \in DOMAIN s : s[i].vmid = v.vmid /\ s[i].name = v.name
        /\ \A i \in DOMAIN s : s[i].op = "ha_add" => v.ha
        /\ v.ha => s[Len(s)].op = "ha_add"
    BY <1>1, <2>1, <2>2, QmCommandsShape
  <2>4. 1 \in DOMAIN s /\ Len(s) \in DOMAIN s /\ s # <<>>
    BY <2>3
  <2>5. \A i \in DOMAIN s : s[i].op = "ha_add" => 1 < i
    BY <2>3
  <2> QED
    BY <2>2, <2>3, <2>4, <2>5 DEF CommandsFit, v, s
<1>3. CASE l.hvs[v.hypervisor].type = "hyperv"
  <2>1. s = HypervCommands(l, v) /\ Supported(l, v)
    BY <1>3 DEF GenCreateCommands, Supported
  <2> HIDE DEF s
  <2>2. /\ s \in Seq(Commands)
        /\ \E i \in DOMAIN s : s[i].op = "create"
        /\ \A i \in DOMAIN s : /\ s[i].vmid = v.vmid /\ s[i].name = v.name
                               /\ s[i].op # "ha_add"
    BY <1>1, <2>1, HypervCommandsShape
  <2>3. ~v.ha
    BY <1>1, <1>3, HaVmIsClustered
  <2>4. s # <<>>
    BY <2>2
  <2> QED
    BY <2>1, <2>2, <2>3, <2>4 DEF CommandsFit, v, s
<1>4. CASE l.hvs[v.hypervisor].type \notin {"proxmox", "hyperv"}
  <2>1. s = <<>> /\ ~Supported(l, v)
    BY <1>4 DEF GenCreateCommands, Supported
  <2> QED
    BY <2>1 DEF CommandsFit, v
<1> QED
  BY <1>2, <1>3, <1>4

-----------------------------------------------------------------------------
(* Sequences, and what a command does on its host *)

\* Appending keeps every element in its place and adds the one appended.
LEMMA AppendEffect ==
  ASSUME NEW S, NEW s \in Seq(S), NEW e \in S
  PROVE  LET t == Append(s, e)
         IN  /\ t \in Seq(S)
             /\ \A i \in DOMAIN s : i \in DOMAIN t /\ t[i] = s[i]
             /\ \A i \in DOMAIN t : (i \in DOMAIN s /\ t[i] = s[i]) \/ t[i] = e
             /\ \E i \in DOMAIN t : t[i] = e
<1> DEFINE t == Append(s, e)
<1>1. t \in Seq(S) /\ Len(t) = Len(s) + 1 /\ t[Len(s) + 1] = e
  OBVIOUS
<1>2. \A i \in DOMAIN s : i \in DOMAIN t /\ t[i] = s[i]
  OBVIOUS
<1>3. DOMAIN s = 1..Len(s) /\ DOMAIN t = 1..Len(t) /\ Len(s) \in Nat
  BY <1>1
<1> HIDE DEF t
<1>4. \A i \in DOMAIN t : i \in DOMAIN s \/ i = Len(s) + 1
  BY <1>1, <1>3
<1>5. Len(s) + 1 \in DOMAIN t
  BY <1>1, <1>3
<1> QED
  BY <1>1, <1>2, <1>4, <1>5 DEF t

\* The head of a sequence is its first element, its tail holds the others.
LEMMA TailElements ==
  ASSUME NEW S, NEW s \in Seq(S), s # <<>>
  PROVE  /\ 1 \in DOMAIN s /\ Head(s) = s[1] /\ Head(s) \in S
         /\ Tail(s) \in Seq(S)
         /\ \A i \in DOMAIN Tail(s) : i + 1 \in DOMAIN s /\ Tail(s)[i] = s[i + 1]
         /\ \A i \in DOMAIN s :
              i = 1 \/ (i - 1 \in DOMAIN Tail(s) /\ Tail(s)[i - 1] = s[i])
  OBVIOUS

HaTables == [resources : Seq(HaResources), fenced : {{}}]

\* Adding an HA resource appends it and leaves the fenced nodes alone.
LEMMA HaAddEffect ==
  ASSUME NEW x \in HaTables, NEW vmid, NEW group, NEW node,
         HaResource(vmid, group, node) \in HaResources
  PROVE  /\ HaAdd(x, vmid, group, node) \in HaTables
         /\ HaAdd(x, vmid, group, node).resources
              = Append(x.resources, HaResource(vmid, group, node))
<1> DEFINE res == HaResource(vmid, group, node)
           y   == Append(x.resources, res)
<1>1. HaAdd(x, vmid, group, node) = [x EXCEPT !.resources = y]
  BY DEF HaAdd
<1>2. x.resources \in Seq(HaResources)
  BY DEF HaTables
<1>3. y \in Seq(HaResources)
  BY <1>2, AppendEffect
<1> HIDE DEF y, res
<1>4. [x EXCEPT !.resources = y] \in HaTables /\ [x EXCEPT !.resources = y].resources = y
  BY <1>3 DEF HaTables
<1> QED
  BY <1>1, <1>4 DEF y, res

\* Carrying out a command keeps the types of what the hosts store.
LEMMA ExecuteType ==
  ASSUME vms \in [Hosts -> Seq(VmRecords)], ha \in [Hosts -> HaTables],
         NEW h \in Hosts, NEW c \in Commands, Execute(h, c)
  PROVE  vms' \in [Hosts -> Seq(VmRecords)] /\ ha' \in [Hosts -> HaTables]
<1> DEFINE rec == VmRecord(c.vmid, c.name, c.arg, "created", NodeOf[h])
           tab == HaAdd(ha[h], c.vmid, c.arg, NodeOf[h])
<1>1. rec \in VmRecords /\ HaResource(c.vmid, c.arg, NodeOf[h]) \in HaResources
  BY NamesAssumption DEF VmRecords, HaResources, VmRecord, HaResource, Commands
<1>2. /\ vms' = IF c.op = "create" THEN [vms EXCEPT ![h] = Append(@, rec)] ELSE vms
      /\ ha' = IF c.op = "ha_add" THEN [ha EXCEPT ![h] = tab] ELSE ha
  BY DEF Execute, QmCreate
<1>3. ha[h] \in HaTables
  OBVIOUS
<1>4. tab \in HaTables
  BY <1>1, <1>3, HaAddEffect
<1> HIDE DEF rec, tab
<1>5. Append(vms[h], rec) \in Seq(VmRecords)
  BY <1>1, AppendEffect
<1>6. vms' \in [Hosts -> Seq(VmRecords)]
  BY <1>2, <1>5
<1>7. ha' \in [Hosts -> HaTables]
  BY <1>2, <1>4
<1> QED
  BY <1>6, <1>7

\* Carrying out a create on h keeps every VM record in its place and adds one
\* on h, of the VM the command is about; no other command touches the records.
LEMMA ExecuteVms ==
  ASSUME vms \in [Hosts -> Seq(VmRecords)],
         NEW h \in Hosts, NEW c \in Commands, Execute(h, c)
  PROVE  /\ \A g \in Hosts : \A i \in DOMAIN vms[g] :
              i \in DOMAIN vms'[g] /\ vms'[g][i] = vms[g][i]
         /\ \A g \in Hosts : \A i \in DOMAIN vms'[g] :
              \/ i \in DOMAIN vms[g] /\ vms'[g][i] = vms[g][i]
              \/ /\ g = h /\ c.op = "create"
                 /\ vms'[g][i].vmid = c.vmid /\ vms'[g][i].name = c.name
         /\ c.op = "create" =>
              \E i \in DOMAIN vms'[h] :
                vms'[h][i].vmid = c.vmid /\ vms'[h][i].name = c.name
<1> DEFINE rec == VmRecord(c.vmid, c.name, c.arg, "created", NodeOf[h])
<1>1. rec \in VmRecords /\ rec.vmid = c.vmid /\ rec.name = c.name
  BY NamesAssumption DEF VmRecords, VmRecord, Commands
<1>2. vms' = IF c.op = "create" THEN [vms EXCEPT ![h] = Append(@, rec)] ELSE vms
  BY DEF Execute, QmCreate
<1> HIDE DEF rec
<1>3. CASE c.op = "create"
  <2>1. vms'[h] = Append(vms[h], rec) /\ \A g \in Hosts : g # h => vms'[g] = vms[g]
    BY <1>2, <1>3
  <2>2. /\ \A i \in DOMAIN vms[h] : i \in DOMAIN vms'[h] /\ vms'[h][i] = vms[h][i]
        /\ \A i \in DOMAIN vms'[h] :
             (i \in DOMAIN vms[h] /\ vms'[h][i] = vms[h][i]) \/ vms'[h][i] = rec
        /\ \E i \in DOMAIN vms'[h] : vms'[h][i] = rec
    BY <1>1, <2>1, AppendEffect
  <2> QED
    BY <1>1, <1>3, <2>1, <2>2
<1>4. CASE c.op # "create"
  BY <1>2, <1>4
<1> QED
  BY <1>3, <1>4

\* Carrying out an HA command on h keeps every HA resource in its place and adds
\* one on h; no other command touches the resources.
LEMMA ExecuteHa ==
  ASSUME ha \in [Hosts -> HaTables], NEW h \in Hosts, NEW c \in Commands, Execute(h, c)
  PROVE  /\ \A g \in Hosts : \A i \in DOMAIN ha[g].resources :
              /\ i \in DOMAIN ha'[g].resources
              /\ ha'[g].resources[i] = ha[g].resources[i]
         /\ \A g \in Hosts : \A i \in DOMAIN ha'[g].resources :
              \/ /\ i \in DOMAIN ha[g].resources
                 /\ ha'[g].resources[i] = ha[g].resources[i]
              \/ g = h /\ c.op = "ha_add" /\ ha'[g].resources[i].vmid = c.vmid
         /\ c.op = "ha_add" =>
              \E i \in DOMAIN ha'[h].resources : ha'[h].resources[i].vmid = c.vmid
<1> DEFINE res == HaResource(c.vmid, c.arg, NodeOf[h])
           tab == HaAdd(ha[h], c.vmid, c.arg, NodeOf[h])
<1>1. res \in HaResources /\ res.vmid = c.vmid
  BY NamesAssumption DEF HaResources, HaResource, Commands
<1>2. ha' = IF c.op = "ha_add" THEN [ha EXCEPT ![h] = tab] ELSE ha
  BY DEF Execute
<1>3. ha[h] \in HaTables /\ ha[h].resources \in Seq(HaResources)
  BY DEF HaTables
<1> HIDE DEF res
<1>4. tab.resources = Append(ha[h].resources, res)
  BY <1>1, <1>3, HaAddEffect DEF res
<1> HIDE DEF tab
<1>5. CASE c.op = "ha_add"
  <2>1. /\ ha'[h].resources = Append(ha[h].resources, res)
        /\ \A g \in Hosts : g # h => ha'[g] = ha[g]
    BY <1>2, <1>4, <1>5
  <2>2. /\ \A i \in DOMAIN ha[h].resources :
             i \in DOMAIN ha'[h].resources /\ ha'[h].resources[i] = ha[h].resources[i]
        /\ \A i \in DOMAIN ha'[h].resources :
             \/ i \in DOMAIN ha[h].resources /\ ha'[h].resources[i] = ha[h].resources[i]
             \/ ha'[h].resources[i] = res
        /\ \E i \in DOMAIN ha'[h].resources : ha'[h].resources[i] = res
    BY <1>1, <1>3, <2>1, AppendEffect
  <2> QED
    BY <1>1, <1>5, <2>1, <2>2
<1>6. CASE c.op # "ha_add"
  BY <1>2, <1>6
<1> QED
  BY <1>5, <1>6

-----------------------------------------------------------------------------
(* Types *)

AbandonedCommands == [run : Nat, host : Hosts, cmd : Commands]

HostsType == vms \in [Hosts -> Seq(VmRecords)] /\ ha \in [Hosts -> HaTables]

\* What goes with the phase of a run: commands are only there while it executes
\* and are of a known host, and a run that got past `validate` (or that exited
\* with 0) is of a valid manifest.
LabctlType ==
  /\ lab \in Labs
  /\ args \in Invocations \cup {None}
  /\ pc \in {"idle", "confirm", "exec"}
  /\ todo \subseteq DOMAIN lab.vms
  /\ host \in Hosts \cup {None}
  /\ cmds \in Seq(Commands)
  /\ failed \in BOOLEAN
  /\ rc \in Codes
  /\ runs \in Nat
  /\ pc # "idle" => args \in Invocations /\ Valid(lab)
  /\ rc = 0 => Valid(lab)
  /\ cmds # <<>> => pc = "exec" /\ host \in Hosts

TypeInv == LabctlType /\ HostsType /\ late \subseteq AbandonedCommands

\* The invariant contains the type invariant of module Apply.
LEMMA TypeInvTypes == TypeInv => TypeOK
  BY DEF TypeInv, LabctlType, HostsType, HaTables, AbandonedCommands, TypeOK

\* The first state is of the right type.
LEMMA TypeInvInit == Init => TypeInv
<1> SUFFICES ASSUME Init PROVE TypeInv
  OBVIOUS
<1>1. LabctlType
  <2>1. None # 0
    BY NoneAssumption
  <2>2. <<>> \in Seq(Commands)
    OBVIOUS
  <2> QED
    BY <2>1, <2>2 DEF Init, LabctlType, Codes
<1>2. NoHa \in HaTables /\ <<>> \in Seq(VmRecords)
  BY DEF NoHa, HaTables
<1>3. HostsType
  BY <1>2 DEF Init, HostsType
<1> QED
  BY <1>1, <1>3 DEF Init, TypeInv

\* A VM of a valid manifest is on one of the hosts.
LEMMA PlacedOnHost ==
  ASSUME NEW l \in Labs, Valid(l), NEW k \in DOMAIN l.vms
  PROVE  l.vms[k].hypervisor \in Hosts
  BY LabsAssumption DEF Valid, PlacementOK, Elements

\* What a run gives up on is recorded with its host.
LEMMA AbandonedType ==
  ASSUME LabctlType, cmds # <<>>
  PROVE  Abandoned \in AbandonedCommands
<1>1. Head(cmds) \in Commands
  BY TailElements DEF LabctlType
<1> QED
  BY <1>1 DEF LabctlType, Abandoned, AbandonedCommands

\* Ending a run and starting to execute keep the types of labctl's variables.
LEMMA ExitType ==
  ASSUME LabctlType, NEW code \in {1, 130}, Exit(code),
         lab' = lab, args' \in Invocations \cup {None}, failed' \in BOOLEAN, runs' \in Nat
  PROVE  LabctlType'
  BY DEF LabctlType, Exit, Codes

LEMMA ExitOkType ==
  ASSUME LabctlType, Exit(0), Valid(lab),
         lab' = lab, args' \in Invocations \cup {None}, failed' \in BOOLEAN, runs' \in Nat
  PROVE  LabctlType'
  BY DEF LabctlType, Exit, Codes

LEMMA StartType ==
  ASSUME LabctlType, NEW a \in Invocations, Start(a), Valid(lab), cmds = <<>>,
         lab' = lab, args' = a, failed' \in BOOLEAN, runs' \in Nat
  PROVE  LabctlType'
<1>1. Targets(lab, a.hypervisor) \subseteq DOMAIN lab.vms
  BY DEF Targets
<1> QED
  BY <1>1 DEF LabctlType, Start

\* A step of labctl keeps the types of its variables.
LEMMA LabctlTypeStep ==
  ASSUME TypeInv, Next \/ UNCHANGED vars
  PROVE  LabctlType'
<1>1. LabctlType
  BY DEF TypeInv
<1>2. ASSUME NEW a \in Invocations, Invoke(a) PROVE LabctlType'
  <2>1. /\ lab' = lab /\ args' = a /\ args' \in Invocations \cup {None}
        /\ failed' \in BOOLEAN /\ runs' \in Nat /\ pc = "idle"
    <3>1. lab' = lab /\ args' = a /\ failed' = FALSE /\ runs' = runs + 1 /\ pc = "idle"
      BY <1>2 DEF Invoke
    <3>2. runs \in Nat
      BY <1>1 DEF LabctlType
    <3>3. runs' \in Nat
      BY <3>1, <3>2
    <3> QED
      BY <3>1, <3>3, Zenon
  <2>2. cmds = <<>>
    BY <1>1, <2>1 DEF LabctlType
  <2>3. CASE ~Valid(lab) /\ Exit(1)
    BY <1>1, <2>1, <2>3, ExitType
  <2>4. CASE Valid(lab) /\ Exit(0)
    BY <1>1, <2>1, <2>4, ExitOkType
  <2>5. CASE Valid(lab) /\ pc' = "confirm" /\ UNCHANGED <<todo, host, cmds, rc>>
    BY <1>1, <2>1, <2>2, <2>5 DEF LabctlType
  <2>6. CASE Valid(lab) /\ Start(a)
    BY <1>1, <2>1, <2>2, <2>6, StartType
  <2> QED
    BY <1>2, <2>3, <2>4, <2>5, <2>6 DEF Invoke
<1>3. ASSUME NEW yes \in BOOLEAN, Answer(yes) PROVE LabctlType'
  <2>1. /\ lab' = lab /\ args' = args /\ failed' \in BOOLEAN /\ runs' \in Nat
        /\ args \in Invocations /\ Valid(lab) /\ cmds = <<>>
    BY <1>1, <1>3 DEF Answer, LabctlType
  <2>2. Start(args) \/ Exit(1)
    BY <1>3 DEF Answer
  <2> QED
    BY <1>1, <2>1, <2>2, ExitType, StartType
<1>4. ASSUME NEW k \in todo, TakeVm(k) PROVE LabctlType'
  <2> DEFINE new == GenCreateCommands(lab, lab.vms[k])
  <2>1. pc = "exec" /\ k \in DOMAIN lab.vms /\ lab \in Labs /\ Valid(lab)
    BY <1>1, <1>4 DEF TakeVm, LabctlType
  <2>2. new \in Seq(Commands) /\ lab.vms[k].hypervisor \in Hosts
    BY <2>1, CommandsShape, PlacedOnHost DEF CommandsFit
  <2> HIDE DEF new
  <2>3. UNCHANGED <<lab, args, failed, runs>>
    BY <1>4 DEF TakeVm
  <2>4. CASE todo' = todo \ {k} /\ UNCHANGED <<pc, host, cmds, rc>>
    BY <1>1, <2>1, <2>3, <2>4 DEF LabctlType
  <2>5. CASE /\ todo' = todo \ {k} /\ UNCHANGED <<pc, rc>>
             /\ host' = lab.vms[k].hypervisor /\ cmds' = new
    BY <1>1, <2>1, <2>2, <2>3, <2>5 DEF LabctlType
  <2>6. CASE Exit(1)
    BY <1>1, <2>3, <2>6, ExitType DEF LabctlType
  <2> QED
    BY <1>4, <2>4, <2>5, <2>6 DEF TakeVm, SkipVm, new
<1>5. CASE RunOk
  <2>1. Tail(cmds) \in Seq(Commands) /\ host \in Hosts /\ pc = "exec"
    BY <1>1, <1>5, TailElements DEF RunOk, LabctlType
  <2> QED
    BY <1>1, <1>5, <2>1 DEF RunOk, LabctlType
<1>6. ASSUME NEW timeout \in BOOLEAN, RunFail(timeout) PROVE LabctlType'
  <2>1. Tail(cmds) \in Seq(Commands) /\ host \in Hosts /\ pc = "exec"
    BY <1>1, <1>6, TailElements DEF RunFail, LabctlType
  <2>2. UNCHANGED <<lab, args, runs>> /\ failed' = TRUE
    BY <1>6 DEF RunFail
  <2>3. CASE Exit(1)
    BY <1>1, <2>2, <2>3, ExitType DEF LabctlType
  <2>4. CASE cmds' = Tail(cmds) /\ UNCHANGED <<pc, rc, todo, host>>
    BY <1>1, <2>1, <2>2, <2>4 DEF LabctlType
  <2> QED
    BY <1>6, <2>3, <2>4 DEF RunFail
<1>7. CASE Complete
  <2>1. UNCHANGED <<lab, args, failed, runs>> /\ Valid(lab)
    BY <1>1, <1>7 DEF Complete, LabctlType
  <2>2. Exit(0) \/ Exit(1)
    BY <1>7 DEF Complete
  <2> QED
    BY <1>1, <2>1, <2>2, ExitType, ExitOkType DEF LabctlType
<1>8. CASE Interrupt
  <2>1. UNCHANGED <<lab, args, failed, runs>> /\ Exit(130)
    BY <1>8 DEF Interrupt
  <2> QED
    BY <1>1, <2>1, ExitType DEF LabctlType
<1>9. CASE UNCHANGED <<lab, runner>>
  BY <1>1, <1>9 DEF LabctlType, runner
<1> QED
  BY <1>2, <1>3, <1>4, <1>5, <1>6, <1>7, <1>8, <1>9 DEF Next, Proceed, LateRun, vars

\* A step keeps the types of what the hosts store and of what they may still do.
LEMMA HostsTypeStep ==
  ASSUME TypeInv, Next \/ UNCHANGED vars
  PROVE  HostsType' /\ late' \subseteq AbandonedCommands
<1>1. LabctlType /\ HostsType /\ late \subseteq AbandonedCommands
  BY DEF TypeInv
<1>2. ASSUME NEW h \in Hosts, NEW c \in Commands, Execute(h, c) PROVE HostsType'
  BY <1>1, <1>2, ExecuteType DEF HostsType
<1>3. ASSUME UNCHANGED hypervisors PROVE HostsType'
  BY <1>1, <1>3 DEF HostsType, hypervisors
<1>4. CASE RunOk
  <2>1. Head(cmds) \in Commands /\ host \in Hosts
    BY <1>1, <1>4, TailElements DEF RunOk, LabctlType
  <2> QED
    BY <1>1, <1>2, <1>4, <2>1 DEF RunOk
<1>5. ASSUME NEW e \in late, LateRun(e)
      PROVE  HostsType' /\ late' \subseteq AbandonedCommands
  <2>1. e.host \in Hosts /\ e.cmd \in Commands
    BY <1>1 DEF AbandonedCommands
  <2> QED
    BY <1>1, <1>2, <1>5, <2>1 DEF LateRun
<1>6. CASE UNCHANGED hypervisors /\ UNCHANGED late
  BY <1>1, <1>3, <1>6
<1>7. CASE UNCHANGED hypervisors /\ cmds # <<>> /\ late' = late \cup {Abandoned}
  BY <1>1, <1>3, <1>7, AbandonedType
<1> QED
  BY <1>4, <1>5, <1>6, <1>7
     DEF Next, Proceed, Invoke, Answer, TakeVm, RunFail, Complete, Interrupt, vars

\* Every step keeps the invariant.
LEMMA TypeInvStep == TypeInv /\ [Next]_vars => TypeInv'
  BY LabctlTypeStep, HostsTypeStep DEF TypeInv

\* Every variable of every run of labctl stays within its type.
THEOREM Typing == Spec => []TypeOK
<1>1. Spec => []TypeInv
  BY TypeInvInit, TypeInvStep, PTL DEF Spec
<1> QED
  BY <1>1, TypeInvTypes, PTL

-----------------------------------------------------------------------------
(* What stands on a host comes from the manifest *)

\* A VM entry of the (valid) manifest has this vmid and name and is to be on h.
OfVm(l, h, vmid, name) ==
  /\ Valid(l)
  /\ \E k \in DOMAIN l.vms : /\ l.vms[k].hypervisor = h
                           /\ l.vms[k].vmid = vmid /\ l.vms[k].name = name

FromManifest(l, h, c) ==
  OfVm(l, h, c.vmid, c.name) /\ (c.op = "ha_add" => Clustered(l, h))

\* Every record and every HA resource, and every command that may still add one,
\* is of a VM entry of the manifest and on the hypervisor of that entry.
OriginInv ==
  /\ \A h \in Hosts : \A i \in DOMAIN vms[h] : OfVm(lab, h, vms[h][i].vmid, vms[h][i].name)
  /\ \A h \in Hosts : \A i \in DOMAIN ha[h].resources : Clustered(lab, h)
  /\ \A i \in DOMAIN cmds : FromManifest(lab, host, cmds[i])
  /\ \A e \in late : FromManifest(lab, e.host, e.cmd)

\* Nobody edits the manifest.
LEMMA LabStays == Next \/ UNCHANGED vars => lab' = lab
  BY DEF Next, Proceed, Invoke, Answer, TakeVm, RunOk, RunFail, Complete, Interrupt,
         LateRun, vars

LEMMA OriginInit == Init => OriginInv
  BY DEF Init, OriginInv, NoHa

\* The commands of a VM of a valid manifest come from it.
LEMMA NewFromManifest ==
  ASSUME lab \in Labs, Valid(lab), NEW k \in DOMAIN lab.vms,
         NEW i \in DOMAIN GenCreateCommands(lab, lab.vms[k])
  PROVE  FromManifest(lab, lab.vms[k].hypervisor, GenCreateCommands(lab, lab.vms[k])[i])
<1> DEFINE v == lab.vms[k]
           s == GenCreateCommands(lab, v)
<1>1. CommandsFit(lab, v, s) /\ v \in Elements(lab.vms)
  BY CommandsShape DEF Elements
<1>2. s[i].vmid = v.vmid /\ s[i].name = v.name /\ (s[i].op = "ha_add" => v.ha)
  BY <1>1 DEF CommandsFit
<1>3. OfVm(lab, v.hypervisor, s[i].vmid, s[i].name)
  BY <1>2 DEF OfVm
<1>4. v.ha => Clustered(lab, v.hypervisor)
  BY <1>1, HaVmIsClustered DEF Clustered
<1> QED
  BY <1>2, <1>3, <1>4 DEF FromManifest

\* Carrying out a command that comes from the manifest keeps what stands on the
\* hosts in it.
LEMMA ExecuteOrigin ==
  ASSUME HostsType, lab' = lab, NEW h \in Hosts, NEW c \in Commands, Execute(h, c),
         FromManifest(lab, h, c),
         \A g \in Hosts : \A i \in DOMAIN vms[g] : OfVm(lab, g, vms[g][i].vmid, vms[g][i].name),
         \A g \in Hosts : \A i \in DOMAIN ha[g].resources : Clustered(lab, g)
  PROVE  /\ \A g \in Hosts : \A i \in DOMAIN vms'[g] :
              OfVm(lab, g, vms'[g][i].vmid, vms'[g][i].name)
         /\ \A g \in Hosts : \A i \in DOMAIN ha'[g].resources : Clustered(lab, g)
<1>1. ASSUME NEW g \in Hosts, NEW i \in DOMAIN vms'[g]
      PROVE  OfVm(lab, g, vms'[g][i].vmid, vms'[g][i].name)
  <2>1. vms \in [Hosts -> Seq(VmRecords)]
    BY DEF HostsType
  <2>2. \/ i \in DOMAIN vms[g] /\ vms'[g][i] = vms[g][i]
        \/ g = h /\ vms'[g][i].vmid = c.vmid /\ vms'[g][i].name = c.name
    BY <1>1, <2>1, ExecuteVms
  <2> QED
    BY <2>2 DEF FromManifest
<1>2. ASSUME NEW g \in Hosts, NEW i \in DOMAIN ha'[g].resources
      PROVE  Clustered(lab, g)
  <2>1. ha \in [Hosts -> HaTables]
    BY DEF HostsType
  <2>2. i \in DOMAIN ha[g].resources \/ (g = h /\ c.op = "ha_add")
    BY <1>2, <2>1, ExecuteHa
  <2> QED
    BY <2>2 DEF FromManifest
<1> QED
  BY <1>1, <1>2

\* Every step keeps the origin of what stands on the hosts.
LEMMA OriginStep ==
  ASSUME TypeInv, OriginInv, Next \/ UNCHANGED vars
  PROVE  OriginInv'
<1>1. LabctlType /\ HostsType /\ late \subseteq AbandonedCommands /\ lab' = lab
  BY LabStays DEF TypeInv
<1> DEFINE Stored == /\ \A g \in Hosts : \A i \in DOMAIN vms[g] :
                          OfVm(lab, g, vms[g][i].vmid, vms[g][i].name)
                     /\ \A g \in Hosts : \A i \in DOMAIN ha[g].resources : Clustered(lab, g)
           Waiting == \A i \in DOMAIN cmds : FromManifest(lab, host, cmds[i])
           Lost == \A e \in late : FromManifest(lab, e.host, e.cmd)
<1>2. /\ OriginInv <=> Stored /\ Waiting /\ Lost
      /\ OriginInv' <=> Stored' /\ Waiting' /\ Lost'
  BY DEF OriginInv
<1>3. ASSUME UNCHANGED hypervisors PROVE Stored'
  BY <1>1, <1>2, <1>3 DEF hypervisors
<1>4. ASSUME NEW h \in Hosts, NEW c \in Commands, Execute(h, c), FromManifest(lab, h, c)
      PROVE  Stored'
  BY <1>1, <1>2, <1>4, ExecuteOrigin
<1>5. ASSUME cmds # <<>>
      PROVE  /\ Head(cmds) \in Commands /\ FromManifest(lab, host, Head(cmds)) /\ host \in Hosts
             /\ \A i \in DOMAIN Tail(cmds) : FromManifest(lab, host, Tail(cmds)[i])
  BY <1>1, <1>2, <1>5, TailElements DEF LabctlType
<1>6. ASSUME UNCHANGED late PROVE Lost'
  BY <1>1, <1>2, <1>6
<1>7. ASSUME cmds # <<>>, late' = late \cup {Abandoned} PROVE Lost'
  BY <1>1, <1>2, <1>5, <1>7 DEF Abandoned
<1>8. ASSUME cmds' = <<>> PROVE Waiting'
  BY <1>8
<1>9. ASSUME UNCHANGED <<host, cmds>> PROVE Waiting'
  BY <1>1, <1>2, <1>9
<1>10. ASSUME cmds # <<>>, cmds' = Tail(cmds), UNCHANGED host PROVE Waiting'
  BY <1>1, <1>5, <1>10
<1> HIDE DEF Stored, Waiting, Lost
<1>11. ASSUME NEW a \in Invocations, Invoke(a) PROVE OriginInv'
  <2>1. UNCHANGED hypervisors /\ UNCHANGED late
    BY <1>11 DEF Invoke
  <2>2. UNCHANGED <<host, cmds>> \/ cmds' = <<>>
    BY <1>11 DEF Invoke, Exit, Start
  <2> QED
    BY <1>2, <1>3, <1>6, <1>8, <1>9, <2>1, <2>2
<1>12. ASSUME NEW yes \in BOOLEAN, Answer(yes) PROVE OriginInv'
  <2>1. UNCHANGED hypervisors /\ UNCHANGED late
    BY <1>12 DEF Answer
  <2>2. UNCHANGED <<host, cmds>> \/ cmds' = <<>>
    BY <1>12 DEF Answer, Exit, Start
  <2> QED
    BY <1>2, <1>3, <1>6, <1>8, <1>9, <2>1, <2>2
<1>13. ASSUME NEW k \in todo, TakeVm(k) PROVE OriginInv'
  <2>1. UNCHANGED hypervisors /\ UNCHANGED late /\ pc = "exec"
    BY <1>13 DEF TakeVm
  <2>2. lab \in Labs /\ Valid(lab) /\ k \in DOMAIN lab.vms
    BY <1>1, <2>1 DEF LabctlType
  <2>3. \/ UNCHANGED <<host, cmds>> \/ cmds' = <<>>
        \/ /\ host' = lab.vms[k].hypervisor
           /\ cmds' = GenCreateCommands(lab, lab.vms[k])
    BY <1>13 DEF TakeVm, SkipVm, Exit
  <2>4. ASSUME host' = lab.vms[k].hypervisor, cmds' = GenCreateCommands(lab, lab.vms[k])
        PROVE  Waiting'
    BY <1>1, <2>2, <2>4, NewFromManifest DEF Waiting
  <2> QED
    BY <1>2, <1>3, <1>6, <1>8, <1>9, <2>1, <2>3, <2>4
<1>14. CASE RunOk
  <2>1. Execute(host, Head(cmds)) /\ cmds # <<>> /\ cmds' = Tail(cmds)
        /\ UNCHANGED host /\ UNCHANGED late
    BY <1>14 DEF RunOk
  <2> QED
    BY <1>2, <1>4, <1>5, <1>6, <1>10, <2>1
<1>15. ASSUME NEW timeout \in BOOLEAN, RunFail(timeout) PROVE OriginInv'
  <2>1. UNCHANGED hypervisors /\ cmds # <<>>
        /\ (UNCHANGED late \/ late' = late \cup {Abandoned})
        /\ ((cmds' = Tail(cmds) /\ UNCHANGED host) \/ cmds' = <<>>)
    BY <1>15 DEF RunFail, Exit
  <2> QED
    BY <1>2, <1>3, <1>6, <1>7, <1>8, <1>10, <2>1
<1>16. CASE Complete
  BY <1>2, <1>3, <1>6, <1>8, <1>16 DEF Complete, Exit
<1>17. CASE Interrupt
  <2>1. UNCHANGED hypervisors /\ cmds' = <<>>
        /\ (UNCHANGED late \/ (cmds # <<>> /\ late' = late \cup {Abandoned}))
    BY <1>17 DEF Interrupt, Exit
  <2> QED
    BY <1>2, <1>3, <1>6, <1>7, <1>8, <2>1
<1>18. ASSUME NEW e \in late, LateRun(e) PROVE OriginInv'
  <2>1. Execute(e.host, e.cmd) /\ late' = late \ {e} /\ UNCHANGED <<host, cmds>>
    BY <1>18 DEF LateRun, runner
  <2>2. e.host \in Hosts /\ e.cmd \in Commands /\ FromManifest(lab, e.host, e.cmd)
    BY <1>1, <1>2 DEF AbandonedCommands, Lost
  <2>3. Lost'
    BY <1>1, <1>2, <2>1 DEF Lost
  <2> QED
    BY <1>2, <1>4, <1>9, <2>1, <2>2, <2>3
<1>19. CASE UNCHANGED vars
  <2>1. UNCHANGED hypervisors /\ UNCHANGED late /\ UNCHANGED <<host, cmds>>
    BY <1>19 DEF vars, runner
  <2> QED
    BY <1>2, <1>3, <1>6, <1>9, <2>1
<1> QED
  BY <1>11, <1>12, <1>13, <1>14, <1>15, <1>16, <1>17, <1>18, <1>19 DEF Next, Proceed

\* Types and origins hold in every state of every behaviour.
LEMMA Origins == Spec => [](TypeInv /\ OriginInv)
  BY TypeInvInit, TypeInvStep, OriginInit, OriginStep, PTL DEF Spec

\* In every state a vmid names one VM of the lab, whatever fails or comes late.
THEOREM VmidsNameOneVm == Spec => []VmidNamesOneVm
<1>1. ASSUME OriginInv PROVE VmidNamesOneVm
  <2> SUFFICES ASSUME NEW g \in Hosts, NEW h \in Hosts,
                      NEW i \in DOMAIN vms[g], NEW j \in DOMAIN vms[h],
                      vms[g][i].vmid = vms[h][j].vmid, vms[g][i].vmid # None
               PROVE  g = h /\ vms[g][i].name = vms[h][j].name
    BY DEF VmidNamesOneVm
  <2>1. PICK k \in DOMAIN lab.vms :
          /\ lab.vms[k].hypervisor = g /\ lab.vms[k].vmid = vms[g][i].vmid
          /\ lab.vms[k].name = vms[g][i].name
    BY <1>1 DEF OriginInv, OfVm
  <2>2. PICK l \in DOMAIN lab.vms :
          /\ lab.vms[l].hypervisor = h /\ lab.vms[l].vmid = vms[h][j].vmid
          /\ lab.vms[l].name = vms[h][j].name
    BY <1>1 DEF OriginInv, OfVm
  <2>3. Valid(lab)
    BY <1>1 DEF OriginInv, OfVm
  <2>4. k = l
    BY <2>1, <2>2, <2>3 DEF Valid, VmidsUnique
  <2> QED
    BY <2>1, <2>2, <2>4
<1> QED
  BY <1>1, Origins, PTL

\* In every state HA resources are on members of a Proxmox cluster only.
THEOREM HaStaysInClusters == Spec => []HaOnlyInCluster
<1>1. ASSUME TypeInv, OriginInv PROVE HaOnlyInCluster
  <2> SUFFICES ASSUME NEW h \in Hosts, ha[h].resources # <<>> PROVE Clustered(lab, h)
    BY DEF HaOnlyInCluster
  <2>1. ha[h].resources \in Seq(HaResources)
    BY <1>1 DEF TypeInv, HostsType, HaTables
  <2>2. 1 \in DOMAIN ha[h].resources
    BY <2>1
  <2> QED
    BY <1>1, <2>2 DEF OriginInv
<1> QED
  BY <1>1, Origins, PTL

-----------------------------------------------------------------------------
(* How many records a VM has *)

NoCreate(s) == \A i \in DOMAIN s : s[i].op # "create"

OneCreate(s) == \A i, j \in DOMAIN s : s[i].op = "create" /\ s[j].op = "create" => i = j

LEMMA ConcatCreates ==
  ASSUME NEW S, NEW s \in Seq(S), NEW t \in Seq(S),
         (OneCreate(s) /\ NoCreate(t)) \/ (NoCreate(s) /\ OneCreate(t))
  PROVE  s \o t \in Seq(S) /\ OneCreate(s \o t)
<1> DEFINE q == s \o t
<1>1. q \in Seq(S) /\ Len(s) \in Nat
  OBVIOUS
<1>2. ASSUME NEW i \in DOMAIN q
      PROVE  \/ i \in DOMAIN s /\ q[i] = s[i]
             \/ i - Len(s) \in DOMAIN t /\ q[i] = t[i - Len(s)] /\ i \in Int
  OBVIOUS
<1> HIDE DEF q
<1>3. OneCreate(q)
  BY <1>1, <1>2 DEF OneCreate, NoCreate
<1> QED
  BY <1>1, <1>3 DEF q

LEMMA RepeatNoCreate ==
  ASSUME NEW n \in Nat, NEW S, NEW c \in S, c.op # "create"
  PROVE  Repeat(n, c) \in Seq(S) /\ NoCreate(Repeat(n, c))
  BY DEF Repeat, NoCreate

\* No VM is created by two of its commands.
LEMMA CommandsCreateOnce ==
  ASSUME NEW l, NEW v
  PROVE  OneCreate(GenCreateCommands(l, v))
<1> DEFINE disk == Command("create", v, DiskStorage(l, v))
           bare == Command("create", v, None)
           set  == Command("set", v, None)
           add  == Command("ha_add", v, HaGroup(v))
           S    == {disk, bare, set, add}
<1>1. set.op # "create" /\ add.op # "create"
  BY DEF Command
<1>2. disk \in S /\ bare \in S /\ set \in S /\ add \in S
  OBVIOUS
<1>3. /\ OneCreate(<<disk>>) /\ <<disk>> \in Seq(S)
      /\ OneCreate(<<bare>>) /\ <<bare>> \in Seq(S)
  BY DEF OneCreate
<1> HIDE DEF disk, bare, set, add, S
<1>4. \A n \in Nat : /\ Repeat(n, set) \in Seq(S) /\ NoCreate(Repeat(n, set))
                     /\ Repeat(n, add) \in Seq(S) /\ NoCreate(Repeat(n, add))
  BY <1>1, <1>2, RepeatNoCreate
<1>5. OneCreate(QmCommands(l, v))
  <2> DEFINE s2 == Repeat(IF v.iso THEN 2 ELSE 0, set)
             s3 == Repeat(IF v.onboot THEN 1 ELSE 0, set)
             s4 == Repeat(IF v.ha THEN 1 ELSE 0, add)
  <2>1. /\ s2 \in Seq(S) /\ NoCreate(s2) /\ s3 \in Seq(S) /\ NoCreate(s3)
        /\ s4 \in Seq(S) /\ NoCreate(s4)
    BY <1>4
  <2>2. QmCommands(l, v) = <<disk>> \o s2 \o s3 \o s4
    BY DEF QmCommands, disk, set, add
  <2> HIDE DEF s2, s3, s4
  <2>3. <<disk>> \o s2 \in Seq(S) /\ OneCreate(<<disk>> \o s2)
    BY <1>3, <2>1, ConcatCreates
  <2>4. <<disk>> \o s2 \o s3 \in Seq(S) /\ OneCreate(<<disk>> \o s2 \o s3)
    BY <2>1, <2>3, ConcatCreates
  <2>5. OneCreate(<<disk>> \o s2 \o s3 \o s4)
    BY <2>1, <2>4, ConcatCreates
  <2> QED
    BY <2>2, <2>5
<1>6. OneCreate(HypervCommands(l, v))
  <2> DEFINE s1 == Repeat(2, set)
             s3 == Repeat(1, set)
             s4 == Repeat(IF v.iso THEN 1 ELSE 0, set)
             s5 == Repeat(IF l.nets[v.network] # 0 THEN 1 ELSE 0, set)
  <2>1. /\ s1 \in Seq(S) /\ NoCreate(s1) /\ s3 \in Seq(S) /\ NoCreate(s3)
        /\ s4 \in Seq(S) /\ NoCreate(s4) /\ s5 \in Seq(S) /\ NoCreate(s5)
    BY <1>4
  <2>2. HypervCommands(l, v) = s1 \o <<bare>> \o s3 \o s4 \o s5
    BY DEF HypervCommands, bare, set
  <2> HIDE DEF s1, s3, s4, s5
  <2>3. s1 \o <<bare>> \in Seq(S) /\ OneCreate(s1 \o <<bare>>)
    BY <1>3, <2>1, ConcatCreates
  <2>4. s1 \o <<bare>> \o s3 \in Seq(S) /\ OneCreate(s1 \o <<bare>> \o s3)
    BY <2>1, <2>3, ConcatCreates
  <2>5. s1 \o <<bare>> \o s3 \o s4 \in Seq(S) /\ OneCreate(s1 \o <<bare>> \o s3 \o s4)
    BY <2>1, <2>4, ConcatCreates
  <2>6. OneCreate(s1 \o <<bare>> \o s3 \o s4 \o s5)
    BY <2>1, <2>5, ConcatCreates
  <2> QED
    BY <2>2, <2>6
<1>7. OneCreate(<<>>)
  BY DEF OneCreate
<1> QED
  BY <1>5, <1>6, <1>7 DEF GenCreateCommands

\* The records of a VM on a host, and the creates of it that may still come.
RecordsOf(s, v) == {i \in DOMAIN s : s[i].vmid = v.vmid /\ s[i].name = v.name}

Makes(c, v) == c.op = "create" /\ c.vmid = v.vmid /\ c.name = v.name

CreatesOf(L, v) == {e \in L : Makes(e.cmd, v)}

LEMMA AppendRecords ==
  ASSUME NEW s \in Seq(VmRecords), NEW rec \in VmRecords, NEW v
  PROVE  LET t == Append(s, rec)
         IN  /\ Cardinality(RecordsOf(t, v)) <= Cardinality(RecordsOf(s, v)) + 1
             /\ ~(rec.vmid = v.vmid /\ rec.name = v.name) => RecordsOf(t, v) = RecordsOf(s, v)
<1> DEFINE t == Append(s, rec)
           n == Len(s) + 1
<1>1. /\ Len(s) \in Nat /\ Len(t) = n /\ t[n] = rec /\ DOMAIN s = 1..Len(s)
      /\ DOMAIN t = 1..n /\ \A i \in DOMAIN s : t[i] = s[i]
  OBVIOUS
<1> HIDE DEF t
<1>2. RecordsOf(t, v) \subseteq RecordsOf(s, v) \cup {n}
  BY <1>1 DEF RecordsOf
<1>3. ASSUME ~(rec.vmid = v.vmid /\ rec.name = v.name)
      PROVE  RecordsOf(t, v) = RecordsOf(s, v)
  <2>1. \A i \in DOMAIN t : i \in DOMAIN s \/ i = n
    BY <1>1
  <2>2. DOMAIN s \subseteq DOMAIN t
    BY <1>1
  <2>3. RecordsOf(t, v) \subseteq RecordsOf(s, v)
    BY <1>1, <1>3, <2>1 DEF RecordsOf
  <2>4. RecordsOf(s, v) \subseteq RecordsOf(t, v)
    BY <1>1, <2>2 DEF RecordsOf
  <2> QED
    BY <2>3, <2>4
<1>4. IsFiniteSet(RecordsOf(s, v))
  <2>1. IsFiniteSet(1..Len(s))
    BY <1>1, FS_Interval
  <2>2. RecordsOf(s, v) \in SUBSET (1..Len(s))
    BY <1>1 DEF RecordsOf
  <2> QED
    BY <2>1, <2>2, FS_Subset
<1>5. PICK R : R = RecordsOf(s, v)
  OBVIOUS
<1>6. Cardinality(R) \in Nat /\ IsFiniteSet(R)
  BY <1>4, <1>5, FS_CardinalityType
<1>7. /\ IsFiniteSet(R \cup {n})
      /\ Cardinality(R \cup {n}) = IF n \in R THEN Cardinality(R) ELSE Cardinality(R) + 1
  BY <1>6, FS_AddElement
<1>8. /\ Cardinality(RecordsOf(t, v)) <= Cardinality(R \cup {n})
      /\ Cardinality(RecordsOf(t, v)) \in Nat
  BY <1>2, <1>5, <1>7, FS_Subset, FS_CardinalityType
<1>9. Cardinality(RecordsOf(t, v)) <= Cardinality(R) + 1
  BY <1>6, <1>7, <1>8
<1> QED
  BY <1>3, <1>5, <1>9 DEF t

LEMMA RecordsFinite ==
  ASSUME NEW s \in Seq(VmRecords), NEW v
  PROVE  Cardinality(RecordsOf(s, v)) \in Nat
<1>1. IsFiniteSet(1..Len(s)) /\ RecordsOf(s, v) \in SUBSET (1..Len(s))
  BY FS_Interval DEF RecordsOf
<1> QED
  BY <1>1, FS_Subset, FS_CardinalityType

\* A command adds at most one record of the VM it creates.
LEMMA ExecuteRecords ==
  ASSUME vms \in [Hosts -> Seq(VmRecords)], NEW h \in Hosts, NEW c \in Commands,
         Execute(h, c), NEW g \in Hosts, NEW v
  PROVE  /\ Cardinality(RecordsOf(vms'[g], v)) <= Cardinality(RecordsOf(vms[g], v)) + 1
         /\ ~Makes(c, v) => RecordsOf(vms'[g], v) = RecordsOf(vms[g], v)
<1> DEFINE rec == VmRecord(c.vmid, c.name, c.arg, "created", NodeOf[h])
<1>1. rec \in VmRecords /\ rec.vmid = c.vmid /\ rec.name = c.name
  BY NamesAssumption DEF VmRecords, VmRecord, Commands
<1>2. vms' = IF c.op = "create" THEN [vms EXCEPT ![h] = Append(@, rec)] ELSE vms
  BY DEF Execute, QmCreate
<1> HIDE DEF rec
<1>3. CASE c.op = "create" /\ g = h
  <2>1. vms'[g] = Append(vms[g], rec) /\ vms[g] \in Seq(VmRecords)
    BY <1>2, <1>3
  <2> QED
    BY <1>1, <1>3, <2>1, AppendRecords DEF Makes
<1>4. CASE ~(c.op = "create" /\ g = h)
  <2>1. vms'[g] = vms[g] /\ vms[g] \in Seq(VmRecords)
    BY <1>2, <1>4
  <2> QED
    BY <2>1, RecordsFinite
<1> QED
  BY <1>3, <1>4

\* A command that may come late adds at most one to the creates that may.
LEMMA LateCreates ==
  ASSUME NEW L, IsFiniteSet(L), NEW e, NEW v
  PROVE  /\ Cardinality(CreatesOf(L, v)) \in Nat
         /\ Cardinality(CreatesOf(L \cup {e}, v)) \in Nat
         /\ Cardinality(CreatesOf(L \cup {e}, v)) <= Cardinality(CreatesOf(L, v)) + 1
         /\ ~Makes(e.cmd, v) => CreatesOf(L \cup {e}, v) = CreatesOf(L, v)
         /\ ~Makes(e.cmd, v) => CreatesOf(L \ {e}, v) = CreatesOf(L, v)
         /\ e \in L /\ Makes(e.cmd, v) =>
              Cardinality(CreatesOf(L \ {e}, v)) + 1 = Cardinality(CreatesOf(L, v))
<1>1. PICK C, plus, minus :
        C = CreatesOf(L, v) /\ plus = CreatesOf(L \cup {e}, v) /\ minus = CreatesOf(L \ {e}, v)
  OBVIOUS
<1>2. IsFiniteSet(C)
  BY <1>1, FS_Subset DEF CreatesOf
<1>3. minus = C \ {e} /\ plus \subseteq C \cup {e}
  BY <1>1 DEF CreatesOf
<1>4. ~Makes(e.cmd, v) => plus = C /\ minus = C
  BY <1>1 DEF CreatesOf
<1>5. e \in L /\ Makes(e.cmd, v) => e \in C
  BY <1>1 DEF CreatesOf
<1>6. PICK n, m : n = Cardinality(C) /\ m = Cardinality(C \cup {e}) /\ n \in Nat
  BY <1>2, FS_CardinalityType
<1>7. m = (IF e \in C THEN n ELSE n + 1) /\ IsFiniteSet(C \cup {e})
  BY <1>2, <1>6, FS_AddElement
<1>8. Cardinality(plus) \in Nat /\ Cardinality(plus) <= m
  BY <1>3, <1>6, <1>7, FS_Subset, FS_CardinalityType
<1>9. Cardinality(plus) <= n + 1
  BY <1>6, <1>7, <1>8
<1>10. e \in C => Cardinality(minus) = n - 1
  BY <1>2, <1>3, <1>6, FS_RemoveElement
<1>11. e \in L /\ Makes(e.cmd, v) => Cardinality(minus) + 1 = n
  BY <1>5, <1>6, <1>10
<1> QED
  BY <1>1, <1>4, <1>6, <1>8, <1>9, <1>11

Total(k) ==
  Cardinality(RecordsOf(vms[lab.vms[k].hypervisor], lab.vms[k]))
    + Cardinality(CreatesOf(late, lab.vms[k]))

\* The run in progress has a create of this VM before it.
ToCome(k) == k \in todo \/ \E i \in DOMAIN cmds : Makes(cmds[i], lab.vms[k])

Placed == {k \in DOMAIN lab.vms : lab.vms[k].hypervisor \in Hosts}

Bounded(k) == Total(k) <= runs /\ (pc = "confirm" \/ ToCome(k) => Total(k) < runs)

\* A run has one create of a VM at most, first as a target, then as a command; it
\* becomes a record or one that may come late, at most.
CountInv ==
  /\ IsFiniteSet(late)
  /\ OneCreate(cmds)
  /\ \A k \in todo : \A i \in DOMAIN cmds : ~Makes(cmds[i], lab.vms[k])
  /\ \A k \in Placed : Bounded(k)

LEMMA TotalIsNatural ==
  ASSUME TypeInv, IsFiniteSet(late), NEW k \in Placed
  PROVE  /\ Total(k) \in Nat
         /\ Cardinality(CreatesOf(late, lab.vms[k])) \in Nat
         /\ Cardinality(RecordsOf(vms[lab.vms[k].hypervisor], lab.vms[k])) \in Nat
<1>1. vms[lab.vms[k].hypervisor] \in Seq(VmRecords)
  BY DEF TypeInv, HostsType, Placed
<1>2. PICK n, l : /\ n = Cardinality(RecordsOf(vms[lab.vms[k].hypervisor], lab.vms[k]))
                  /\ l = Cardinality(CreatesOf(late, lab.vms[k]))
  OBVIOUS
<1>3. n \in Nat /\ l \in Nat
  BY <1>1, <1>2, RecordsFinite, LateCreates
<1> QED
  BY <1>2, <1>3 DEF Total

\* What a step may do to the records of a VM.
Grows(k, n) == Total(k)' \in Nat /\ Total(k)' <= Total(k) + n

LEMMA NothingMade ==
  ASSUME TypeInv, IsFiniteSet(late), NEW k \in Placed, lab' = lab, vms' = vms, late' = late
  PROVE  Grows(k, 0)
<1>1. Total(k)' = Total(k)
  BY DEF Total, RecordsOf, CreatesOf, Makes
<1> QED
  BY <1>1, TotalIsNatural DEF Grows

\* A command makes one record at most, of the VM it is a create of.
LEMMA CommandMakes ==
  ASSUME TypeInv, IsFiniteSet(late), NEW k \in Placed, NEW h \in Hosts, NEW c \in Commands,
         lab' = lab, Execute(h, c), late' = late
  PROVE  Grows(k, 1) /\ (~Makes(c, lab.vms[k]) => Grows(k, 0))
<1>1. PICK v, g : v = lab.vms[k] /\ g = v.hypervisor
  OBVIOUS
<1>2. g \in Hosts /\ vms \in [Hosts -> Seq(VmRecords)] /\ ha \in [Hosts -> HaTables]
  BY <1>1 DEF Placed, TypeInv, HostsType
<1>3. vms' \in [Hosts -> Seq(VmRecords)]
  BY <1>2, ExecuteType
<1>4. PICK n, m, l : /\ n = Cardinality(RecordsOf(vms[g], v)) /\ l = Cardinality(CreatesOf(late, v))
                     /\ m = Cardinality(RecordsOf(vms'[g], v))
  OBVIOUS
<1>5. n \in Nat /\ m \in Nat /\ l \in Nat
  BY <1>2, <1>3, <1>4, RecordsFinite, LateCreates
<1>6. m <= n + 1 /\ (~Makes(c, v) => m = n)
  BY <1>2, <1>4, ExecuteRecords
<1>7. Total(k) = n + l /\ Total(k)' = m + l
  <2>1. lab'.vms[k] = v /\ lab'.vms[k].hypervisor = g
    BY <1>1
  <2> QED
    BY <1>1, <1>4, <2>1 DEF Total, RecordsOf, CreatesOf, Makes
<1> QED
  BY <1>1, <1>5, <1>6, <1>7 DEF Grows

\* A command that was given up on may come late.
LEMMA AbandonedMakes ==
  ASSUME TypeInv, IsFiniteSet(late), NEW k \in Placed, NEW e,
         lab' = lab, vms' = vms, late' = late \cup {e}
  PROVE  Grows(k, 1) /\ (~Makes(e.cmd, lab.vms[k]) => Grows(k, 0))
<1>1. PICK v : v = lab.vms[k]
  OBVIOUS
<1>2. PICK n, m, l : /\ n = Cardinality(RecordsOf(vms[v.hypervisor], v))
                     /\ l = Cardinality(CreatesOf(late, v))
                     /\ m = Cardinality(CreatesOf(late \cup {e}, v))
  OBVIOUS
<1>3. n \in Nat
  BY <1>1, <1>2, TotalIsNatural
<1>4. l \in Nat /\ m \in Nat /\ m <= l + 1 /\ (~Makes(e.cmd, v) => m = l)
  BY <1>2, LateCreates
<1>5. Total(k) = n + l /\ Total(k)' = n + m
  BY <1>1, <1>2 DEF Total, RecordsOf, CreatesOf, Makes
<1> QED
  BY <1>1, <1>3, <1>4, <1>5 DEF Grows

\* A command that comes late is no more to come.
LEMMA LateMakes ==
  ASSUME TypeInv, IsFiniteSet(late), NEW k \in Placed, NEW e \in late,
         lab' = lab, Execute(e.host, e.cmd), late' = late \ {e}
  PROVE  Grows(k, 0)
<1>1. PICK v, g : v = lab.vms[k] /\ g = v.hypervisor
  OBVIOUS
<1>2. /\ g \in Hosts /\ vms \in [Hosts -> Seq(VmRecords)] /\ ha \in [Hosts -> HaTables]
      /\ e.host \in Hosts /\ e.cmd \in Commands
  BY <1>1 DEF Placed, TypeInv, HostsType, AbandonedCommands
<1>3. vms' \in [Hosts -> Seq(VmRecords)]
  BY <1>2, ExecuteType
<1>4. PICK n, m : /\ n = Cardinality(RecordsOf(vms[g], v))
                  /\ m = Cardinality(RecordsOf(vms'[g], v))
  OBVIOUS
<1>5. PICK l, r : l = Cardinality(CreatesOf(late, v)) /\ r = Cardinality(CreatesOf(late \ {e}, v))
  OBVIOUS
<1>6. n \in Nat /\ m \in Nat /\ m <= n + 1 /\ (~Makes(e.cmd, v) => m = n)
  BY <1>2, <1>3, <1>4, RecordsFinite, ExecuteRecords
<1>7. l \in Nat /\ r \in Nat /\ (Makes(e.cmd, v) => r + 1 = l) /\ (~Makes(e.cmd, v) => r = l)
  <2>1. IsFiniteSet(late \ {e})
    BY FS_RemoveElement
  <2> QED
    BY <1>5, <2>1, LateCreates
<1>8. Total(k) = n + l /\ Total(k)' = m + r
  <2>1. lab'.vms[k] = v /\ lab'.vms[k].hypervisor = g
    BY <1>1
  <2> QED
    BY <1>1, <1>4, <1>5, <2>1 DEF Total, RecordsOf, CreatesOf, Makes
<1> QED
  BY <1>6, <1>7, <1>8 DEF Grows

LEMMA StaysBounded ==
  ASSUME TypeInv, CountInv, NEW k \in Placed,
         \/ /\ Grows(k, 0) /\ runs' = runs
            /\ pc' = "confirm" \/ ToCome(k)' => pc = "confirm" \/ ToCome(k)
         \/ Grows(k, 1) /\ runs' = runs /\ ToCome(k) /\ ~ToCome(k)' /\ pc' # "confirm"
         \/ Grows(k, 0) /\ runs' = runs + 1
  PROVE  Bounded(k)'
<1>1. runs \in Nat /\ Total(k) \in Nat /\ Bounded(k)
  BY TotalIsNatural DEF TypeInv, LabctlType, CountInv
<1>2. PICK n, m : n = Total(k) /\ m = Total(k)'
  OBVIOUS
<1> QED
  BY <1>1, <1>2 DEF Bounded, Grows

LEMMA CountInit == Init => CountInv
<1> SUFFICES ASSUME Init
             PROVE  CountInv
  OBVIOUS
<1>1. IsFiniteSet(late) /\ cmds = <<>> /\ todo = {} /\ pc = "idle" /\ runs = 0 /\ late = {}
  BY FS_EmptySet DEF Init
<1>2. ASSUME NEW k \in Placed
      PROVE  Bounded(k)
  <2>1. RecordsOf(vms[lab.vms[k].hypervisor], lab.vms[k]) = {} /\ CreatesOf(late, lab.vms[k]) = {}
    BY <1>1 DEF Init, RecordsOf, CreatesOf, Placed
  <2>2. Total(k) = 0
    BY <2>1, FS_EmptySet DEF Total
  <2> QED
    BY <1>1, <2>2 DEF Bounded, ToCome
<1> QED
  BY <1>1, <1>2 DEF CountInv, OneCreate

\* The commands of the next VM: its one create takes the place of the target.
LEMMA CountTake ==
  ASSUME TypeInv, CountInv, NEW t \in todo, TakeVm(t)
  PROVE  CountInv'
<1>1. /\ pc = "exec" /\ cmds = <<>> /\ Valid(lab) /\ todo \subseteq DOMAIN lab.vms
      /\ UNCHANGED <<lab, vms, late, runs>> /\ t \in DOMAIN lab.vms /\ lab \in Labs
  BY DEF TakeVm, TypeInv, LabctlType, hypervisors
<1>2. PICK new : new = GenCreateCommands(lab, lab.vms[t])
  OBVIOUS
<1>3. OneCreate(new) /\ \A i \in DOMAIN new : new[i].name = lab.vms[t].name
  <2>1. OneCreate(new)
    BY <1>2, CommandsCreateOnce
  <2>2. CommandsFit(lab, lab.vms[t], new)
    BY <1>1, <1>2, CommandsShape
  <2> QED
    BY <2>1, <2>2 DEF CommandsFit
<1>4. ASSUME NEW k \in DOMAIN lab.vms, NEW i \in DOMAIN new, Makes(new[i], lab.vms[k])
      PROVE  k = t
  BY <1>1, <1>3, <1>4 DEF Makes, Valid, NamesUnique
<1>5. /\ pc' \in {"exec", "idle"}
      /\ \/ cmds' = <<>> /\ todo' \subseteq todo
         \/ cmds' = new /\ todo' = todo \ {t}
  BY <1>1, <1>2 DEF TakeVm, SkipVm, Exit
<1>6. OneCreate(cmds') /\ \A k \in todo' : \A i \in DOMAIN cmds' : ~Makes(cmds'[i], lab.vms[k])
  BY <1>1, <1>3, <1>4, <1>5 DEF OneCreate
<1>7. ASSUME NEW k \in Placed
      PROVE  Bounded(k)'
  <2>1. Grows(k, 0)
    BY <1>1, NothingMade DEF CountInv
  <2>2. ToCome(k)' => ToCome(k)
    BY <1>1, <1>4, <1>5 DEF ToCome, Placed
  <2> QED
    BY <1>1, <1>5, <2>1, <2>2, StaysBounded
<1>8. Placed' = Placed
  BY <1>1 DEF Placed
<1> QED
  BY <1>1, <1>6, <1>7, <1>8 DEF CountInv, Makes, OneCreate

\* A step that takes the first command off, or all: what it may have made it has not
\* before it any more.
LEMMA CountCommand ==
  ASSUME TypeInv, CountInv, cmds # <<>>, UNCHANGED <<lab, runs>>, IsFiniteSet(late'),
         pc' # "confirm",
         (cmds' = Tail(cmds) /\ todo' = todo) \/ (cmds' = <<>> /\ todo' = {}),
         \A k \in Placed : Grows(k, 1) /\ (~Makes(Head(cmds), lab.vms[k]) => Grows(k, 0))
  PROVE  CountInv'
<1>1. cmds \in Seq(Commands)
  BY DEF TypeInv, LabctlType
<1>2. /\ 1 \in DOMAIN cmds /\ Head(cmds) = cmds[1]
      /\ \A i \in DOMAIN Tail(cmds) :
           i + 1 \in DOMAIN cmds /\ Tail(cmds)[i] = cmds[i + 1] /\ i \in Nat /\ i # 0
  BY <1>1, TailElements
<1>3. ASSUME NEW i \in DOMAIN cmds'
      PROVE  i + 1 \in DOMAIN cmds /\ cmds'[i] = cmds[i + 1] /\ i \in Nat /\ i # 0 /\ todo' = todo
  BY <1>2, <1>3
<1>4. OneCreate(cmds')
  BY <1>3 DEF CountInv, OneCreate
<1>5. \A k \in todo' : \A i \in DOMAIN cmds' : ~Makes(cmds'[i], lab.vms[k])
  BY <1>3 DEF CountInv
<1>6. ASSUME NEW k \in Placed
      PROVE  Bounded(k)'
  <2>1. ToCome(k)' => ToCome(k)
    <3>1. todo' \subseteq todo
      OBVIOUS
    <3> QED
      BY <1>3, <3>1 DEF ToCome
  <2>2. CASE Makes(Head(cmds), lab.vms[k])
    <3>1. ToCome(k) /\ k \notin todo /\ k \notin todo'
      BY <1>2, <2>2 DEF ToCome, CountInv
    <3>2. \A i \in DOMAIN cmds' : ~Makes(cmds'[i], lab.vms[k])
      BY <1>2, <1>3, <2>2 DEF CountInv, OneCreate, Makes
    <3>3. ~ToCome(k)'
      BY <3>1, <3>2 DEF ToCome, Makes
    <3> QED
      BY <3>1, <3>3, StaysBounded
  <2>3. CASE ~Makes(Head(cmds), lab.vms[k])
    BY <2>1, <2>3, StaysBounded
  <2> QED
    BY <2>2, <2>3
<1>7. Placed' = Placed
  BY DEF Placed
<1> QED
  BY <1>4, <1>5, <1>6, <1>7 DEF CountInv, Makes, OneCreate

LEMMA CountStep ==
  ASSUME TypeInv, CountInv, Next \/ UNCHANGED vars
  PROVE  CountInv'
<1>0. /\ lab' = lab /\ runs \in Nat /\ IsFiniteSet(late) /\ OneCreate(<<>>)
      /\ pc # "exec" => cmds = <<>>
      /\ host \in Hosts \cup {None} /\ (cmds # <<>> => host \in Hosts)
      /\ Placed' = Placed
  BY LabStays DEF TypeInv, LabctlType, CountInv, OneCreate, Placed
<1>1. ASSUME cmds' = <<>>, IsFiniteSet(late'), \A k \in Placed : Bounded(k)'
      PROVE  CountInv'
  BY <1>0, <1>1 DEF CountInv
<1>2. ASSUME UNCHANGED <<vms, late>>
      PROVE  \A k \in Placed : Grows(k, 0)
  BY <1>0, <1>2, NothingMade
<1>3. ASSUME NEW a \in Invocations, Invoke(a) PROVE CountInv'
  <2>1. UNCHANGED <<vms, late>> /\ runs' = runs + 1 /\ pc = "idle"
    BY <1>3 DEF Invoke, hypervisors
  <2>2. cmds' = <<>>
    BY <1>0, <1>3, <2>1 DEF Invoke, Exit, Start
  <2> QED
    BY <1>0, <1>1, <1>2, <2>1, <2>2, StaysBounded
<1>4. ASSUME NEW yes \in BOOLEAN, Answer(yes) PROVE CountInv'
  <2>1. UNCHANGED <<vms, late, runs>> /\ pc = "confirm"
    BY <1>4 DEF Answer, hypervisors
  <2>2. cmds' = <<>>
    BY <1>0, <1>4, <2>1 DEF Answer, Exit, Start
  <2> QED
    BY <1>0, <1>1, <1>2, <2>1, <2>2, StaysBounded
<1>5. ASSUME NEW k \in todo, TakeVm(k) PROVE CountInv'
  BY <1>5, CountTake
<1>6. ASSUME cmds # <<>>
      PROVE  Head(cmds) \in Commands
  BY <1>6, TailElements DEF TypeInv, LabctlType
<1>7. CASE RunOk
  <2>1. /\ cmds # <<>> /\ cmds' = Tail(cmds) /\ UNCHANGED <<todo, runs, late>>
        /\ Execute(host, Head(cmds)) /\ pc' = "exec"
    BY <1>7 DEF RunOk
  <2>2. \A k \in Placed : Grows(k, 1) /\ (~Makes(Head(cmds), lab.vms[k]) => Grows(k, 0))
    BY <1>0, <1>6, <2>1, CommandMakes
  <2> QED
    BY <1>0, <2>1, <2>2, CountCommand
<1>8. ASSUME cmds # <<>>, UNCHANGED vms, UNCHANGED late \/ late' = late \cup {Abandoned}
      PROVE  /\ IsFiniteSet(late')
             /\ \A k \in Placed : Grows(k, 1) /\ (~Makes(Head(cmds), lab.vms[k]) => Grows(k, 0))
  <2>1. CASE UNCHANGED late
    BY <1>0, <1>2, <1>8, <2>1, TotalIsNatural DEF Grows
  <2>2. CASE late' = late \cup {Abandoned}
    <3>1. Abandoned.cmd = Head(cmds)
      BY DEF Abandoned
    <3>2. IsFiniteSet(late')
      BY <1>0, <2>2, FS_AddElement
    <3> QED
      BY <1>0, <1>8, <2>2, <3>1, <3>2, AbandonedMakes
  <2> QED
    BY <1>8, <2>1, <2>2
<1>9. ASSUME NEW timeout \in BOOLEAN, RunFail(timeout) PROVE CountInv'
  <2>1. /\ cmds # <<>> /\ pc' # "confirm" /\ UNCHANGED <<runs, vms>>
        /\ UNCHANGED late \/ late' = late \cup {Abandoned}
        /\ (cmds' = Tail(cmds) /\ todo' = todo) \/ (cmds' = <<>> /\ todo' = {})
    BY <1>9 DEF RunFail, Exit, hypervisors
  <2> QED
    BY <1>0, <1>8, <2>1, CountCommand
<1>10. CASE Complete
  <2>1. UNCHANGED <<vms, late, runs>> /\ cmds' = <<>> /\ todo' = {} /\ pc' = "idle"
    BY <1>10 DEF Complete, Exit, hypervisors
  <2>2. \A k \in Placed : ~ToCome(k)'
    BY <2>1 DEF ToCome
  <2> QED
    BY <1>0, <1>1, <1>2, <2>1, <2>2, StaysBounded
<1>11. CASE Interrupt
  <2>1. /\ UNCHANGED <<vms, runs>> /\ cmds' = <<>> /\ todo' = {} /\ pc' = "idle"
        /\ UNCHANGED late \/ (cmds # <<>> /\ late' = late \cup {Abandoned})
    BY <1>11 DEF Interrupt, Exit, hypervisors
  <2>2. CASE cmds # <<>>
    BY <1>0, <1>8, <2>1, <2>2, CountCommand
  <2>3. CASE UNCHANGED late
    <3>1. \A k \in Placed : ~ToCome(k)'
      BY <2>1 DEF ToCome
    <3> QED
      BY <1>0, <1>1, <1>2, <2>1, <2>3, <3>1, StaysBounded
  <2> QED
    BY <2>1, <2>2, <2>3
<1>12. ASSUME NEW k \in Placed, UNCHANGED <<cmds, todo>>
       PROVE  ToCome(k)' => ToCome(k)
  BY <1>0, <1>12 DEF ToCome, Makes
<1>13. ASSUME UNCHANGED <<pc, cmds, todo, runs>>, IsFiniteSet(late'),
              \A k \in Placed : Grows(k, 0)
       PROVE  CountInv'
  <2>1. \A k \in Placed : Bounded(k)'
    BY <1>12, <1>13, StaysBounded
  <2> QED
    BY <1>0, <1>13, <2>1 DEF CountInv, OneCreate, Makes
<1>14. ASSUME NEW e \in late, LateRun(e) PROVE CountInv'
  <2>1. Execute(e.host, e.cmd) /\ late' = late \ {e} /\ UNCHANGED <<pc, cmds, todo, runs>>
    BY <1>14 DEF LateRun, runner
  <2>2. IsFiniteSet(late')
    BY <1>0, <2>1, FS_RemoveElement
  <2> QED
    BY <1>0, <1>13, <2>1, <2>2, LateMakes
<1>15. CASE UNCHANGED vars
  <2>1. UNCHANGED <<vms, late, pc, cmds, todo, runs>>
    BY <1>15 DEF vars, runner, hypervisors
  <2> QED
    BY <1>0, <1>2, <1>13, <2>1
<1> QED
  BY <1>3, <1>4, <1>5, <1>7, <1>9, <1>10, <1>11, <1>14, <1>15 DEF Next, Proceed

\* However often commands time out and come late, and however often apply is repeated,
\* a VM has at most one record for each run, the creates that may still come included.
THEOREM CreatedOncePerRun == Spec => []OneCreatePerRun
<1>1. ASSUME CountInv PROVE OneCreatePerRun
  <2> SUFFICES ASSUME NEW k \in DOMAIN lab.vms, lab.vms[k].hypervisor \in Hosts
               PROVE  /\ Cardinality(Copies(lab.vms[k].hypervisor, lab.vms[k]))
                           + Cardinality(Pending(lab.vms[k])) <= runs
    BY DEF OneCreatePerRun
  <2>1. Total(k) <= runs
    BY <1>1 DEF CountInv, Bounded, Placed
  <2>2. Pending(lab.vms[k]) = CreatesOf(late, lab.vms[k])
    BY DEF Pending, CreatesOf, Makes
  <2>3. Copies(lab.vms[k].hypervisor, lab.vms[k]) = RecordsOf(vms[lab.vms[k].hypervisor], lab.vms[k])
    BY DEF Copies, RecordsOf
  <2> QED
    BY <2>1, <2>2, <2>3 DEF Total
<1>2. TypeInv /\ CountInv /\ [Next]_vars => TypeInv' /\ CountInv'
  BY TypeInvStep, CountStep
<1> QED
  BY TypeInvInit, CountInit, <1>1, <1>2, PTL DEF Spec

-----------------------------------------------------------------------------
(***************************************************************************)
(* The order in which labctl carries out its commands, for operators who   *)
(* never pass --keep-going; and what exit code 0 means, for every one.     *)
(***************************************************************************)

(* The steps, by what they do to commands and hosts *)

VmidOn(t, h, vmid) == \E i \in DOMAIN t[h] : t[h][i].vmid = vmid

VmOn(t, h, v) == \E i \in DOMAIN t[h] : t[h][i].vmid = v.vmid /\ t[h][i].name = v.name

ResourceOn(t, h, v) ==
  \E i \in DOMAIN t[h].resources : t[h].resources[i].vmid = v.vmid

Quiet ==
  /\ UNCHANGED hypervisors
  /\ UNCHANGED <<host, cmds>> \/ cmds' = <<>>
  /\ UNCHANGED late \/ (cmds # <<>> /\ late' = late \cup {Abandoned})

Generate(k) ==
  /\ UNCHANGED hypervisors /\ UNCHANGED late
  /\ TakeVm(k)
  /\ host' = lab.vms[k].hypervisor
  /\ cmds' = GenCreateCommands(lab, lab.vms[k])

\* Without --keep-going a step of labctl or of a host is quiet (it carries out
\* nothing, and commands are dropped all at once), takes up the commands of the
\* next VM, or carries one command out.
LEMMA StrictSteps ==
  ASSUME Strict, TypeInv, Next \/ UNCHANGED vars
  PROVE  Quiet \/ (\E k \in todo : Generate(k)) \/ RunOk \/ (\E e \in late : LateRun(e))
<1>1. ASSUME NEW a \in Invocations, Invoke(a) PROVE Quiet
  BY <1>1 DEF Invoke, Exit, Start, Quiet
<1>2. ASSUME NEW yes \in BOOLEAN, Answer(yes) PROVE Quiet
  BY <1>2 DEF Answer, Exit, Start, Quiet
<1>3. ASSUME NEW k \in todo, TakeVm(k) PROVE Quiet \/ Generate(k)
  BY <1>3 DEF TakeVm, SkipVm, Exit, Quiet, Generate
<1>4. ASSUME NEW timeout \in BOOLEAN, RunFail(timeout) PROVE Quiet
  <2>1. args \in Invocations
    BY <1>4 DEF RunFail, TypeInv, LabctlType
  <2>2. ~args.keep_going
    BY <2>1 DEF Strict
  <2> QED
    BY <1>4, <2>2 DEF RunFail, Exit, Quiet
<1>5. Complete => Quiet
  BY DEF Complete, Exit, Quiet
<1>6. Interrupt => Quiet
  BY DEF Interrupt, Exit, Quiet
<1>7. UNCHANGED vars => Quiet
  BY DEF vars, runner, Quiet
<1> QED
  BY <1>1, <1>2, <1>3, <1>4, <1>5, <1>6, <1>7 DEF Next, Proceed

\* What exists on a host stays, and a command that is carried out is on it.
LEMMA ExecuteKeeps ==
  ASSUME HostsType, NEW h \in Hosts, NEW c \in Commands, Execute(h, c)
  PROVE  /\ \A g \in Hosts : \A x : VmidOn(vms, g, x) => VmidOn(vms', g, x)
         /\ \A g \in Hosts : \A v : VmOn(vms, g, v) => VmOn(vms', g, v)
         /\ \A g \in Hosts : \A v : ResourceOn(ha, g, v) => ResourceOn(ha', g, v)
         /\ c.op = "create" => VmidOn(vms', h, c.vmid)
         /\ \A v : c.op = "create" /\ c.vmid = v.vmid /\ c.name = v.name => VmOn(vms', h, v)
         /\ \A v : c.op = "ha_add" /\ c.vmid = v.vmid => ResourceOn(ha', h, v)
<1>1. vms \in [Hosts -> Seq(VmRecords)] /\ ha \in [Hosts -> HaTables]
  BY DEF HostsType
<1>2. /\ \A g \in Hosts : \A i \in DOMAIN vms[g] :
           i \in DOMAIN vms'[g] /\ vms'[g][i] = vms[g][i]
      /\ c.op = "create" =>
           \E i \in DOMAIN vms'[h] : vms'[h][i].vmid = c.vmid /\ vms'[h][i].name = c.name
  BY <1>1, ExecuteVms
<1>3. /\ \A g \in Hosts : \A i \in DOMAIN ha[g].resources :
           /\ i \in DOMAIN ha'[g].resources
           /\ ha'[g].resources[i] = ha[g].resources[i]
      /\ c.op = "ha_add" =>
           \E i \in DOMAIN ha'[h].resources : ha'[h].resources[i].vmid = c.vmid
  BY <1>1, ExecuteHa
<1>4. \A g \in Hosts : \A x : VmidOn(vms, g, x) => VmidOn(vms', g, x)
  BY <1>2 DEF VmidOn
<1>5. \A g \in Hosts : \A v : VmOn(vms, g, v) => VmOn(vms', g, v)
  BY <1>2 DEF VmOn
<1>6. \A g \in Hosts : \A v : ResourceOn(ha, g, v) => ResourceOn(ha', g, v)
  BY <1>3 DEF ResourceOn
<1>7. c.op = "create" => VmidOn(vms', h, c.vmid)
  BY <1>2 DEF VmidOn
<1>8. \A v : c.op = "create" /\ c.vmid = v.vmid /\ c.name = v.name => VmOn(vms', h, v)
  BY <1>2 DEF VmOn
<1>9. \A v : c.op = "ha_add" /\ c.vmid = v.vmid => ResourceOn(ha', h, v)
  BY <1>3 DEF ResourceOn
<1> QED
  BY <1>4, <1>5, <1>6, <1>7, <1>8, <1>9

-----------------------------------------------------------------------------
(* An HA resource has its VM *)

Resourced(t, r) ==
  \A h \in Hosts : \A i \in DOMAIN r[h].resources : VmidOn(t, h, r[h].resources[i].vmid)

Ordered(t, h, s) ==
  \A i \in DOMAIN s : s[i].op = "ha_add" =>
    \/ VmidOn(t, h, s[i].vmid)
    \/ \E j \in DOMAIN s : j < i /\ s[j].op = "create" /\ s[j].vmid = s[i].vmid

Recalled(t, es) == \A e \in es : e.cmd.op = "ha_add" => VmidOn(t, e.host, e.cmd.vmid)

\* HaResourceHasVm is not inductive: it needs that an HA command that is waiting
\* has its create before it (or the VM is there), and that an HA command labctl
\* gave up on has its VM already.
HaOrderInv == Resourced(vms, ha) /\ Ordered(vms, host, cmds) /\ Recalled(vms, late)

LEMMA HaOrderInit == Init => HaOrderInv
  BY DEF Init, HaOrderInv, Resourced, Ordered, Recalled, NoHa

\* The head of ordered commands is no HA command of a VM that is not there; once
\* it is carried out the rest is ordered.
LEMMA OrderedTail ==
  ASSUME HostsType, NEW h \in Hosts, NEW s \in Seq(Commands), s # <<>>, Ordered(vms, h, s)
  PROVE  /\ Head(s) \in Commands
         /\ Head(s).op = "ha_add" => VmidOn(vms, h, Head(s).vmid)
         /\ Execute(h, Head(s)) => Ordered(vms', h, Tail(s))
<1>1. /\ 1 \in DOMAIN s /\ Head(s) = s[1] /\ Head(s) \in Commands
      /\ DOMAIN s \subseteq Nat /\ DOMAIN Tail(s) \subseteq Nat
      /\ \A i \in DOMAIN Tail(s) : i + 1 \in DOMAIN s /\ Tail(s)[i] = s[i + 1]
      /\ \A i \in DOMAIN s :
           i = 1 \/ (i - 1 \in DOMAIN Tail(s) /\ Tail(s)[i - 1] = s[i])
  <2>1. Tail(s) \in Seq(Commands)
    OBVIOUS
  <2>2. DOMAIN s \subseteq Nat /\ DOMAIN Tail(s) \subseteq Nat
    BY <2>1
  <2> QED
    BY <2>2, TailElements
<1>2. \A j \in DOMAIN s : ~(j < 1)
  OBVIOUS
<1>3. Head(s).op = "ha_add" => VmidOn(vms, h, Head(s).vmid)
  BY <1>1, <1>2 DEF Ordered
<1>4. ASSUME Execute(h, Head(s)), NEW i \in DOMAIN Tail(s), Tail(s)[i].op = "ha_add"
      PROVE  \/ VmidOn(vms', h, Tail(s)[i].vmid)
             \/ \E j \in DOMAIN Tail(s) : /\ j < i /\ Tail(s)[j].op = "create"
                                          /\ Tail(s)[j].vmid = Tail(s)[i].vmid
  <2>1. i + 1 \in DOMAIN s /\ s[i + 1].op = "ha_add" /\ Tail(s)[i] = s[i + 1]
    BY <1>1, <1>4
  <2>2. \A g \in Hosts : \A x : VmidOn(vms, g, x) => VmidOn(vms', g, x)
    BY <1>1, <1>4, ExecuteKeeps
  <2>3. Head(s).op = "create" => VmidOn(vms', h, Head(s).vmid)
    BY <1>1, <1>4, ExecuteKeeps
  <2>4. CASE VmidOn(vms, h, s[i + 1].vmid)
    BY <2>1, <2>2, <2>4
  <2>5. ASSUME NEW j \in DOMAIN s, j < i + 1, s[j].op = "create", s[j].vmid = s[i + 1].vmid
        PROVE  \/ VmidOn(vms', h, Tail(s)[i].vmid)
               \/ \E m \in DOMAIN Tail(s) : /\ m < i /\ Tail(s)[m].op = "create"
                                            /\ Tail(s)[m].vmid = Tail(s)[i].vmid
    <3>1. CASE j = 1
      BY <1>1, <2>1, <2>3, <2>5, <3>1
    <3>2. CASE j # 1
      <4>1. j - 1 \in DOMAIN Tail(s) /\ Tail(s)[j - 1] = s[j] /\ i \in Nat /\ j \in Nat
        BY <1>1, <3>2
      <4>2. j - 1 < i
        BY <4>1, <2>5
      <4> QED
        BY <2>1, <2>5, <4>1, <4>2
    <3> QED
      BY <3>1, <3>2
  <2> QED
    BY <2>1, <2>4, <2>5 DEF Ordered
<1> QED
  BY <1>1, <1>3, <1>4 DEF Ordered

\* Carrying out a command on h whose VM is there keeps HA resources with VMs.
LEMMA ExecuteResourced ==
  ASSUME HostsType, NEW h \in Hosts, NEW c \in Commands, Execute(h, c),
         Resourced(vms, ha), c.op = "ha_add" => VmidOn(vms, h, c.vmid)
  PROVE  Resourced(vms', ha')
<1> SUFFICES ASSUME NEW g \in Hosts, NEW i \in DOMAIN ha'[g].resources
             PROVE  VmidOn(vms', g, ha'[g].resources[i].vmid)
  BY DEF Resourced
<1>1. \A x : VmidOn(vms, g, x) => VmidOn(vms', g, x)
  BY ExecuteKeeps
<1>2. ha \in [Hosts -> HaTables]
  BY DEF HostsType
<1>3. \/ i \in DOMAIN ha[g].resources /\ ha'[g].resources[i] = ha[g].resources[i]
      \/ g = h /\ c.op = "ha_add" /\ ha'[g].resources[i].vmid = c.vmid
  BY <1>2, ExecuteHa
<1> QED
  BY <1>1, <1>3 DEF Resourced

\* The commands of one VM are ordered wherever they run.
LEMMA NewOrdered ==
  ASSUME lab \in Labs, Valid(lab), NEW k \in DOMAIN lab.vms, NEW t, NEW h
  PROVE  Ordered(t, h, GenCreateCommands(lab, lab.vms[k]))
<1> DEFINE s == GenCreateCommands(lab, lab.vms[k])
<1>1. CommandsFit(lab, lab.vms[k], s)
  BY CommandsShape
<1> HIDE DEF s
<1>2. ASSUME NEW i \in DOMAIN s, s[i].op = "ha_add"
      PROVE  \E j \in DOMAIN s : j < i /\ s[j].op = "create" /\ s[j].vmid = s[i].vmid
  <2>1. PICK j \in DOMAIN s : j < i /\ s[j].op = "create"
    BY <1>1, <1>2 DEF CommandsFit
  <2> QED
    BY <1>1, <2>1 DEF CommandsFit
<1>3. Ordered(t, h, s)
  BY <1>2 DEF Ordered
<1> QED
  BY <1>3 DEF s

\* Without --keep-going every step keeps the invariant.
LEMMA HaOrderStep ==
  ASSUME Strict, TypeInv, HaOrderInv, Next \/ UNCHANGED vars
  PROVE  HaOrderInv'
<1>1. LabctlType /\ HostsType /\ late \subseteq AbandonedCommands
  BY DEF TypeInv
<1>2. Resourced(vms, ha) /\ Ordered(vms, host, cmds) /\ Recalled(vms, late)
  BY DEF HaOrderInv
<1>3. ASSUME cmds # <<>>
      PROVE  /\ host \in Hosts /\ Head(cmds) \in Commands
             /\ Head(cmds).op = "ha_add" => VmidOn(vms, host, Head(cmds).vmid)
             /\ Execute(host, Head(cmds)) => Ordered(vms', host, Tail(cmds))
  <2>1. host \in Hosts /\ cmds \in Seq(Commands)
    BY <1>1, <1>3 DEF LabctlType
  <2> QED
    BY <1>1, <1>2, <1>3, <2>1, OrderedTail
<1>4. ASSUME NEW h \in Hosts, NEW c \in Commands, Execute(h, c), NEW es, es \subseteq late
      PROVE  Recalled(vms', es)
  <2>1. \A g \in Hosts : \A x : VmidOn(vms, g, x) => VmidOn(vms', g, x)
    BY <1>1, <1>4, ExecuteKeeps
  <2>2. \A e \in es : e.host \in Hosts
    BY <1>1, <1>4 DEF AbandonedCommands
  <2> QED
    BY <1>2, <1>4, <2>1, <2>2 DEF Recalled
<1>5. CASE Quiet
  <2>1. vms' = vms /\ ha' = ha
    BY <1>5 DEF Quiet, hypervisors
  <2>2. Ordered(vms', host', cmds')
    BY <1>2, <1>5, <2>1 DEF Quiet, Ordered
  <2>3. Recalled(vms', late')
    BY <1>2, <1>3, <1>5, <2>1 DEF Quiet, Recalled, Abandoned
  <2> QED
    BY <1>2, <2>1, <2>2, <2>3 DEF HaOrderInv
<1>6. ASSUME NEW k \in todo, Generate(k) PROVE HaOrderInv'
  <2>1. vms' = vms /\ ha' = ha /\ late' = late /\ pc = "exec"
        /\ cmds' = GenCreateCommands(lab, lab.vms[k])
    BY <1>6 DEF Generate, TakeVm, hypervisors
  <2>2. lab \in Labs /\ Valid(lab) /\ k \in DOMAIN lab.vms
    BY <1>1, <2>1 DEF LabctlType
  <2>3. Ordered(vms', host', cmds')
    BY <2>1, <2>2, NewOrdered
  <2> QED
    BY <1>2, <2>1, <2>3 DEF HaOrderInv
<1>7. CASE RunOk
  <2>1. /\ cmds # <<>> /\ Execute(host, Head(cmds)) /\ cmds' = Tail(cmds)
        /\ host' = host /\ late' = late
    BY <1>7 DEF RunOk
  <2>2. Ordered(vms', host', cmds')
    BY <1>3, <2>1
  <2>3. Recalled(vms', late')
    BY <1>3, <1>4, <2>1
  <2>4. Resourced(vms', ha')
    BY <1>1, <1>2, <1>3, <2>1, ExecuteResourced
  <2> QED
    BY <2>2, <2>3, <2>4 DEF HaOrderInv
<1>8. ASSUME NEW e \in late, LateRun(e) PROVE HaOrderInv'
  <2>1. /\ Execute(e.host, e.cmd) /\ late' \subseteq late
        /\ host' = host /\ cmds' = cmds
    BY <1>8 DEF LateRun, runner
  <2>2. e.host \in Hosts /\ e.cmd \in Commands
    BY <1>1 DEF AbandonedCommands
  <2>3. Ordered(vms', host', cmds')
    <3>1. CASE cmds = <<>>
      BY <2>1, <3>1 DEF Ordered
    <3>2. CASE cmds # <<>>
      <4>1. \A x : VmidOn(vms, host, x) => VmidOn(vms', host, x)
        BY <1>1, <1>3, <2>1, <2>2, <3>2, ExecuteKeeps
      <4> QED
        BY <1>2, <2>1, <4>1 DEF Ordered
    <3> QED
      BY <3>1, <3>2
  <2>4. Recalled(vms', late')
    BY <1>4, <2>1, <2>2
  <2>5. e.cmd.op = "ha_add" => VmidOn(vms, e.host, e.cmd.vmid)
    BY <1>2 DEF Recalled
  <2>6. Resourced(vms', ha')
    BY <1>1, <1>2, <2>1, <2>2, <2>5, ExecuteResourced
  <2> QED
    BY <2>3, <2>4, <2>6 DEF HaOrderInv
<1> QED
  BY <1>5, <1>6, <1>7, <1>8, StrictSteps

\* For operators who never pass --keep-going an HA resource always has its VM on
\* the same host, whatever fails, times out or is carried out late.
THEOREM HaResourcesHaveVms == Strict => (Spec => []HaResourceHasVm)
<1> SUFFICES ASSUME Strict PROVE Spec => []HaResourceHasVm
  OBVIOUS
<1>1. Init => TypeInv /\ HaOrderInv
  BY TypeInvInit, HaOrderInit
<1>2. TypeInv /\ HaOrderInv /\ [Next]_vars => (TypeInv /\ HaOrderInv)'
  BY TypeInvStep, HaOrderStep
<1>3. TypeInv /\ HaOrderInv => HaResourceHasVm
  BY DEF HaOrderInv, Resourced, VmidOn, HaResourceHasVm
<1> QED
  BY <1>1, <1>2, <1>3, PTL DEF Spec

-----------------------------------------------------------------------------
(* Exit code 0 means that every VM of the run is there *)

Coming(h, s, op, v) ==
  h = v.hypervisor /\ \E i \in DOMAIN s : s[i].op = op /\ s[i].vmid = v.vmid /\ s[i].name = v.name

\* What v needs is there or comes with the commands s that wait to run on h.
Provided(l, t, r, h, s, v) ==
  Supported(l, v) =>
    /\ VmOn(t, v.hypervisor, v) \/ Coming(h, s, "create", v)
    /\ v.ha => ResourceOn(r, v.hypervisor, v) \/ Coming(h, s, "ha_add", v)

\* CompleteMeansProvisioned is about the end of a run; while it executes and
\* nothing has failed, the targets it is done with are provided for.
DoneInv ==
  /\ pc = "exec" => todo \subseteq Targets(lab, args.hypervisor)
  /\ pc = "exec" /\ ~failed =>
       \A k \in Targets(lab, args.hypervisor) \ todo :
         Provided(lab, vms, ha, host, cmds, lab.vms[k])
  /\ pc = "idle" /\ rc = 0 /\ args.execute =>
       \A k \in Targets(lab, args.hypervisor) :
         Provided(lab, vms, ha, host, <<>>, lab.vms[k])

LEMMA DoneInit == Init => DoneInv
<1>1. None # 0
  BY NoneAssumption
<1> QED
  BY <1>1 DEF Init, DoneInv

\* Nothing comes with no commands.
LEMMA NothingComes ==
  ASSUME NEW l, NEW t, NEW r, NEW h, NEW v, Provided(l, t, r, h, <<>>, v), NEW g, NEW s
  PROVE  Provided(l, t, r, g, s, v)
  BY DEF Provided, Coming

\* Carrying out any command takes nothing away from a VM.
LEMMA ExecuteKeepsProvided ==
  ASSUME HostsType, NEW h \in Hosts, NEW c \in Commands, Execute(h, c),
         NEW v, v.hypervisor \in Hosts, NEW l, NEW g, NEW s, Provided(l, vms, ha, g, s, v)
  PROVE  Provided(l, vms', ha', g, s, v)
<1>1. /\ VmOn(vms, v.hypervisor, v) => VmOn(vms', v.hypervisor, v)
      /\ ResourceOn(ha, v.hypervisor, v) => ResourceOn(ha', v.hypervisor, v)
  BY ExecuteKeeps
<1> QED
  BY <1>1 DEF Provided

\* Carrying out the first command provides what comes with it.
LEMMA ExecuteProvides ==
  ASSUME HostsType, NEW h \in Hosts, NEW s \in Seq(Commands), s # <<>>,
         Execute(h, Head(s)), NEW v, v.hypervisor \in Hosts, NEW l,
         Provided(l, vms, ha, h, s, v)
  PROVE  Provided(l, vms', ha', h, Tail(s), v)
<1>1. /\ Head(s) = s[1] /\ Head(s) \in Commands
      /\ \A i \in DOMAIN s :
           i = 1 \/ (i - 1 \in DOMAIN Tail(s) /\ Tail(s)[i - 1] = s[i])
  BY TailElements
<1>2. /\ VmOn(vms, v.hypervisor, v) => VmOn(vms', v.hypervisor, v)
      /\ ResourceOn(ha, v.hypervisor, v) => ResourceOn(ha', v.hypervisor, v)
      /\ Head(s).op = "create" /\ Head(s).vmid = v.vmid /\ Head(s).name = v.name =>
           VmOn(vms', h, v)
      /\ Head(s).op = "ha_add" /\ Head(s).vmid = v.vmid => ResourceOn(ha', h, v)
  BY <1>1, ExecuteKeeps
<1>3. Coming(h, s, "create", v) =>
        VmOn(vms', v.hypervisor, v) \/ Coming(h, Tail(s), "create", v)
  BY <1>1, <1>2 DEF Coming
<1>4. Coming(h, s, "ha_add", v) =>
        ResourceOn(ha', v.hypervisor, v) \/ Coming(h, Tail(s), "ha_add", v)
  BY <1>1, <1>2 DEF Coming
<1> QED
  BY <1>2, <1>3, <1>4 DEF Provided

\* The commands generated for a VM bring what it needs.
LEMMA NewProvides ==
  ASSUME lab \in Labs, Valid(lab), NEW k \in DOMAIN lab.vms, NEW t, NEW r
  PROVE  /\ Provided(lab, t, r, lab.vms[k].hypervisor,
                     GenCreateCommands(lab, lab.vms[k]), lab.vms[k])
         /\ GenCreateCommands(lab, lab.vms[k]) = <<>> <=> ~Supported(lab, lab.vms[k])
<1> DEFINE v == lab.vms[k]
           s == GenCreateCommands(lab, v)
<1>1. CommandsFit(lab, v, s)
  BY CommandsShape
<1> HIDE DEF v, s
<1>2. s = <<>> <=> ~Supported(lab, v)
  BY <1>1 DEF CommandsFit
<1>3. Supported(lab, v) => Coming(v.hypervisor, s, "create", v)
  BY <1>1 DEF CommandsFit, Coming
<1>4. Supported(lab, v) /\ v.ha => Coming(v.hypervisor, s, "ha_add", v)
  BY <1>1 DEF CommandsFit, Coming
<1>5. Provided(lab, t, r, v.hypervisor, s, v)
  BY <1>3, <1>4 DEF Provided
<1> QED
  BY <1>2, <1>5 DEF v, s

\* Every step keeps the invariant, with --keep-going or without.
LEMMA DoneStep ==
  ASSUME TypeInv, DoneInv, Next \/ UNCHANGED vars
  PROVE  DoneInv'
<1>1. LabctlType /\ HostsType /\ late \subseteq AbandonedCommands /\ lab' = lab
  BY LabStays DEF TypeInv
<1>2. ASSUME Valid(lab), NEW k \in DOMAIN lab.vms PROVE lab.vms[k].hypervisor \in Hosts
  BY <1>1, <1>2, PlacedOnHost DEF LabctlType
<1>3. Targets(lab, args.hypervisor) \subseteq DOMAIN lab.vms
  BY DEF Targets
<1>4. ASSUME NEW a \in Invocations, Invoke(a) PROVE DoneInv'
  <2>1. args' = a
    BY <1>4 DEF Invoke
  <2>2. CASE Exit(1)
    BY <2>2 DEF Exit, DoneInv
  <2>3. CASE ~a.execute /\ Exit(0)
    BY <2>1, <2>3 DEF Exit, DoneInv
  <2>4. CASE pc' = "confirm"
    BY <2>4 DEF DoneInv
  <2>5. CASE Start(a)
    BY <1>1, <2>1, <2>5 DEF Start, DoneInv
  <2> QED
    BY <1>4, <2>2, <2>3, <2>4, <2>5 DEF Invoke
<1>5. ASSUME NEW yes \in BOOLEAN, Answer(yes) PROVE DoneInv'
  <2>1. args' = args
    BY <1>5 DEF Answer
  <2>2. CASE Exit(1)
    BY <2>2 DEF Exit, DoneInv
  <2>3. CASE Start(args)
    BY <1>1, <2>1, <2>3 DEF Start, DoneInv
  <2> QED
    BY <1>5, <2>2, <2>3 DEF Answer
<1>6. ASSUME NEW k \in todo, TakeVm(k) PROVE DoneInv'
  <2>1. /\ pc = "exec" /\ cmds = <<>> /\ UNCHANGED <<args, failed, vms, ha>>
        /\ \/ Exit(1)
           \/ /\ todo' = todo \ {k} /\ pc' = "exec"
              /\ \/ GenCreateCommands(lab, lab.vms[k]) = <<>> /\ cmds' = <<>>
                 \/ /\ host' = lab.vms[k].hypervisor
                    /\ cmds' = GenCreateCommands(lab, lab.vms[k])
    BY <1>6 DEF TakeVm, SkipVm, hypervisors
  <2>2. CASE Exit(1)
    BY <2>2 DEF Exit, DoneInv
  <2>3. CASE todo' = todo \ {k} /\ pc' = "exec"
    <3>1. ASSUME ~failed, NEW m \in Targets(lab, args.hypervisor) \ todo'
          PROVE  Provided(lab, vms, ha, host', cmds', lab.vms[m])
      <4>1. CASE m # k
        <5>1. m \in Targets(lab, args.hypervisor) \ todo
          BY <2>3, <3>1, <4>1
        <5>2. Provided(lab, vms, ha, host, <<>>, lab.vms[m])
          BY <2>1, <3>1, <5>1 DEF DoneInv
        <5> QED
          BY <5>2, NothingComes
      <4>2. CASE m = k
        <5>1. lab \in Labs /\ Valid(lab) /\ k \in DOMAIN lab.vms
          BY <1>1, <2>1 DEF LabctlType
        <5>2. CASE GenCreateCommands(lab, lab.vms[k]) = <<>>
          BY <4>2, <5>1, <5>2, NewProvides DEF Provided
        <5>3. CASE /\ host' = lab.vms[k].hypervisor
                   /\ cmds' = GenCreateCommands(lab, lab.vms[k])
          BY <4>2, <5>1, <5>3, NewProvides
        <5>4. pc' # "idle"
          BY <2>3
        <5> QED
          BY <2>1, <5>2, <5>3, <5>4 DEF Exit
      <4> QED
        BY <4>1, <4>2
    <3> QED
      BY <1>1, <2>1, <2>3, <3>1 DEF DoneInv
  <2> QED
    BY <2>1, <2>2, <2>3
<1>7. CASE RunOk
  <2>1. /\ pc = "exec" /\ cmds # <<>> /\ Execute(host, Head(cmds)) /\ cmds' = Tail(cmds)
        /\ UNCHANGED <<args, pc, todo, host, failed, rc>>
    BY <1>7 DEF RunOk
  <2>2. cmds \in Seq(Commands) /\ host \in Hosts /\ Valid(lab)
    BY <1>1, <2>1 DEF LabctlType
  <2>3. ASSUME ~failed, NEW k \in Targets(lab, args.hypervisor) \ todo
        PROVE  Provided(lab, vms', ha', host, Tail(cmds), lab.vms[k])
    <3>1. Provided(lab, vms, ha, host, cmds, lab.vms[k])
      BY <2>1, <2>3 DEF DoneInv
    <3>2. lab.vms[k].hypervisor \in Hosts
      BY <1>2, <1>3, <2>2
    <3> QED
      BY <1>1, <2>1, <2>2, <3>1, <3>2, ExecuteProvides
  <2> QED
    BY <1>1, <2>1, <2>3 DEF DoneInv
<1>8. ASSUME NEW timeout \in BOOLEAN, RunFail(timeout) PROVE DoneInv'
  <2>1. /\ pc = "exec" /\ failed' = TRUE /\ args' = args
        /\ Exit(1) \/ UNCHANGED <<pc, todo>>
    BY <1>8 DEF RunFail
  <2>2. CASE Exit(1)
    BY <2>2 DEF Exit, DoneInv
  <2>3. CASE UNCHANGED <<pc, todo>>
    BY <1>1, <2>1, <2>3 DEF DoneInv
  <2> QED
    BY <2>1, <2>2, <2>3
<1>9. CASE Complete
  <2>1. /\ pc = "exec" /\ cmds = <<>> /\ todo = {} /\ pc' = "idle"
        /\ rc' = (IF failed THEN 1 ELSE 0) /\ UNCHANGED <<args, failed, vms, ha>>
    BY <1>9 DEF Complete, Exit, hypervisors
  <2>2. ASSUME rc' = 0, NEW k \in Targets(lab, args.hypervisor)
        PROVE  Provided(lab, vms, ha, host', <<>>, lab.vms[k])
    <3>1. ~failed
      BY <2>1, <2>2
    <3>2. Provided(lab, vms, ha, host, <<>>, lab.vms[k])
      BY <2>1, <2>2, <3>1 DEF DoneInv
    <3> QED
      BY <3>2, NothingComes
  <2> QED
    BY <1>1, <2>1, <2>2 DEF DoneInv
<1>10. CASE Interrupt
  BY <1>10 DEF Interrupt, Exit, DoneInv
<1>11. ASSUME NEW e \in late, LateRun(e) PROVE DoneInv'
  <2>1. Execute(e.host, e.cmd) /\ UNCHANGED <<args, pc, todo, host, cmds, failed, rc>>
    BY <1>11 DEF LateRun, runner
  <2>2. e.host \in Hosts /\ e.cmd \in Commands
    BY <1>1 DEF AbandonedCommands
  <2>3. ASSUME Valid(lab), NEW k \in Targets(lab, args.hypervisor), NEW g, NEW s,
               Provided(lab, vms, ha, g, s, lab.vms[k])
        PROVE  Provided(lab, vms', ha', g, s, lab.vms[k])
    <3>1. lab.vms[k].hypervisor \in Hosts
      BY <1>2, <1>3, <2>3
    <3> QED
      BY <1>1, <2>1, <2>2, <2>3, <3>1, ExecuteKeepsProvided
  <2>4. (pc = "exec" => Valid(lab)) /\ (rc = 0 => Valid(lab))
    BY <1>1 DEF LabctlType
  <2> QED
    BY <1>1, <2>1, <2>3, <2>4 DEF DoneInv
<1>12. CASE UNCHANGED vars
  BY <1>12 DEF vars, runner, hypervisors, DoneInv
<1> QED
  BY <1>4, <1>5, <1>6, <1>7, <1>8, <1>9, <1>10, <1>11, <1>12 DEF Next, Proceed

LEMMA Dones == Spec => [](TypeInv /\ DoneInv)
  BY TypeInvInit, TypeInvStep, DoneInit, DoneStep, PTL DEF Spec

\* A run that executed and exited with 0 left every VM it was about on its
\* hypervisor, and as an HA resource when it is to be one: the exit code is never
\* 0 for a partly applied manifest.
THEOREM ZeroMeansProvisioned == Spec => []CompleteMeansProvisioned
<1>1. ASSUME DoneInv PROVE CompleteMeansProvisioned
  BY <1>1 DEF DoneInv, CompleteMeansProvisioned, Provided, Coming, HasVm, HasResource,
              VmOn, ResourceOn
<1> QED
  BY <1>1, Dones, PTL

-----------------------------------------------------------------------------
(* VMs appear in the order of the manifest *)

\* Every VM of v's hypervisor that is ordered before v is there.
Ready(l, t, v) ==
  \A m \in DOMAIN l.vms :
    l.vms[m].hypervisor = v.hypervisor /\ Precedes(l.vms[m], v)
      => VmOn(t, v.hypervisor, l.vms[m])

\* A create that may still run on h is of a VM that is ready.
MayRun(l, t, h, c) ==
  c.op = "create" =>
    \A k \in DOMAIN l.vms :
      /\ l.vms[k].hypervisor = h
      /\ l.vms[k].vmid = c.vmid /\ l.vms[k].name = c.name
      => Ready(l, t, l.vms[k])

Prefix(l, t) ==
  \A k \in DOMAIN l.vms :
    l.vms[k].hypervisor \in Hosts /\ VmOn(t, l.vms[k].hypervisor, l.vms[k])
      => Ready(l, t, l.vms[k])

\* StartOrderPrefix is not inductive: it needs that a create is not generated,
\* and not left to a host, before its VM is ready.
PrefixInv ==
  /\ Prefix(lab, vms)
  /\ \A i \in DOMAIN cmds : MayRun(lab, vms, host, cmds[i])
  /\ \A e \in late : MayRun(lab, vms, e.host, e.cmd)

\* Without --keep-going a run that has not ended has not failed.
NotFailed == pc # "idle" => ~failed

LEMMA NotFailedInit == Init => NotFailed
  BY DEF Init, NotFailed

LEMMA NotFailedStep ==
  ASSUME Strict, TypeInv, NotFailed, Next \/ UNCHANGED vars
  PROVE  NotFailed'
<1>1. ASSUME NEW timeout \in BOOLEAN, RunFail(timeout) PROVE NotFailed'
  <2>1. args \in Invocations
    BY <1>1 DEF RunFail, TypeInv, LabctlType
  <2>2. ~args.keep_going
    BY <2>1 DEF Strict
  <2> QED
    BY <1>1, <2>2 DEF RunFail, Exit, NotFailed
<1>2. ASSUME NEW a \in Invocations, Invoke(a) PROVE NotFailed'
  BY <1>2 DEF Invoke, NotFailed
<1>3. ASSUME NEW yes \in BOOLEAN, Answer(yes) PROVE NotFailed'
  BY <1>3 DEF Answer, NotFailed
<1>4. ASSUME NEW k \in todo, TakeVm(k) PROVE NotFailed'
  BY <1>4 DEF TakeVm, SkipVm, Exit, NotFailed
<1>5. CASE RunOk \/ Complete \/ Interrupt \/ (\E e \in late : LateRun(e)) \/ UNCHANGED vars
  BY <1>5 DEF RunOk, Complete, Interrupt, LateRun, Exit, NotFailed, runner, vars
<1> QED
  BY <1>1, <1>2, <1>3, <1>4, <1>5 DEF Next, Proceed

\* The order of the VMs of a manifest is a strict one.
LEMMA PrecedesStrict ==
  ASSUME NEW v \in VmEntries, NEW w \in VmEntries, Precedes(v, w)
  PROVE  ~Precedes(w, v) /\ v # w
<1>1. /\ v.hypervisor \in Nat /\ v.start_order \in Nat /\ v.name \in Nat
      /\ w.hypervisor \in Nat /\ w.start_order \in Nat /\ w.name \in Nat
  BY DEF VmEntries
<1> QED
  BY <1>1 DEF Precedes

\* Being ready lasts, whatever is carried out.
LEMMA ReadyStays ==
  ASSUME HostsType, NEW h \in Hosts, NEW c \in Commands, Execute(h, c),
         NEW l, NEW v, v.hypervisor \in Hosts, Ready(l, vms, v)
  PROVE  Ready(l, vms', v)
<1>1. \A w : VmOn(vms, v.hypervisor, w) => VmOn(vms', v.hypervisor, w)
  BY ExecuteKeeps
<1> QED
  BY <1>1 DEF Ready

\* So a create that may run keeps this right.
LEMMA MayRunStays ==
  ASSUME HostsType, NEW h \in Hosts, NEW c \in Commands, Execute(h, c),
         NEW l, NEW g \in Hosts, NEW d, MayRun(l, vms, g, d)
  PROVE  MayRun(l, vms', g, d)
  BY ReadyStays DEF MayRun

\* Carrying out a command that may run keeps the VMs in order.
LEMMA ExecutePrefix ==
  ASSUME HostsType, NEW h \in Hosts, NEW c \in Commands, Execute(h, c),
         NEW l, Prefix(l, vms), MayRun(l, vms, h, c)
  PROVE  Prefix(l, vms')
<1> SUFFICES ASSUME NEW k \in DOMAIN l.vms, l.vms[k].hypervisor \in Hosts,
                    VmOn(vms', l.vms[k].hypervisor, l.vms[k])
             PROVE  Ready(l, vms', l.vms[k])
  BY DEF Prefix
<1> DEFINE v == l.vms[k]
           g == v.hypervisor
<1>1. vms \in [Hosts -> Seq(VmRecords)]
  BY DEF HostsType
<1>2. PICK i \in DOMAIN vms'[g] : vms'[g][i].vmid = v.vmid /\ vms'[g][i].name = v.name
  BY DEF VmOn
<1>3. \/ i \in DOMAIN vms[g] /\ vms'[g][i] = vms[g][i]
      \/ /\ g = h /\ c.op = "create"
         /\ vms'[g][i].vmid = c.vmid /\ vms'[g][i].name = c.name
  BY <1>1, ExecuteVms
<1>4. CASE i \in DOMAIN vms[g] /\ vms'[g][i] = vms[g][i]
  <2>1. VmOn(vms, g, v)
    BY <1>2, <1>4 DEF VmOn
  <2>2. Ready(l, vms, v)
    BY <2>1 DEF Prefix
  <2> QED
    BY <2>2, ReadyStays
<1>5. CASE g = h /\ c.op = "create" /\ vms'[g][i].vmid = c.vmid /\ vms'[g][i].name = c.name
  <2>1. Ready(l, vms, v)
    BY <1>2, <1>5 DEF MayRun
  <2> QED
    BY <2>1, ReadyStays
<1> QED
  BY <1>3, <1>4, <1>5

\* When labctl takes up a VM that has commands, the VM is ready: those ordered
\* before it on its hypervisor are targets it is done with.
LEMMA TakenIsReady ==
  ASSUME TypeInv, DoneInv, NotFailed, NEW k \in todo, TakeVm(k),
         GenCreateCommands(lab, lab.vms[k]) # <<>>
  PROVE  Ready(lab, vms, lab.vms[k])
<1> DEFINE v == lab.vms[k]
<1>1. /\ pc = "exec" /\ cmds = <<>> /\ ~failed /\ todo \subseteq DOMAIN lab.vms
      /\ \A m \in todo \ {k} : Precedes(v, lab.vms[m])
      /\ lab \in Labs /\ Valid(lab) /\ todo \subseteq Targets(lab, args.hypervisor)
  BY DEF TakeVm, NotFailed, DoneInv, TypeInv, LabctlType
<1>2. \A m \in DOMAIN lab.vms : lab.vms[m] \in VmEntries
  BY <1>1, LabsAssumption
<1> SUFFICES ASSUME NEW m \in DOMAIN lab.vms, lab.vms[m].hypervisor = v.hypervisor,
                    Precedes(lab.vms[m], v)
             PROVE  VmOn(vms, v.hypervisor, lab.vms[m])
  BY DEF Ready
<1>3. m \in Targets(lab, args.hypervisor)
  BY <1>1 DEF Targets
<1>4. m \notin todo
  BY <1>1, <1>2, PrecedesStrict
<1>5. Provided(lab, vms, ha, host, <<>>, lab.vms[m])
  BY <1>1, <1>3, <1>4 DEF DoneInv
<1>6. Supported(lab, lab.vms[m])
  <2>1. Supported(lab, v)
    BY <1>1, NewProvides
  <2> QED
    BY <2>1 DEF Supported
<1> QED
  BY <1>5, <1>6 DEF Provided, Coming

LEMMA PrefixInit == Init => PrefixInv
<1> SUFFICES ASSUME Init PROVE PrefixInv
  OBVIOUS
<1>1. ASSUME NEW h \in Hosts, NEW v PROVE ~VmOn(vms, h, v)
  <2>1. vms[h] = <<>>
    BY DEF Init
  <2> QED
    BY <2>1 DEF VmOn
<1>2. Prefix(lab, vms)
  BY <1>1 DEF Prefix
<1>3. cmds = <<>> /\ late = {}
  BY DEF Init
<1> QED
  BY <1>2, <1>3 DEF PrefixInv

\* Without --keep-going every step keeps the VMs in order.
LEMMA PrefixStep ==
  ASSUME Strict, TypeInv, DoneInv, NotFailed, PrefixInv, Next \/ UNCHANGED vars
  PROVE  PrefixInv'
<1>1. LabctlType /\ HostsType /\ late \subseteq AbandonedCommands /\ lab' = lab
  BY LabStays DEF TypeInv
<1>2. /\ Prefix(lab, vms)
      /\ \A i \in DOMAIN cmds : MayRun(lab, vms, host, cmds[i])
      /\ \A e \in late : MayRun(lab, vms, e.host, e.cmd)
  BY DEF PrefixInv
<1>3. ASSUME cmds # <<>>
      PROVE  /\ host \in Hosts /\ Head(cmds) \in Commands
             /\ MayRun(lab, vms, host, Head(cmds))
             /\ \A i \in DOMAIN Tail(cmds) : MayRun(lab, vms, host, Tail(cmds)[i])
  <2>1. host \in Hosts /\ cmds \in Seq(Commands)
    BY <1>1, <1>3 DEF LabctlType
  <2>2. /\ 1 \in DOMAIN cmds /\ Head(cmds) = cmds[1] /\ Head(cmds) \in Commands
        /\ \A i \in DOMAIN Tail(cmds) : i + 1 \in DOMAIN cmds /\ Tail(cmds)[i] = cmds[i + 1]
    BY <1>3, <2>1, TailElements
  <2> QED
    BY <1>2, <2>1, <2>2
<1>4. CASE Quiet
  <2>1. vms' = vms
    BY <1>4 DEF Quiet, hypervisors
  <2>2. \A i \in DOMAIN cmds' : MayRun(lab, vms, host', cmds'[i])
    BY <1>2, <1>4 DEF Quiet
  <2>3. \A e \in late' : MayRun(lab, vms, e.host, e.cmd)
    BY <1>2, <1>3, <1>4 DEF Quiet, Abandoned
  <2> QED
    BY <1>1, <1>2, <2>1, <2>2, <2>3 DEF PrefixInv
<1>5. ASSUME NEW k \in todo, Generate(k) PROVE PrefixInv'
  <2> DEFINE s == GenCreateCommands(lab, lab.vms[k])
  <2>1. vms' = vms /\ late' = late /\ TakeVm(k) /\ pc = "exec"
        /\ host' = lab.vms[k].hypervisor /\ cmds' = s
    BY <1>5 DEF Generate, hypervisors, TakeVm
  <2>2. lab \in Labs /\ Valid(lab) /\ k \in DOMAIN lab.vms
    BY <1>1, <2>1 DEF LabctlType
  <2>3. CommandsFit(lab, lab.vms[k], s)
    BY <2>2, CommandsShape
  <2>4. ASSUME NEW i \in DOMAIN s PROVE MayRun(lab, vms, lab.vms[k].hypervisor, s[i])
    <3>1. s # <<>>
      BY <2>4
    <3>2. Ready(lab, vms, lab.vms[k])
      BY <2>1, <3>1, TakenIsReady
    <3> HIDE DEF s
    <3>3. s[i].vmid = lab.vms[k].vmid /\ s[i].name = lab.vms[k].name
      BY <2>3, <2>4 DEF CommandsFit
    <3>4. \A m \in DOMAIN lab.vms : lab.vms[m].name = s[i].name => m = k
      BY <2>2, <3>3 DEF Valid, NamesUnique
    <3> QED
      BY <3>2, <3>4 DEF MayRun
  <2> HIDE DEF s
  <2> QED
    BY <1>1, <1>2, <2>1, <2>4 DEF PrefixInv
<1>6. ASSUME NEW h \in Hosts, NEW c \in Commands, Execute(h, c), MayRun(lab, vms, h, c)
      PROVE  /\ Prefix(lab, vms')
             /\ \A g \in Hosts : \A d : MayRun(lab, vms, g, d) => MayRun(lab, vms', g, d)
  BY <1>1, <1>2, <1>6, ExecutePrefix, MayRunStays
<1>7. \A e \in late : e.host \in Hosts /\ e.cmd \in Commands
  BY <1>1 DEF AbandonedCommands
<1>8. CASE RunOk
  <2>1. /\ cmds # <<>> /\ Execute(host, Head(cmds)) /\ cmds' = Tail(cmds)
        /\ host' = host /\ late' = late
    BY <1>8 DEF RunOk
  <2>2. /\ Prefix(lab, vms')
        /\ \A g \in Hosts : \A d : MayRun(lab, vms, g, d) => MayRun(lab, vms', g, d)
    BY <1>3, <1>6, <2>1
  <2>3. \A i \in DOMAIN Tail(cmds) : MayRun(lab, vms', host, Tail(cmds)[i])
    BY <1>3, <2>1, <2>2
  <2>4. \A e \in late : MayRun(lab, vms', e.host, e.cmd)
    BY <1>2, <1>7, <2>2
  <2> QED
    BY <1>1, <2>1, <2>2, <2>3, <2>4 DEF PrefixInv
<1>9. ASSUME NEW e \in late, LateRun(e) PROVE PrefixInv'
  <2>1. /\ Execute(e.host, e.cmd) /\ late' \subseteq late
        /\ host' = host /\ cmds' = cmds
    BY <1>9 DEF LateRun, runner
  <2>2. /\ Prefix(lab, vms')
        /\ \A g \in Hosts : \A d : MayRun(lab, vms, g, d) => MayRun(lab, vms', g, d)
    BY <1>2, <1>6, <1>7, <2>1
  <2>3. \A i \in DOMAIN cmds : MayRun(lab, vms', host, cmds[i])
    <3>1. CASE cmds = <<>>
      BY <3>1
    <3>2. CASE cmds # <<>>
      BY <1>2, <1>3, <2>2, <3>2
    <3> QED
      BY <3>1, <3>2
  <2>4. \A d \in late : MayRun(lab, vms', d.host, d.cmd)
    BY <1>2, <1>7, <2>2
  <2> QED
    BY <1>1, <2>1, <2>2, <2>3, <2>4 DEF PrefixInv
<1> QED
  BY <1>4, <1>5, <1>8, <1>9, StrictSteps

\* For operators who never pass --keep-going no VM exists on a hypervisor before
\* those ordered before it there, across failures, interrupts, late commands and
\* runs limited to one hypervisor.
THEOREM StartOrderKept == Strict => (Spec => []StartOrderPrefix)
<1> SUFFICES ASSUME Strict PROVE Spec => []StartOrderPrefix
  OBVIOUS
<1> DEFINE Inv == TypeInv /\ DoneInv /\ NotFailed /\ PrefixInv
<1>1. Init => Inv
  BY TypeInvInit, DoneInit, NotFailedInit, PrefixInit
<1>2. Inv /\ [Next]_vars => Inv'
  BY TypeInvStep, DoneStep, NotFailedStep, PrefixStep
<1>3. Inv => StartOrderPrefix
  BY DEF PrefixInv, Prefix, Ready, VmOn, HasVm, StartOrderPrefix
<1> QED
  BY <1>1, <1>2, <1>3, PTL DEF Spec

(***************************************************************************)
(* What labctl shows before it runs anything is what it then runs.         *)
(***************************************************************************)

\* A set that holds 0 and every successor holds all naturals.
LEMMA HoldsAll ==
  ASSUME NEW G, 0 \in G, \A n \in Nat : n \in G => n + 1 \in G
  PROVE  Nat \subseteq G
<1> SUFFICES ASSUME Nat \ G # {} PROVE FALSE
  OBVIOUS
<1>1. Nat \ G \subseteq Nat
  OBVIOUS
<1>2. PICK x \in Nat \ G : \A y \in Nat \ G : x <= y
  BY <1>1, LeastElement
<1>3. x # 0 /\ x - 1 \in Nat /\ ~(x <= x - 1) /\ (x - 1) + 1 = x
  BY <1>2
<1> QED
  BY <1>2, <1>3

\* k goes through what is kept of the first elements of s.
Kept(s, S, k) ==
  k = [i \in 0..Len(s) |-> IF i = 0 THEN <<>>
                           ELSE IF s[i] \in S THEN Append(k[i - 1], s[i])
                           ELSE k[i - 1]]

\* The steps of Kept, one at a time.
LEMMA KeptSteps ==
  ASSUME NEW X, NEW s \in Seq(X), NEW S, NEW k, Kept(s, S, k)
  PROVE  /\ k[0] = <<>>
         /\ \A i \in 1..Len(s) : k[i] = IF s[i] \in S THEN Append(k[i - 1], s[i])
                                        ELSE k[i - 1]
<1> DEFINE F(h) == [i \in 0..Len(s) |-> IF i = 0 THEN <<>>
                                        ELSE IF s[i] \in S THEN Append(h[i - 1], s[i])
                                        ELSE h[i - 1]]
<1>1. Len(s) \in Nat
  OBVIOUS
<1>2. /\ F(k)[0] = <<>>
      /\ \A i \in 1..Len(s) : F(k)[i] = IF s[i] \in S THEN Append(k[i - 1], s[i])
                                        ELSE k[i - 1]
  BY <1>1
<1>3. k = F(k)
  BY DEF Kept
<1> HIDE DEF F
<1> QED
  BY <1>2, <1>3

\* k is a function on 0..n and nothing more.
Over(k, n) == k = [i \in 0..n |-> k[i]]

\* A function that goes step by step like that is it.
LEMMA KeptIs ==
  ASSUME NEW X, NEW s \in Seq(X), NEW S, NEW k,
         Over(k, Len(s)), k[0] = <<>>,
         \A i \in 1..Len(s) : k[i] = IF s[i] \in S THEN Append(k[i - 1], s[i])
                                     ELSE k[i - 1]
  PROVE  Kept(s, S, k)
<1>1. Len(s) \in Nat
  OBVIOUS
<1>2. \A i \in 0..Len(s) : k[i] = IF i = 0 THEN <<>>
                                  ELSE IF s[i] \in S THEN Append(k[i - 1], s[i])
                                  ELSE k[i - 1]
  <2> SUFFICES ASSUME NEW i \in 0..Len(s)
               PROVE  k[i] = IF i = 0 THEN <<>>
                             ELSE IF s[i] \in S THEN Append(k[i - 1], s[i])
                             ELSE k[i - 1]
    OBVIOUS
  <2>1. CASE i = 0
    BY <2>1
  <2>2. CASE i \in 1..Len(s)
    <3>1. i # 0
      BY <2>2
    <3> QED
      BY <2>2, <3>1
  <2> QED
    BY <1>1, <2>1, <2>2
<1>3. [i \in 0..Len(s) |-> k[i]] = [i \in 0..Len(s) |-> IF i = 0 THEN <<>>
                                  ELSE IF s[i] \in S THEN Append(k[i - 1], s[i])
                                  ELSE k[i - 1]]
  BY <1>2
<1> QED
  BY <1>3 DEF Kept, Over

\* What is kept of each element is kept elements.
LEMMA KeptType ==
  ASSUME NEW X, NEW s \in Seq(X), NEW S, NEW k, Kept(s, S, k)
  PROVE  \A i \in 0..Len(s) : k[i] \in Seq(X)
<1> DEFINE m == Len(s)
           G == {n \in Nat : n \in 0..m => k[n] \in Seq(X)}
<1>1. /\ m \in Nat /\ k[0] = <<>>
      /\ \A i \in 1..m : k[i] = IF s[i] \in S THEN Append(k[i - 1], s[i]) ELSE k[i - 1]
  BY KeptSteps
<1>2. 0 \in G
  <2>1. <<>> \in Seq(X)
    OBVIOUS
  <2> QED
    BY <1>1, <2>1
<1>3. ASSUME NEW n \in Nat, n \in G PROVE n + 1 \in G
  <2> SUFFICES ASSUME n + 1 \in 0..m PROVE k[n + 1] \in Seq(X)
    OBVIOUS
  <2>1. n \in 0..m /\ n + 1 \in 1..m /\ (n + 1) - 1 = n
    BY <1>1
  <2>2. k[n] \in Seq(X) /\ s[n + 1] \in X
    BY <1>3, <2>1
  <2>3. k[n + 1] = IF s[n + 1] \in S THEN Append(k[n], s[n + 1]) ELSE k[n]
    BY <1>1, <2>1
  <2> QED
    BY <2>2, <2>3
<1>4. Nat \subseteq G
  <2> HIDE DEF G
  <2> QED
    BY <1>2, <1>3, HoldsAll
<1> QED
  BY <1>1, <1>4

\* There is only one function that goes through s like that.
LEMMA KeptUnique ==
  ASSUME NEW X, NEW s \in Seq(X), NEW S, NEW k, NEW j, Kept(s, S, k), Kept(s, S, j)
  PROVE  k[Len(s)] = j[Len(s)]
<1> DEFINE m == Len(s)
           G == {n \in Nat : n \in 0..m => k[n] = j[n]}
<1>1. /\ m \in Nat /\ k[0] = <<>> /\ j[0] = <<>>
      /\ \A i \in 1..m : /\ k[i] = IF s[i] \in S THEN Append(k[i - 1], s[i]) ELSE k[i - 1]
                         /\ j[i] = IF s[i] \in S THEN Append(j[i - 1], s[i]) ELSE j[i - 1]
  BY KeptSteps
<1>2. 0 \in G
  BY <1>1
<1>3. ASSUME NEW n \in Nat, n \in G PROVE n + 1 \in G
  <2> SUFFICES ASSUME n + 1 \in 0..m PROVE k[n + 1] = j[n + 1]
    OBVIOUS
  <2>1. n \in 0..m /\ n + 1 \in 1..m /\ (n + 1) - 1 = n
    BY <1>1
  <2>2. k[n] = j[n]
    BY <1>3, <2>1
  <2> QED
    BY <1>1, <2>1, <2>2
<1>4. Nat \subseteq G
  <2> HIDE DEF G
  <2> QED
    BY <1>2, <1>3, HoldsAll
<1>5. m \in G /\ m \in 0..m
  BY <1>1, <1>4
<1> QED
  BY <1>5

\* A concatenation with something appended ends with it.
LEMMA ConcatAppend ==
  ASSUME NEW X, NEW s \in Seq(X), NEW t \in Seq(X), NEW x \in X
  PROVE  s \o Append(t, x) = Append(s \o t, x)
  OBVIOUS

\* r is what is kept of all of s.
Keeps(s, S, r) == \E k : Kept(s, S, k) /\ k[Len(s)] = r

\* Of a concatenation the kept ones of its parts are kept, one after another.
LEMMA KeepsConcat ==
  ASSUME NEW X, NEW s \in Seq(X), NEW t \in Seq(X), NEW S, NEW a, NEW b,
         Keeps(s, S, a), Keeps(t, S, b)
  PROVE  Keeps(s \o t, S, a \o b)
<1>a. PICK ks : Kept(s, S, ks) /\ ks[Len(s)] = a
  BY DEF Keeps
<1>b. PICK kt : Kept(t, S, kt) /\ kt[Len(t)] = b
  BY DEF Keeps
<1> DEFINE u == s \o t
           m == Len(s)
           n == Len(t)
           k == [i \in 0..Len(u) |-> IF i <= m THEN ks[i] ELSE ks[m] \o kt[i - m]]
<1>1. /\ m \in Nat /\ n \in Nat /\ u \in Seq(X) /\ Len(u) = m + n
      /\ \A i \in 1..m : u[i] = s[i]
      /\ \A i \in 1..n : u[m + i] = t[i]
  OBVIOUS
<1>2. /\ ks[0] = <<>>
      /\ \A i \in 1..m : ks[i] = IF s[i] \in S THEN Append(ks[i - 1], s[i]) ELSE ks[i - 1]
  BY <1>a, KeptSteps
<1>3. /\ kt[0] = <<>>
      /\ \A i \in 1..n : kt[i] = IF t[i] \in S THEN Append(kt[i - 1], t[i]) ELSE kt[i - 1]
  BY <1>a, <1>b, KeptSteps
<1>4. ks[m] \in Seq(X) /\ \A i \in 0..n : kt[i] \in Seq(X)
  BY <1>1, <1>a, <1>b, KeptType
<1>5. \A i \in 0..n : k[m + i] = ks[m] \o kt[i]
  <2> SUFFICES ASSUME NEW i \in 0..n PROVE k[m + i] = ks[m] \o kt[i]
    OBVIOUS
  <2>1. m + i \in 0..Len(u) /\ (m + i) - m = i
    BY <1>1
  <2>2. CASE i = 0
    <3>1. k[m + i] = ks[m] /\ kt[i] = <<>>
      BY <2>1, <2>2, <1>1, <1>3
    <3> QED
      BY <3>1, <1>4
  <2>3. CASE i # 0
    <3>1. ~(m + i <= m)
      BY <2>3, <1>1
    <3> QED
      BY <3>1, <2>1
  <2> QED
    BY <2>2, <2>3
<1>6. \A i \in 0..m : k[i] = ks[i]
  BY <1>1
<1>7. Over(k, Len(u))
  BY DEF Over
<1> HIDE DEF k, u
<1>8. \A i \in 1..Len(u) : k[i] = IF u[i] \in S THEN Append(k[i - 1], u[i]) ELSE k[i - 1]
  <2> SUFFICES ASSUME NEW i \in 1..Len(u)
               PROVE  k[i] = IF u[i] \in S THEN Append(k[i - 1], u[i]) ELSE k[i - 1]
    OBVIOUS
  <2>1. CASE i \in 1..m
    <3>1. i \in 0..m /\ i - 1 \in 0..m
      BY <2>1, <1>1
    <3>2. k[i] = ks[i] /\ k[i - 1] = ks[i - 1] /\ u[i] = s[i]
      BY <3>1, <2>1, <1>1, <1>6
    <3> QED
      BY <3>2, <2>1, <1>2
  <2>2. CASE i \notin 1..m
    <3>1. PICK j \in 1..n : i = m + j
      <4>1. i - m \in 1..n /\ i = m + (i - m)
        BY <2>2, <1>1
      <4> QED
        BY <4>1
    <3>2. j \in 0..n /\ j - 1 \in 0..n /\ i - 1 = m + (j - 1)
      BY <3>1, <1>1
    <3>3. k[i] = ks[m] \o kt[j] /\ k[i - 1] = ks[m] \o kt[j - 1] /\ u[i] = t[j]
      BY <3>1, <3>2, <1>1, <1>5
    <3>4. kt[j] = IF t[j] \in S THEN Append(kt[j - 1], t[j]) ELSE kt[j - 1]
      BY <1>3
    <3>5. t[j] \in X /\ kt[j - 1] \in Seq(X)
      BY <3>2, <1>4
    <3>6. ks[m] \o Append(kt[j - 1], t[j]) = Append(ks[m] \o kt[j - 1], t[j])
      <4>1. \A v, w \in Seq(X), x \in X : v \o Append(w, x) = Append(v \o w, x)
        BY ConcatAppend
      <4> QED
        BY <4>1, <3>5, <1>4, Zenon
    <3> QED
      BY <3>3, <3>4, <3>6
  <2> QED
    BY <2>1, <2>2
<1>9. k[0] = <<>>
  BY <1>1, <1>2, <1>6
<1>10. Kept(u, S, k)
  BY <1>1, <1>7, <1>8, <1>9, KeptIs
<1>11. k[Len(u)] = ks[m] \o kt[n]
  <2>1. n \in 0..n /\ Len(u) = m + n
    BY <1>1
  <2> QED
    BY <2>1, <1>5
<1>12. Keeps(u, S, ks[m] \o kt[n])
  BY <1>10, <1>11 DEF Keeps
<1> QED
  BY <1>12, <1>a, <1>b DEF u

\* One element that is in S is kept, and nothing else.
LEMMA KeepsOne ==
  ASSUME NEW X, NEW x \in X, NEW S
  PROVE  Keeps(<<x>>, S, IF x \in S THEN <<x>> ELSE <<>>)
<1> DEFINE k == [i \in 0..1 |-> IF i = 1 /\ x \in S THEN <<x>> ELSE <<>>]
           s == <<x>>
<1>1. s \in Seq(X) /\ Len(s) = 1 /\ s[1] = x
  OBVIOUS
<1>2. k[0] = <<>> /\ k[1] = IF x \in S THEN <<x>> ELSE <<>>
  OBVIOUS
<1>3. Over(k, 1)
  BY DEF Over
<1>4. Append(<<>>, x) = <<x>>
  OBVIOUS
<1> HIDE DEF k, s
<1>5. \A i \in 1..1 : k[i] = IF s[i] \in S THEN Append(k[i - 1], s[i]) ELSE k[i - 1]
  <2>1. k[1] = IF s[1] \in S THEN Append(k[0], s[1]) ELSE k[0]
    BY <1>1, <1>2, <1>4
  <2>2. \A i \in 1..1 : i = 1 /\ i - 1 = 0
    OBVIOUS
  <2> QED
    BY <2>1, <2>2
<1>6. Kept(s, S, k)
  BY <1>1, <1>2, <1>5, <1>3, KeptIs
<1>7. Keeps(s, S, IF x \in S THEN <<x>> ELSE <<>>)
  BY <1>1, <1>2, <1>6 DEF Keeps
<1> QED
  BY <1>7 DEF s

\* One element that is not in S is left out.
LEMMA KeepsNone ==
  ASSUME NEW X, NEW S
  PROVE  Keeps(<<>>, S, <<>>)
<1> DEFINE k == [i \in 0..0 |-> <<>>]
           s == <<>>
<1>1. Over(k, 0) /\ k[0] = <<>>
  BY DEF Over
<1>2. s \in Seq(X) /\ Len(s) = 0
  OBVIOUS
<1> HIDE DEF k, s
<1>3. \A i \in 1..Len(s) : k[i] = IF s[i] \in S THEN Append(k[i - 1], s[i]) ELSE k[i - 1]
  BY <1>2
<1>4. Kept(s, S, k)
  BY <1>1, <1>2, <1>3, KeptIs
<1>5. Keeps(s, S, <<>>)
  BY <1>1, <1>2, <1>4 DEF Keeps
<1> QED
  BY <1>5 DEF s

\* Of every sequence something is kept.
LEMMA KeepsSome ==
  ASSUME NEW X, NEW S
  PROVE  \A s \in Seq(X) : \E r : Keeps(s, S, r)
<1> DEFINE G == {n \in Nat : \A s \in Seq(X) : Len(s) = n => \E r : Keeps(s, S, r)}
<1>1. 0 \in G
  <2> SUFFICES ASSUME NEW s \in Seq(X), Len(s) = 0 PROVE \E r : Keeps(s, S, r)
    OBVIOUS
  <2>1. s = <<>>
    OBVIOUS
  <2> QED
    BY <2>1, KeepsNone
<1>2. ASSUME NEW n \in Nat, n \in G PROVE n + 1 \in G
  <2> SUFFICES ASSUME NEW s \in Seq(X), Len(s) = n + 1 PROVE \E r : Keeps(s, S, r)
    OBVIOUS
  <2> DEFINE front == SubSeq(s, 1, n)
             last  == <<s[n + 1]>>
  <2>1. front \in Seq(X) /\ Len(front) = n /\ s[n + 1] \in X /\ last \in Seq(X)
    OBVIOUS
  <2>2. s = front \o last
    OBVIOUS
  <2>3. PICK rf : Keeps(front, S, rf)
    BY <1>2, <2>1
  <2>4. PICK rl : Keeps(last, S, rl)
    BY <2>1, KeepsOne
  <2> HIDE DEF front, last
  <2>5. Keeps(front \o last, S, rf \o rl)
    BY <2>1, <2>3, <2>4, KeepsConcat
  <2> QED
    BY <2>2, <2>5
<1>3. Nat \subseteq G
  <2> HIDE DEF G
  <2> QED
    BY <1>1, <1>2, HoldsAll
<1> QED
  BY <1>3

\* What is kept is one list: Only.
LEMMA OnlyIs ==
  ASSUME NEW X, NEW s \in Seq(X), NEW S, NEW r, Keeps(s, S, r)
  PROVE  Only(s, S) = r /\ r \in Seq(X)
<1> DEFINE c == CHOOSE h : h = [i \in 0..Len(s) |-> IF i = 0 THEN <<>>
                                  ELSE IF s[i] \in S THEN Append(h[i - 1], s[i])
                                  ELSE h[i - 1]]
<1>1. PICK k : Kept(s, S, k) /\ k[Len(s)] = r
  BY DEF Keeps
<1>2. Kept(s, S, c)
  BY <1>1 DEF Kept
<1>3. Only(s, S) = c[Len(s)]
  BY DEF Only
<1> HIDE DEF c
<1>4. c[Len(s)] = k[Len(s)]
  BY <1>1, <1>2, KeptUnique
<1>5. Len(s) \in 0..Len(s)
  OBVIOUS
<1>6. k[Len(s)] \in Seq(X)
  BY <1>1, <1>5, KeptType
<1> QED
  BY <1>1, <1>3, <1>4, <1>6

\* Of one element Only leaves it, or nothing.
LEMMA OnlyOne ==
  ASSUME NEW X, NEW x \in X, NEW S
  PROVE  /\ Only(<<x>>, S) = IF x \in S THEN <<x>> ELSE <<>>
         /\ Only(<<>>, S) = <<>>
<1>1. <<x>> \in Seq(X) /\ <<>> \in Seq(X)
  OBVIOUS
<1>2. Only(<<x>>, S) = IF x \in S THEN <<x>> ELSE <<>>
  BY <1>1, KeepsOne, OnlyIs
<1>3. Only(<<>>, S) = <<>>
  BY <1>1, KeepsNone, OnlyIs
<1> QED
  BY <1>2, <1>3

-----------------------------------------------------------------------------
(* The order of the VMs *)

\* The VMs of a manifest are finitely many, with distinct names.
LEMMA VmsOf ==
  ASSUME NEW l \in Labs, Valid(l)
  PROVE  /\ IsFiniteSet(DOMAIN l.vms)
         /\ \A k \in DOMAIN l.vms : /\ l.vms[k] \in VmEntries
                                    /\ l.vms[k] \in Elements(l.vms)
                                    /\ l.vms[k].hypervisor \in Hosts
         /\ \A k, m \in DOMAIN l.vms : k # m => l.vms[k].name # l.vms[m].name
<1>1. l.vms \in Seq(VmEntries)
  BY LabsAssumption
<1>2. Len(l.vms) \in Nat /\ DOMAIN l.vms = 1..Len(l.vms)
  BY <1>1
<1>3. IsFiniteSet(1..Len(l.vms))
  BY <1>2, FS_Interval
<1>4. \A k \in DOMAIN l.vms : l.vms[k] \in VmEntries /\ l.vms[k] \in Elements(l.vms)
  BY <1>1 DEF Elements
<1> QED
  BY <1>2, <1>3, <1>4, PlacedOnHost DEF Valid, NamesUnique

\* Any VMs have a first one.
LEMMA FirstIs ==
  ASSUME NEW l \in Labs, Valid(l), NEW T \in SUBSET DOMAIN l.vms, T # {}
  PROVE  /\ First(l, T) \in T
         /\ \A m \in T \ {First(l, T)} : Precedes(l.vms[First(l, T)], l.vms[m])
<1>1. \A k \in T : /\ l.vms[k].hypervisor \in Nat /\ l.vms[k].start_order \in Nat
                   /\ l.vms[k].name \in Nat
  BY VmsOf DEF VmEntries
<1>2. PICK h \in {l.vms[k].hypervisor : k \in T} :
        \A x \in {l.vms[k].hypervisor : k \in T} : h <= x
  <2>1. {l.vms[k].hypervisor : k \in T} \subseteq Nat /\ {l.vms[k].hypervisor : k \in T} # {}
    BY <1>1
  <2> QED
    BY <2>1, LeastElement
<1> DEFINE A == {k \in T : l.vms[k].hypervisor = h}
<1>3. PICK o \in {l.vms[k].start_order : k \in A} :
        \A x \in {l.vms[k].start_order : k \in A} : o <= x
  <2>1. {l.vms[k].start_order : k \in A} \subseteq Nat /\ {l.vms[k].start_order : k \in A} # {}
    BY <1>1, <1>2
  <2> QED
    BY <2>1, LeastElement
<1> DEFINE B == {k \in A : l.vms[k].start_order = o}
<1>4. PICK n \in {l.vms[k].name : k \in B} : \A x \in {l.vms[k].name : k \in B} : n <= x
  <2>1. {l.vms[k].name : k \in B} \subseteq Nat /\ {l.vms[k].name : k \in B} # {}
    BY <1>1, <1>3
  <2> QED
    BY <2>1, LeastElement
<1>5. PICK k \in B : l.vms[k].name = n
  BY <1>4
<1>6. ASSUME NEW m \in T \ {k} PROVE Precedes(l.vms[k], l.vms[m])
  <2>1. h <= l.vms[m].hypervisor
    BY <1>2
  <2>2. l.vms[m].hypervisor = h => o <= l.vms[m].start_order
    BY <1>3
  <2>3. l.vms[m].hypervisor = h /\ l.vms[m].start_order = o => n <= l.vms[m].name
    BY <1>4
  <2>4. l.vms[m].name # n
    BY <1>5, VmsOf
  <2>5. k \in T /\ l.vms[k].hypervisor = h /\ l.vms[k].start_order = o /\ l.vms[k].name = n
    BY <1>5
  <2> HIDE DEF A, B
  <2> QED
    BY <1>1, <2>1, <2>2, <2>3, <2>4, <2>5 DEF Precedes
<1>7. k \in T
  BY <1>5
<1> QED
  BY <1>6, <1>7 DEF First

\* and only one.
LEMMA FirstUnique ==
  ASSUME NEW l \in Labs, Valid(l), NEW T \in SUBSET DOMAIN l.vms, NEW k \in T,
         \A m \in T \ {k} : Precedes(l.vms[k], l.vms[m])
  PROVE  First(l, T) = k
<1>1. /\ First(l, T) \in T
      /\ \A m \in T \ {First(l, T)} : Precedes(l.vms[First(l, T)], l.vms[m])
  BY FirstIs
<1> SUFFICES ASSUME First(l, T) # k PROVE FALSE
  OBVIOUS
<1>2. PICK j \in T : j = First(l, T)
  BY <1>1
<1>3. Precedes(l.vms[k], l.vms[j]) /\ Precedes(l.vms[j], l.vms[k])
  BY <1>1, <1>2
<1>4. l.vms[k] \in VmEntries /\ l.vms[j] \in VmEntries
  BY VmsOf
<1> QED
  BY <1>3, <1>4, PrecedesStrict

\* What holds of no VM, and of a set when it holds of the set without any one of its
\* VMs, holds of all sets of VMs.
LEMMA AllSets ==
  ASSUME NEW D, IsFiniteSet(D), NEW G, {} \in G,
         \A T \in SUBSET D : T # {} /\ (\A k \in T : T \ {k} \in G) => T \in G
  PROVE  SUBSET D \subseteq G
<1> DEFINE H == {n \in Nat : \A T \in SUBSET D : Cardinality(T) = n => T \in G}
<1>1. \A T \in SUBSET D : IsFiniteSet(T) /\ Cardinality(T) \in Nat
  BY FS_Subset, FS_CardinalityType
<1>2. 0 \in H
  <2>1. \A T \in SUBSET D : Cardinality(T) = 0 => T = {}
    BY <1>1, FS_EmptySet
  <2> QED
    BY <2>1
<1>3. ASSUME NEW n \in Nat, n \in H PROVE n + 1 \in H
  <2> SUFFICES ASSUME NEW T \in SUBSET D, Cardinality(T) = n + 1 PROVE T \in G
    OBVIOUS
  <2>1. T # {}
    <3>1. Cardinality(T) # 0
      OBVIOUS
    <3> QED
      BY <3>1, FS_EmptySet
  <2>2. ASSUME NEW k \in T PROVE T \ {k} \in G
    <3>1. Cardinality(T \ {k}) = n
      <4>1. Cardinality(T \ {k}) = Cardinality(T) - 1
        BY <1>1, FS_RemoveElement
      <4> QED
        BY <4>1
    <3>2. T \ {k} \in SUBSET D
      OBVIOUS
    <3> QED
      BY <1>3, <3>1, <3>2
  <2> QED
    BY <2>1, <2>2
<1>4. Nat \subseteq H
  <2> HIDE DEF H
  <2> QED
    BY <1>2, <1>3, HoldsAll
<1> QED
  BY <1>1, <1>4

-----------------------------------------------------------------------------
(* Listings *)

\* f lists what `of` has for the VMs of any set, when these are at most n.
ListsUpTo(l, of, f, n) ==
  \A T \in SUBSET DOMAIN l.vms : Cardinality(T) <= n =>
    f[T] = IF T = {} THEN <<>> ELSE of[First(l, T)] \o f[T \ {First(l, T)}]

\* A listing of at most n VMs can be continued to n + 1.
LEMMA ListsMoreVms ==
  ASSUME NEW l \in Labs, Valid(l), NEW of, NEW n \in Nat, NEW f, ListsUpTo(l, of, f, n)
  PROVE  \E g : ListsUpTo(l, of, g, n + 1)
<1> DEFINE D == DOMAIN l.vms
           g == [T \in SUBSET D |-> IF Cardinality(T) <= n THEN f[T]
                                    ELSE of[First(l, T)] \o f[T \ {First(l, T)}]]
<1>1. \A T \in SUBSET D : IsFiniteSet(T) /\ Cardinality(T) \in Nat
  BY VmsOf, FS_Subset, FS_CardinalityType
<1>2. ASSUME NEW T \in SUBSET D, T # {}
      PROVE  /\ T \ {First(l, T)} \in SUBSET D
             /\ Cardinality(T \ {First(l, T)}) = Cardinality(T) - 1
  <2>1. First(l, T) \in T
    BY <1>2, FirstIs
  <2> QED
    BY <1>1, <2>1, FS_RemoveElement
<1>3. \A T \in SUBSET D : Cardinality(T) <= n => g[T] = f[T]
  OBVIOUS
<1>4. \A T \in SUBSET D : ~(Cardinality(T) <= n) =>
        g[T] = of[First(l, T)] \o f[T \ {First(l, T)}]
  OBVIOUS
<1> HIDE DEF g
<1>5. ASSUME NEW T \in SUBSET D, Cardinality(T) <= n + 1
      PROVE  g[T] = IF T = {} THEN <<>> ELSE of[First(l, T)] \o g[T \ {First(l, T)}]
  <2>1. CASE T = {}
    <3>1. Cardinality(T) <= n
      BY <2>1, FS_EmptySet
    <3>2. f[T] = <<>>
      BY <2>1, <3>1 DEF ListsUpTo
    <3> QED
      BY <1>3, <2>1, <3>1, <3>2
  <2>2. CASE T # {}
    <3>1. g[T \ {First(l, T)}] = f[T \ {First(l, T)}]
      <4>1. Cardinality(T \ {First(l, T)}) <= n
        BY <1>1, <1>2, <1>5, <2>2
      <4> QED
        BY <1>2, <1>3, <2>2, <4>1
    <3>2. g[T] = of[First(l, T)] \o f[T \ {First(l, T)}]
      <4>1. CASE Cardinality(T) <= n
        <5>1. f[T] = of[First(l, T)] \o f[T \ {First(l, T)}]
          BY <2>2, <4>1 DEF ListsUpTo
        <5> QED
          BY <1>3, <4>1, <5>1
      <4>2. CASE ~(Cardinality(T) <= n)
        BY <1>4, <4>2
      <4> QED
        BY <4>1, <4>2
    <3> QED
      BY <2>2, <3>1, <3>2
  <2> QED
    BY <2>1, <2>2
<1>6. ListsUpTo(l, of, g, n + 1)
  BY <1>5 DEF ListsUpTo
<1> QED
  BY <1>6

\* f lists what `of` has for the VMs of any set.
Listing(l, of, f) ==
  f = [T \in SUBSET DOMAIN l.vms |->
         IF T = {} THEN <<>> ELSE of[First(l, T)] \o f[T \ {First(l, T)}]]

\* There is a listing of all sets of VMs of a manifest.
LEMMA ListsExist ==
  ASSUME NEW l \in Labs, Valid(l), NEW of
  PROVE  \E f : Listing(l, of, f)
<1> DEFINE D == DOMAIN l.vms
           G == {n \in Nat : \E f : ListsUpTo(l, of, f, n)}
<1>1. \A T \in SUBSET D : IsFiniteSet(T) /\ Cardinality(T) \in Nat
                          /\ Cardinality(T) <= Cardinality(D)
  BY VmsOf, FS_Subset, FS_CardinalityType
<1>2. 0 \in G
  <2> DEFINE f == [T \in SUBSET D |-> <<>>]
  <2>1. \A T \in SUBSET D : Cardinality(T) <= 0 => T = {} /\ f[T] = <<>>
    BY <1>1, FS_EmptySet
  <2> HIDE DEF f
  <2>2. ListsUpTo(l, of, f, 0)
    BY <2>1 DEF ListsUpTo
  <2> QED
    BY <2>2
<1>3. ASSUME NEW n \in Nat, n \in G PROVE n + 1 \in G
  <2>1. PICK f : ListsUpTo(l, of, f, n)
    BY <1>3
  <2> QED
    BY <2>1, ListsMoreVms
<1>4. Nat \subseteq G
  <2> HIDE DEF G
  <2> QED
    BY <1>2, <1>3, HoldsAll
<1>5. Cardinality(D) \in Nat
  BY VmsOf, FS_CardinalityType
<1>6. PICK f : ListsUpTo(l, of, f, Cardinality(D))
  BY <1>4, <1>5
<1> DEFINE F(h) == [T \in SUBSET D |->
                      IF T = {} THEN <<>> ELSE of[First(l, T)] \o h[T \ {First(l, T)}]]
<1>7. \A T \in SUBSET D : f[T] = F(f)[T]
  BY <1>1, <1>6 DEF ListsUpTo
<1>8. \A T \in SUBSET D : T # {} => T \ {First(l, T)} \in SUBSET D
  OBVIOUS
<1>9. F(f) = F(F(f))
  <2>1. ASSUME NEW T \in SUBSET D, T # {}
        PROVE  F(f)[T \ {First(l, T)}] = f[T \ {First(l, T)}]
    <3> HIDE DEF F
    <3> QED
      BY <1>7, <1>8, <2>1
  <2> DEFINE e == F(f)
  <2>2. e = [T \in SUBSET D |-> IF T = {} THEN <<>> ELSE of[First(l, T)] \o f[T \ {First(l, T)}]]
    OBVIOUS
  <2>3. \A T \in SUBSET D : T # {} => e[T \ {First(l, T)}] = f[T \ {First(l, T)}]
    BY <2>1
  <2> HIDE DEF e
  <2>4. e = F(e)
    BY <2>2, <2>3
  <2> QED
    BY <2>4 DEF e
<1>10. Listing(l, of, F(f))
  BY <1>9 DEF Listing
<1> QED
  BY <1>10

\* InOrder goes through the VMs of a set in their order.
LEMMA InOrderSteps ==
  ASSUME NEW l \in Labs, Valid(l), NEW of
  PROVE  /\ InOrder(l, of)[{}] = <<>>
         /\ \A T \in SUBSET DOMAIN l.vms : T # {} =>
              /\ First(l, T) \in T
              /\ InOrder(l, of)[T] =
                   of[First(l, T)] \o InOrder(l, of)[T \ {First(l, T)}]
<1> DEFINE D == DOMAIN l.vms
           F(h) == [T \in SUBSET D |->
                      IF T = {} THEN <<>> ELSE of[First(l, T)] \o h[T \ {First(l, T)}]]
           f == CHOOSE h : h = F(h)
<1>1. f = F(f)
  <2>1. PICK h : Listing(l, of, h)
    BY ListsExist
  <2>2. Listing(l, of, f)
    BY <2>1 DEF Listing
  <2> HIDE DEF f
  <2> QED
    BY <2>2 DEF Listing
<1>2. InOrder(l, of) = f
  BY DEF InOrder
<1>3. /\ F(f)[{}] = <<>>
      /\ \A T \in SUBSET D : T # {} =>
           F(f)[T] = of[First(l, T)] \o f[T \ {First(l, T)}]
  <2> HIDE DEF f
  <2> QED
    OBVIOUS
<1> HIDE DEF f, F
<1> QED
  BY <1>1, <1>2, <1>3, FirstIs

\* Listings of lists are lists.
LEMMA InOrderType ==
  ASSUME NEW l \in Labs, Valid(l), NEW X, NEW of \in [DOMAIN l.vms -> Seq(X)]
  PROVE  \A T \in SUBSET DOMAIN l.vms : InOrder(l, of)[T] \in Seq(X)
<1> DEFINE D == DOMAIN l.vms
           f == InOrder(l, of)
           G == {T \in SUBSET D : f[T] \in Seq(X)}
<1>1. /\ f[{}] = <<>>
      /\ \A T \in SUBSET D : T # {} =>
           First(l, T) \in T /\ f[T] = of[First(l, T)] \o f[T \ {First(l, T)}]
  BY InOrderSteps
<1> HIDE DEF f
<1>2. {} \in G
  <2>1. {} \in SUBSET D /\ <<>> \in Seq(X)
    OBVIOUS
  <2> QED
    BY <1>1, <2>1
<1>3. ASSUME NEW T \in SUBSET D, T # {}, \A k \in T : T \ {k} \in G PROVE T \in G
  <2>1. PICK k \in T : k = First(l, T)
    BY <1>1, <1>3
  <2>2. f[T \ {k}] \in Seq(X) /\ of[k] \in Seq(X)
    BY <1>3
  <2>3. of[k] \o f[T \ {k}] \in Seq(X)
    BY <2>2
  <2> QED
    BY <1>1, <1>3, <2>1, <2>3
<1>4. SUBSET D \subseteq G
  <2>1. IsFiniteSet(D)
    BY VmsOf
  <2> HIDE DEF G, D
  <2>2. \A T \in SUBSET D : T # {} /\ (\A k \in T : T \ {k} \in G) => T \in G
    BY <1>3
  <2> QED
    BY <1>2, <2>1, <2>2, AllSets
<1> QED
  BY <1>4 DEF f

-----------------------------------------------------------------------------
(* The plan of one VM, and the commands of apply for it *)

\* The lines of a plan.
Lines == [host : Hosts, cmd : Commands]

\* What is made of a concatenation, part by part.
LEMMA MakingConcat ==
  ASSUME NEW s \in Seq(Lines), NEW t \in Seq(Lines)
  PROVE  /\ Making(s \o t) = Making(s) \o Making(t)
         /\ Making(s) \in Seq(Lines) /\ Making(t) \in Seq(Lines)
<1>1. PICK a : Keeps(s, Makers, a)
  BY KeepsSome
<1>2. PICK b : Keeps(t, Makers, b)
  BY KeepsSome
<1>3. Keeps(s \o t, Makers, a \o b) /\ s \o t \in Seq(Lines)
  BY <1>1, <1>2, KeepsConcat
<1>4. Only(s, Makers) = a /\ a \in Seq(Lines) /\ Only(t, Makers) = b /\ b \in Seq(Lines)
  BY <1>1, <1>2, OnlyIs
<1>5. Only(s \o t, Makers) = a \o b
  BY <1>3, OnlyIs
<1> QED
  BY <1>4, <1>5 DEF Making

\* What is made on a host by some commands.
Made(h, s) == Making(At(h, s))

\* Commands at a host are lines of a plan.
LEMMA AtType ==
  ASSUME NEW h \in Hosts, NEW s \in Seq(Commands)
  PROVE  At(h, s) \in Seq(Lines)
<1>1. Len(s) \in Nat /\ DOMAIN s = 1..Len(s) /\ \A i \in 1..Len(s) : s[i] \in Commands
  OBVIOUS
<1>2. \A i \in 1..Len(s) : [host |-> h, cmd |-> s[i]] \in Lines
  BY <1>1 DEF Lines
<1> HIDE DEF Lines
<1>3. At(h, s) = [i \in 1..Len(s) |-> [host |-> h, cmd |-> s[i]]]
  BY <1>1 DEF At
<1> QED
  BY <1>1, <1>2, <1>3

\* At goes through a concatenation part by part.
LEMMA AtConcat ==
  ASSUME NEW h, NEW s \in Seq(Commands), NEW t \in Seq(Commands)
  PROVE  At(h, s \o t) = At(h, s) \o At(h, t)
<1> DEFINE m == Len(s)
           n == Len(t)
           Line(c) == [host |-> h, cmd |-> c]
           u == s \o t
           as == At(h, s)
           bs == At(h, t)
<1>1. /\ m \in Nat /\ n \in Nat
      /\ as = [i \in 1..m |-> Line(s[i])] /\ bs = [i \in 1..n |-> Line(t[i])]
  BY DEF At
<1>2. /\ DOMAIN u = 1..m + n
      /\ \A i \in 1..m : u[i] = s[i]
      /\ \A i \in m + 1..m + n : u[i] = t[i - m]
  OBVIOUS
<1> HIDE DEF Line, u
<1>3. as \o bs = [i \in 1..m + n |-> IF i <= m THEN as[i] ELSE bs[i - m]]
  <2>1. as \in Seq({Line(c) : c \in Commands}) /\ bs \in Seq({Line(c) : c \in Commands})
        /\ Len(as) = m /\ Len(bs) = n
    BY <1>1
  <2> HIDE DEF as, bs
  <2> QED
    BY <2>1, <1>1
<1>4. At(h, u) = [i \in 1..m + n |-> Line(u[i])]
  BY <1>2 DEF At, Line
<1>5. \A i \in 1..m + n : Line(u[i]) = IF i <= m THEN as[i] ELSE bs[i - m]
  <2> SUFFICES ASSUME NEW i \in 1..m + n
               PROVE  Line(u[i]) = IF i <= m THEN as[i] ELSE bs[i - m]
    OBVIOUS
  <2>1. CASE i <= m
    <3>1. i \in 1..m
      BY <1>1, <2>1
    <3>2. as[i] = Line(s[i]) /\ u[i] = s[i]
      BY <1>1, <1>2, <3>1
    <3> QED
      BY <2>1, <3>2
  <2>2. CASE ~(i <= m)
    <3>1. i \in m + 1..m + n /\ i - m \in 1..n
      BY <1>1, <2>2
    <3>2. bs[i - m] = Line(t[i - m]) /\ u[i] = t[i - m]
      BY <1>1, <1>2, <3>1
    <3> QED
      BY <2>2, <3>2
  <2> QED
    BY <2>1, <2>2
<1>6. At(h, u) = as \o bs
  BY <1>3, <1>4, <1>5
<1> QED
  BY <1>6 DEF u

\* What is made by a concatenation of commands on one host, part by part.
LEMMA MadeConcat ==
  ASSUME NEW h \in Hosts, NEW s \in Seq(Commands), NEW t \in Seq(Commands)
  PROVE  /\ Made(h, s \o t) = Made(h, s) \o Made(h, t)
         /\ Made(h, s) \in Seq(Lines) /\ Made(h, t) \in Seq(Lines)
<1> DEFINE a == At(h, s)
           b == At(h, t)
<1>1. a \in Seq(Lines) /\ b \in Seq(Lines) /\ At(h, s \o t) = a \o b
  BY AtType, AtConcat
<1> HIDE DEF a, b
<1>2. /\ Making(a \o b) = Making(a) \o Making(b)
      /\ Making(a) \in Seq(Lines) /\ Making(b) \in Seq(Lines)
  BY <1>1, MakingConcat
<1> QED
  BY <1>1, <1>2 DEF Made, a, b

\* One command is on the list of what is made, unless it only sets something.
LEMMA MadeOne ==
  ASSUME NEW h \in Hosts, NEW c \in Commands
  PROVE  /\ Made(h, <<c>>) = IF c.op = "set" THEN <<>> ELSE <<[host |-> h, cmd |-> c]>>
         /\ Made(h, <<>>) = <<>>
<1> DEFINE x == [host |-> h, cmd |-> c]
<1>1. x \in Lines /\ x.cmd = c
  BY DEF Lines
<1>2. x \in Makers <=> c.op # "set"
  BY <1>1 DEF Makers, Lines
<1>3. At(h, <<c>>) = <<x>> /\ At(h, <<>>) = <<>>
  BY DEF At
<1> HIDE DEF x
<1>4. /\ Only(<<x>>, Makers) = IF x \in Makers THEN <<x>> ELSE <<>>
      /\ Only(<<>>, Makers) = <<>>
  BY <1>1, OnlyOne
<1>5. Made(h, <<c>>) = IF c.op = "set" THEN <<>> ELSE <<x>>
  BY <1>2, <1>3, <1>4 DEF Made, Making
<1>6. Made(h, <<>>) = <<>>
  BY <1>3, <1>4 DEF Made, Making
<1> QED
  BY <1>5, <1>6 DEF x

\* Commands that make nothing leave no trace on the list, wherever they are.
Idle(h, s) == s \in Seq(Commands) /\ Made(h, s) = <<>>

\* Twice the same command.
LEMMA RepeatOf ==
  ASSUME NEW c
  PROVE  Repeat(0, c) = <<>> /\ Repeat(1, c) = <<c>> /\ Repeat(2, c) = <<c>> \o <<c>>
  BY DEF Repeat

\* `qm set`, once or twice, makes nothing.
LEMMA IdleSets ==
  ASSUME NEW h \in Hosts, NEW c \in Commands, c.op = "set"
  PROVE  /\ Idle(h, <<>>) /\ Idle(h, <<c>>)
         /\ Idle(h, Repeat(0, c)) /\ Idle(h, Repeat(1, c)) /\ Idle(h, Repeat(2, c))
<1>1. <<>> \in Seq(Commands) /\ <<c>> \in Seq(Commands) /\ <<c>> \o <<c>> \in Seq(Commands)
  OBVIOUS
<1>2. Made(h, <<c>>) = <<>> /\ Made(h, <<>>) = <<>>
  BY MadeOne
<1>3. Made(h, <<c>> \o <<c>>) = <<>> \o <<>>
  BY <1>1, <1>2, MadeConcat
<1>4. <<>> \o <<>> = <<>>
  OBVIOUS
<1> QED
  BY <1>1, <1>2, <1>3, <1>4, RepeatOf DEF Idle

\* Nothing is made by commands that make nothing, one after the other.
LEMMA IdleConcat ==
  ASSUME NEW h \in Hosts, NEW s \in Seq(Commands), NEW t, Idle(h, t)
  PROVE  /\ s \o t \in Seq(Commands) /\ Made(h, s \o t) = Made(h, s)
         /\ t \o s \in Seq(Commands) /\ Made(h, t \o s) = Made(h, s)
<1>1. t \in Seq(Commands) /\ Made(h, t) = <<>>
  BY DEF Idle
<1>2. /\ Made(h, s \o t) = Made(h, s) \o <<>> /\ Made(h, t \o s) = <<>> \o Made(h, s)
      /\ Made(h, s) \in Seq(Lines)
  BY <1>1, MadeConcat
<1>3. \A x \in Seq(Lines) : x \o <<>> = x /\ <<>> \o x = x
  OBVIOUS
<1>4. s \o t \in Seq(Commands) /\ t \o s \in Seq(Commands)
  BY <1>1
<1> QED
  BY <1>2, <1>3, <1>4

\* Of a Proxmox VM the plan makes what the commands make: it, and its resource.
LEMMA ProxmoxPlanned ==
  ASSUME NEW l \in Labs, Valid(l), NEW k \in DOMAIN l.vms
  PROVE  LET v == l.vms[k]
             h == v.hypervisor
         IN  /\ ProxmoxPlan(l, v) \in Seq(Commands)
             /\ Made(h, ProxmoxPlan(l, v)) = Made(h, QmCommands(l, v))
<1> DEFINE v == l.vms[k]
           h == v.hypervisor
           set == Command("set", v, None)
           p1 == Command("create", v, PlanStorage(l, v))
           p2 == IF v.iso THEN Repeat(2, set) ELSE <<>>
           p3 == IF v.onboot THEN <<set>> ELSE <<>>
           p4 == IF v.ha
                 THEN <<Command("ha_add", v, IF v.ha_group # None THEN v.ha_group ELSE "default")>>
                 ELSE <<>>
           q1 == Command("create", v, DiskStorage(l, v))
           q2 == Repeat(IF v.iso THEN 2 ELSE 0, set)
           q3 == Repeat(IF v.onboot THEN 1 ELSE 0, set)
           q4 == Repeat(IF v.ha THEN 1 ELSE 0, Command("ha_add", v, HaGroup(v)))
<1>1. /\ h \in Hosts /\ v.vmid \in Nat \cup {None} /\ v.name \in Nat
      /\ v.storage \in Labels \cup {None} /\ v.ha_group \in Labels \cup {None}
      /\ v.iso \in BOOLEAN /\ v.onboot \in BOOLEAN /\ v.ha \in BOOLEAN
  BY VmsOf DEF VmEntries
<1>2. set \in Commands /\ set.op = "set"
  BY <1>1 DEF Command, Commands
<1>3. PlanStorage(l, v) = DiskStorage(l, v) /\ PlanStorage(l, v) \in Labels \cup {None}
  <2>1. Owners(l, h) # {} => None \notin Cluster(l, h).storage
    <3> SUFFICES ASSUME Owners(l, h) # {} PROVE None \notin Cluster(l, h).storage
      OBVIOUS
    <3>1. Cluster(l, h) \in Elements(l.clusters)
      BY OwnerOwns
    <3> QED
      BY <3>1, StorageAssumption DEF Elements
  <2> QED
    BY <1>1, <2>1, NamesAssumption DEF PlanStorage, DiskStorage
<1>4. p1 \in Commands /\ p1 = q1
  BY <1>1, <1>3 DEF Command, Commands
<1>5. Idle(h, p2) /\ Idle(h, q2) /\ Idle(h, p3) /\ Idle(h, q3)
  BY <1>1, <1>2, IdleSets
<1>6. p4 \in Seq(Commands) /\ p4 = q4
  <2> DEFINE c == Command("ha_add", v, HaGroup(v))
  <2>1. c \in Commands
    BY <1>1, NamesAssumption DEF Command, Commands, HaGroup
  <2>2. p4 = IF v.ha THEN <<c>> ELSE <<>>
    BY DEF HaGroup
  <2>3. q4 = IF v.ha THEN <<c>> ELSE <<>>
    BY RepeatOf
  <2> HIDE DEF c, p4, q4
  <2> QED
    BY <2>1, <2>2, <2>3
<1>7. ProxmoxPlan(l, v) = ((<<p1>> \o p2) \o p3) \o p4
  BY DEF ProxmoxPlan
<1>8. QmCommands(l, v) = ((<<q1>> \o q2) \o q3) \o q4
  BY DEF QmCommands
<1>9. <<p1>> \in Seq(Commands)
  BY <1>4
<1> HIDE DEF h, set, p1, p2, p3, p4, q1, q2, q3, q4
<1>10. <<p1>> \o p2 \in Seq(Commands) /\ Made(h, <<p1>> \o p2) = Made(h, <<p1>>)
  BY <1>1, <1>5, <1>9, IdleConcat
<1>11. <<p1>> \o q2 \in Seq(Commands) /\ Made(h, <<p1>> \o q2) = Made(h, <<p1>>)
  BY <1>1, <1>5, <1>9, IdleConcat
<1>12. /\ (<<p1>> \o p2) \o p3 \in Seq(Commands)
       /\ Made(h, (<<p1>> \o p2) \o p3) = Made(h, <<p1>>)
  BY <1>1, <1>5, <1>10, IdleConcat
<1>13. /\ (<<p1>> \o q2) \o q3 \in Seq(Commands)
       /\ Made(h, (<<p1>> \o q2) \o q3) = Made(h, <<p1>>)
  BY <1>1, <1>5, <1>11, IdleConcat
<1>14. /\ ((<<p1>> \o p2) \o p3) \o p4 \in Seq(Commands)
       /\ Made(h, ((<<p1>> \o p2) \o p3) \o p4) = Made(h, <<p1>>) \o Made(h, p4)
  <2>1. \A s, t \in Seq(Commands) :
          s \o t \in Seq(Commands) /\ Made(h, s \o t) = Made(h, s) \o Made(h, t)
    BY <1>1, MadeConcat
  <2> QED
    BY <1>6, <1>12, <2>1, Zenon
<1>15. Made(h, ((<<p1>> \o q2) \o q3) \o p4) = Made(h, <<p1>>) \o Made(h, p4)
  BY <1>1, <1>6, <1>13, MadeConcat
<1> QED
  BY <1>4, <1>6, <1>7, <1>8, <1>14, <1>15 DEF h

\* Of a Hyper-V VM the plan makes what the commands make: it.
LEMMA HypervPlanned ==
  ASSUME NEW l \in Labs, Valid(l), NEW k \in DOMAIN l.vms
  PROVE  LET v == l.vms[k]
             h == v.hypervisor
         IN  /\ HypervPlan(l, v) \in Seq(Commands)
             /\ Made(h, HypervPlan(l, v)) = Made(h, HypervCommands(l, v))
<1> DEFINE v == l.vms[k]
           h == v.hypervisor
           set == Command("set", v, None)
           p1 == Command("create", v, None)
           p2 == IF v.iso THEN <<set>> ELSE <<>>
           p3 == IF l.nets[v.network] # 0 THEN <<set>> ELSE <<>>
           q0 == Repeat(2, set)
           q1 == Repeat(1, set)
           q2 == Repeat(IF v.iso THEN 1 ELSE 0, set)
           q3 == Repeat(IF l.nets[v.network] # 0 THEN 1 ELSE 0, set)
<1>1. h \in Hosts /\ v.vmid \in Nat \cup {None} /\ v.name \in Nat /\ v.iso \in BOOLEAN
  BY VmsOf DEF VmEntries
<1>2. set \in Commands /\ set.op = "set" /\ p1 \in Commands
  BY <1>1 DEF Command, Commands
<1>3. /\ Idle(h, p2) /\ Idle(h, q2) /\ Idle(h, p3) /\ Idle(h, q3)
      /\ Idle(h, q0) /\ Idle(h, q1) /\ Idle(h, <<set>>)
  BY <1>1, <1>2, IdleSets
<1>4. HypervPlan(l, v) = ((<<p1>> \o <<set>>) \o p2) \o p3
  <2>1. <<p1, set>> = <<p1>> \o <<set>>
    OBVIOUS
  <2> QED
    BY <2>1 DEF HypervPlan
<1>5. HypervCommands(l, v) = (((q0 \o <<p1>>) \o q1) \o q2) \o q3
  BY DEF HypervCommands
<1>6. <<p1>> \in Seq(Commands)
  BY <1>2
<1> HIDE DEF h, set, p1, p2, p3, q0, q1, q2, q3
<1>7. <<p1>> \o <<set>> \in Seq(Commands) /\ Made(h, <<p1>> \o <<set>>) = Made(h, <<p1>>)
  BY <1>1, <1>3, <1>6, IdleConcat
<1>8. /\ (<<p1>> \o <<set>>) \o p2 \in Seq(Commands)
      /\ Made(h, (<<p1>> \o <<set>>) \o p2) = Made(h, <<p1>>)
  BY <1>1, <1>3, <1>7, IdleConcat
<1>9. /\ ((<<p1>> \o <<set>>) \o p2) \o p3 \in Seq(Commands)
      /\ Made(h, ((<<p1>> \o <<set>>) \o p2) \o p3) = Made(h, <<p1>>)
  BY <1>1, <1>3, <1>8, IdleConcat
<1>10. q0 \o <<p1>> \in Seq(Commands) /\ Made(h, q0 \o <<p1>>) = Made(h, <<p1>>)
  BY <1>1, <1>3, <1>6, IdleConcat
<1>11. /\ (q0 \o <<p1>>) \o q1 \in Seq(Commands)
       /\ Made(h, (q0 \o <<p1>>) \o q1) = Made(h, <<p1>>)
  BY <1>1, <1>3, <1>10, IdleConcat
<1>12. /\ ((q0 \o <<p1>>) \o q1) \o q2 \in Seq(Commands)
       /\ Made(h, ((q0 \o <<p1>>) \o q1) \o q2) = Made(h, <<p1>>)
  BY <1>1, <1>3, <1>11, IdleConcat
<1>13. Made(h, (((q0 \o <<p1>>) \o q1) \o q2) \o q3) = Made(h, <<p1>>)
  BY <1>1, <1>3, <1>12, IdleConcat
<1> QED
  BY <1>4, <1>5, <1>9, <1>13 DEF h

\* The plan shows of each VM what its commands make, on its host and in their order.
LEMMA PlanOfVm ==
  ASSUME NEW l \in Labs, Valid(l), NEW k \in DOMAIN l.vms
  PROVE  LET v == l.vms[k]
         IN  /\ PlanOf(l, v) \in Seq(Lines)
             /\ At(v.hypervisor, GenCreateCommands(l, v)) \in Seq(Lines)
             /\ Making(PlanOf(l, v)) = Making(At(v.hypervisor, GenCreateCommands(l, v)))
<1> DEFINE v == l.vms[k]
           h == v.hypervisor
<1>1. h \in Hosts
  BY VmsOf
<1>2. GenCreateCommands(l, v) \in Seq(Commands)
  BY CommandsShape DEF CommandsFit
<1>3. At(h, GenCreateCommands(l, v)) \in Seq(Lines)
  BY <1>1, <1>2, AtType
<1>4. CASE l.hvs[h].type = "proxmox"
  <2>1. PlanOf(l, v) = At(h, ProxmoxPlan(l, v))
    BY <1>4 DEF PlanOf
  <2>2. GenCreateCommands(l, v) = QmCommands(l, v)
    BY <1>4 DEF GenCreateCommands
  <2>3. /\ ProxmoxPlan(l, v) \in Seq(Commands)
        /\ Made(h, ProxmoxPlan(l, v)) = Made(h, QmCommands(l, v))
    BY ProxmoxPlanned
  <2>4. At(h, ProxmoxPlan(l, v)) \in Seq(Lines)
    BY <1>1, <2>3, AtType
  <2> QED
    BY <1>3, <2>1, <2>2, <2>3, <2>4 DEF Made
<1>5. CASE l.hvs[h].type = "hyperv"
  <2>1. PlanOf(l, v) = At(h, HypervPlan(l, v))
    BY <1>5 DEF PlanOf
  <2>2. GenCreateCommands(l, v) = HypervCommands(l, v)
    BY <1>5 DEF GenCreateCommands
  <2>3. /\ HypervPlan(l, v) \in Seq(Commands)
        /\ Made(h, HypervPlan(l, v)) = Made(h, HypervCommands(l, v))
    BY HypervPlanned
  <2>4. At(h, HypervPlan(l, v)) \in Seq(Lines)
    BY <1>1, <2>3, AtType
  <2> QED
    BY <1>3, <2>1, <2>2, <2>3, <2>4 DEF Made
<1>6. CASE l.hvs[h].type \notin {"proxmox", "hyperv"}
  <2>1. PlanOf(l, v) = At(h, <<>>) /\ GenCreateCommands(l, v) = <<>>
    BY <1>6 DEF PlanOf, GenCreateCommands
  <2> QED
    BY <1>3, <2>1
<1> QED
  BY <1>4, <1>5, <1>6

-----------------------------------------------------------------------------
(* The plan of a run, and all its commands *)

\* Going through all VMs and leaving out those of other hypervisors, or selecting
\* first and then going through what is left, lists the same.
LEMMA PlanIsCommands ==
  ASSUME NEW l \in Labs, Valid(l), NEW a
  PROVE  \A T \in SUBSET DOMAIN l.vms :
           /\ Making(InOrder(l, PlanOfAny(l, a))[T]) =
                Making(InOrder(l, CommandsOf(l))[T \cap Targets(l, a)])
           /\ InOrder(l, CommandsOf(l))[T] \in Seq(Lines)
<1> DEFINE D    == DOMAIN l.vms
           tg   == Targets(l, a)
           po   == PlanOfAny(l, a)
           co   == CommandsOf(l)
           plan == InOrder(l, po)
           run  == InOrder(l, co)
           G    == {T \in SUBSET D : Making(plan[T]) = Making(run[T \cap tg])}
<1>1. ASSUME NEW k \in D
      PROVE  /\ po[k] \in Seq(Lines) /\ co[k] \in Seq(Lines)
             /\ k \in tg => Making(po[k]) = Making(co[k])
             /\ k \notin tg => po[k] = <<>>
  <2>1. /\ PlanOf(l, l.vms[k]) \in Seq(Lines) /\ co[k] \in Seq(Lines)
        /\ Making(PlanOf(l, l.vms[k])) = Making(co[k])
    BY PlanOfVm DEF CommandsOf
  <2>2. k \in tg <=> ~(a # None /\ l.vms[k].hypervisor # a)
    BY DEF Targets
  <2>3. po[k] = IF a # None /\ l.vms[k].hypervisor # a THEN <<>> ELSE PlanOf(l, l.vms[k])
    BY DEF PlanOfAny
  <2>4. <<>> \in Seq(Lines)
    OBVIOUS
  <2> HIDE DEF po, co, tg
  <2> QED
    BY <2>1, <2>2, <2>3, <2>4
<1>2. po \in [D -> Seq(Lines)] /\ co \in [D -> Seq(Lines)]
  <2>1. po = [k \in D |-> po[k]] /\ co = [k \in D |-> co[k]]
    BY DEF PlanOfAny, CommandsOf
  <2> HIDE DEF po, co, tg, D
  <2> QED
    BY <1>1, <2>1
<1>3. /\ plan[{}] = <<>>
      /\ \A T \in SUBSET D : T # {} =>
           First(l, T) \in T /\ plan[T] = po[First(l, T)] \o plan[T \ {First(l, T)}]
  BY InOrderSteps
<1>4. /\ run[{}] = <<>>
      /\ \A T \in SUBSET D : T # {} =>
           First(l, T) \in T /\ run[T] = co[First(l, T)] \o run[T \ {First(l, T)}]
  BY InOrderSteps
<1>5. \A T \in SUBSET D : plan[T] \in Seq(Lines) /\ run[T] \in Seq(Lines)
  <2> HIDE DEF po, co
  <2> QED
    BY <1>2, InOrderType
<1> HIDE DEF po, co, plan, run
<1>6. {} \in G
  <2>1. {} \cap tg = {} /\ {} \in SUBSET D
    OBVIOUS
  <2>2. plan[{}] = run[{} \cap tg]
    BY <1>3, <1>4, <2>1
  <2> QED
    BY <2>1, <2>2
<1>7. ASSUME NEW T \in SUBSET D, T # {}, \A k \in T : T \ {k} \in G PROVE T \in G
  <2>1. PICK k \in T : k = First(l, T)
    BY <1>3, <1>7
  <2>2. /\ po[k] \in Seq(Lines) /\ co[k] \in Seq(Lines)
        /\ k \in tg => Making(po[k]) = Making(co[k])
        /\ k \notin tg => po[k] = <<>>
    BY <1>1
  <2>3. /\ plan[T] = po[k] \o plan[T \ {k}]
        /\ plan[T \ {k}] \in Seq(Lines) /\ run[(T \ {k}) \cap tg] \in Seq(Lines)
    BY <1>3, <1>5, <1>7, <2>1
  <2>4. Making(plan[T \ {k}]) = Making(run[(T \ {k}) \cap tg])
    BY <1>7
  <2>5. CASE k \notin tg
    <3>1. (T \ {k}) \cap tg = T \cap tg
      BY <2>5
    <3>2. \A x \in Seq(Lines) : <<>> \o x = x
      OBVIOUS
    <3>3. plan[T] = plan[T \ {k}]
      BY <2>2, <2>3, <2>5, <3>2
    <3> QED
      BY <2>4, <3>1, <3>3
  <2>6. CASE k \in tg
    <3>1. T \cap tg \in SUBSET D /\ k \in T \cap tg /\ (T \cap tg) \ {k} = (T \ {k}) \cap tg
      BY <2>6
    <3>2. First(l, T \cap tg) = k
      <4>1. \A m \in T \ {k} : Precedes(l.vms[k], l.vms[m])
        BY <1>7, <2>1, FirstIs
      <4>2. \A m \in (T \cap tg) \ {k} : Precedes(l.vms[k], l.vms[m])
        BY <4>1
      <4> HIDE DEF tg
      <4> QED
        BY <3>1, <4>2, FirstUnique
    <3>3. run[T \cap tg] = co[k] \o run[(T \ {k}) \cap tg]
      BY <1>4, <3>1, <3>2
    <3>4. Making(plan[T]) = Making(po[k]) \o Making(plan[T \ {k}])
      <4> DEFINE x == po[k]
                 y == plan[T \ {k}]
      <4>1. x \in Seq(Lines) /\ y \in Seq(Lines) /\ plan[T] = x \o y
        BY <2>2, <2>3
      <4> HIDE DEF x, y
      <4>2. Making(x \o y) = Making(x) \o Making(y)
        BY <4>1, MakingConcat
      <4> QED
        BY <4>1, <4>2 DEF x, y
    <3>5. Making(run[T \cap tg]) = Making(co[k]) \o Making(run[(T \ {k}) \cap tg])
      <4> DEFINE x == co[k]
                 y == run[(T \ {k}) \cap tg]
      <4>1. x \in Seq(Lines) /\ y \in Seq(Lines) /\ run[T \cap tg] = x \o y
        BY <2>2, <2>3, <3>3
      <4> HIDE DEF x, y
      <4>2. Making(x \o y) = Making(x) \o Making(y)
        BY <4>1, MakingConcat
      <4> QED
        BY <4>1, <4>2 DEF x, y
    <3> QED
      BY <2>2, <2>4, <2>6, <3>4, <3>5
  <2> QED
    BY <2>5, <2>6
<1>8. SUBSET D \subseteq G
  <2>1. IsFiniteSet(D)
    BY VmsOf
  <2> HIDE DEF G, D
  <2>2. \A T \in SUBSET D : T # {} /\ (\A k \in T : T \ {k} \in G) => T \in G
    BY <1>7
  <2> QED
    BY <1>6, <2>1, <2>2, AllSets
<1> QED
  BY <1>5, <1>8 DEF plan, run, po, co

\* The first command of a VM, and the others.
LEMMA AtFirst ==
  ASSUME NEW h \in Hosts, NEW s \in Seq(Commands), s # <<>>
  PROVE  /\ At(h, s) = At(h, <<Head(s)>>) \o At(h, Tail(s))
         /\ At(h, <<Head(s)>>) \in Seq(Lines) /\ At(h, Tail(s)) \in Seq(Lines)
<1> DEFINE x == <<Head(s)>>
           y == Tail(s)
<1>1. x \in Seq(Commands) /\ y \in Seq(Commands) /\ s = x \o y
  OBVIOUS
<1> HIDE DEF x, y
<1>2. At(h, x) \in Seq(Lines) /\ At(h, y) \in Seq(Lines)
  BY <1>1, AtType
<1>3. At(h, x \o y) = At(h, x) \o At(h, y)
  BY <1>1, AtConcat
<1> QED
  BY <1>1, <1>2, <1>3 DEF x, y

\* What a run has still to make is the end of what the plan makes.
ShownInv ==
  pc = "exec" =>
    \E p \in Seq(Lines) :
      Making(GenPlan(lab, args.hypervisor)) = p \o Making(ToRun)

\* The commands of the run are those left of its present VM and those of the VMs it
\* has not taken yet.
LEMMA ToRunType ==
  ASSUME TypeInv, pc = "exec"
  PROVE  /\ lab \in Labs /\ Valid(lab) /\ todo \in SUBSET DOMAIN lab.vms
         /\ At(host, cmds) \in Seq(Lines)
         /\ InOrder(lab, CommandsOf(lab))[todo] \in Seq(Lines)
         /\ ToRun \in Seq(Lines)
<1>1. /\ lab \in Labs /\ Valid(lab) /\ todo \in SUBSET DOMAIN lab.vms
      /\ cmds \in Seq(Commands) /\ (cmds # <<>> => host \in Hosts)
  BY DEF TypeInv, LabctlType
<1>2. At(host, cmds) \in Seq(Lines)
  <2>1. CASE cmds = <<>>
    BY <2>1 DEF At
  <2>2. CASE cmds # <<>>
    BY <1>1, <2>2, AtType
  <2> QED
    BY <2>1, <2>2
<1> DEFINE rest == InOrder(lab, CommandsOf(lab))[todo]
<1>3. rest \in Seq(Lines)
  BY <1>1, PlanIsCommands
<1> HIDE DEF rest
<1>4. At(host, cmds) \o rest \in Seq(Lines)
  BY <1>2, <1>3
<1> QED
  BY <1>1, <1>2, <1>3, <1>4 DEF ToRun, rest

\* What the commands of all VMs of a run make is what the plan of them makes.
LEMMA ShownAtStart ==
  ASSUME NEW l \in Labs, Valid(l), NEW a, NEW h
  PROVE  \E p \in Seq(Lines) :
           Making(GenPlan(l, a)) =
             p \o Making(At(h, <<>>) \o InOrder(l, CommandsOf(l))[Targets(l, a)])
<1> DEFINE D == DOMAIN l.vms
           x == InOrder(l, CommandsOf(l))[Targets(l, a)]
<1>1. D \in SUBSET D /\ Targets(l, a) \in SUBSET D /\ D \cap Targets(l, a) = Targets(l, a)
  BY DEF Targets
<1>2. /\ Making(GenPlan(l, a)) = Making(InOrder(l, CommandsOf(l))[D \cap Targets(l, a)])
      /\ x \in Seq(Lines)
  BY <1>1, PlanIsCommands DEF GenPlan
<1>3. Making(GenPlan(l, a)) = Making(x)
  BY <1>1, <1>2
<1>4. At(h, <<>>) = <<>> /\ <<>> \in Seq(Lines)
  BY DEF At
<1> HIDE DEF x
<1>5. <<>> \o x = x
  BY <1>2
<1>6. Making(x) \in Seq(Lines)
  BY <1>2, MakingConcat
<1>7. <<>> \o Making(x) = Making(x)
  BY <1>6
<1>8. Making(GenPlan(l, a)) = <<>> \o Making(At(h, <<>>) \o x)
  BY <1>3, <1>4, <1>5, <1>7
<1> QED
  BY <1>4, <1>8 DEF x

\* A run that begins has everything still to make that the plan shows.
LEMMA ShownStart ==
  ASSUME lab \in Labs, Valid(lab), lab' = lab, cmds' = <<>>,
         todo' = Targets(lab, args'.hypervisor)
  PROVE  ShownInv'
<1>1. \E p \in Seq(Lines) :
        Making(GenPlan(lab, args'.hypervisor)) =
          p \o Making(At(host', <<>>) \o InOrder(lab, CommandsOf(lab))[Targets(lab, args'.hypervisor)])
  BY ShownAtStart
<1> QED
  BY <1>1 DEF ShownInv, ToRun

\* Taking up a VM changes nothing in what is still to be made.
LEMMA ShownTake ==
  ASSUME TypeInv, ShownInv, NEW k \in todo, TakeVm(k)
  PROVE  ShownInv'
<1> SUFFICES ASSUME pc' = "exec" PROVE ShownInv'
  BY DEF ShownInv
<1> DEFINE v == lab.vms[k]
           new == GenCreateCommands(lab, v)
           run == InOrder(lab, CommandsOf(lab))
<1>1. /\ pc = "exec" /\ cmds = <<>> /\ lab' = lab /\ args' = args /\ todo' = todo \ {k}
      /\ \A m \in todo \ {k} : Precedes(v, lab.vms[m])
      /\ \/ new = <<>> /\ host' = host /\ cmds' = cmds
         \/ host' = v.hypervisor /\ cmds' = new
  BY DEF TakeVm, SkipVm, Exit
<1>2. lab \in Labs /\ Valid(lab) /\ todo \in SUBSET DOMAIN lab.vms
  BY <1>1, ToRunType
<1>3. First(lab, todo) = k
  BY <1>1, <1>2, FirstUnique
<1>4. run[todo] = CommandsOf(lab)[k] \o run[todo \ {k}]
  BY <1>2, <1>3, InOrderSteps
<1>5. CommandsOf(lab)[k] = At(v.hypervisor, new) /\ CommandsOf(lab)[k] \in Seq(Lines)
  <2>1. k \in DOMAIN lab.vms
    BY <1>2
  <2> QED
    BY <1>2, <2>1, PlanOfVm DEF CommandsOf
<1>6. \A h : At(h, <<>>) = <<>>
  BY DEF At
<1>7. run[todo] \in Seq(Lines) /\ run[todo \ {k}] \in Seq(Lines)
  BY <1>2, PlanIsCommands
<1> HIDE DEF v, new, run
<1>8. At(host', cmds') = CommandsOf(lab)[k]
  BY <1>1, <1>5, <1>6
<1>9. At(host, cmds) \o run[todo] = run[todo]
  BY <1>1, <1>6, <1>7
<1>10. At(host, cmds) \o run[todo] = At(host', cmds') \o run[todo']
  BY <1>1, <1>4, <1>8, <1>9
<1>11. ToRun' = ToRun
  BY <1>1, <1>10 DEF ToRun, run
<1> QED
  BY <1>1, <1>11 DEF ShownInv

\* A command that is done, or failed and passed over, is the first on the list.
LEMMA ShownTail ==
  ASSUME TypeInv, ShownInv, pc = "exec", cmds # <<>>, cmds' = Tail(cmds),
         UNCHANGED <<lab, args, pc, todo, host>>
  PROVE  ShownInv'
<1> DEFINE rest == InOrder(lab, CommandsOf(lab))[todo]
           x == At(host, <<Head(cmds)>>)
           y == At(host, Tail(cmds))
           next == y \o rest
<1>1. cmds \in Seq(Commands) /\ host \in Hosts
  BY DEF TypeInv, LabctlType
<1>2. At(host, cmds) = x \o y /\ x \in Seq(Lines) /\ y \in Seq(Lines)
  BY <1>1, AtFirst
<1>3. rest \in Seq(Lines)
  BY ToRunType
<1>4. ToRun = At(host, cmds) \o rest /\ ToRun' = next
  BY DEF ToRun
<1>5. PICK p \in Seq(Lines) : Making(GenPlan(lab, args.hypervisor)) = p \o Making(ToRun)
  BY DEF ShownInv
<1> HIDE DEF rest, x, y
<1>6. next \in Seq(Lines) /\ ToRun = x \o next
  BY <1>2, <1>3, <1>4
<1> HIDE DEF next
<1>7. /\ Making(x \o next) = Making(x) \o Making(next)
      /\ Making(x) \in Seq(Lines) /\ Making(next) \in Seq(Lines)
  BY <1>2, <1>6, MakingConcat
<1>8. \A a, b, c \in Seq(Lines) : a \o b \in Seq(Lines) /\ a \o (b \o c) = (a \o b) \o c
  OBVIOUS
<1>9. /\ p \o Making(x) \in Seq(Lines)
      /\ p \o Making(ToRun) = (p \o Making(x)) \o Making(next)
  BY <1>6, <1>7, <1>8
<1>10. Making(GenPlan(lab, args.hypervisor))' = (p \o Making(x)) \o Making(ToRun')
  BY <1>4, <1>5, <1>9
<1> QED
  BY <1>9, <1>10 DEF ShownInv

\* No step runs what the plan does not show, or in another order.
LEMMA ShownStep == TypeInv /\ ShownInv /\ [Next]_vars => ShownInv'
<1> SUFFICES ASSUME TypeInv, ShownInv, [Next]_vars PROVE ShownInv'
  OBVIOUS
<1>0. pc' # "exec" => ShownInv'
  BY DEF ShownInv
<1>1. ASSUME NEW a \in Invocations, Invoke(a) PROVE ShownInv'
  <2>1. CASE pc' = "exec"
    <3>1. /\ lab \in Labs /\ lab' = lab /\ args' = a /\ Valid(lab) /\ Start(a) /\ pc = "idle"
      BY <1>1, <2>1 DEF Invoke, Exit, TypeInv, LabctlType
    <3>2. cmds' = <<>> /\ todo' = Targets(lab, args'.hypervisor)
      BY <3>1 DEF Start, TypeInv, LabctlType
    <3> QED
      BY <3>1, <3>2, ShownStart
  <2> QED
    BY <1>0, <2>1
<1>2. ASSUME NEW yes \in BOOLEAN, Answer(yes) PROVE ShownInv'
  <2>1. CASE pc' = "exec"
    <3>1. /\ lab \in Labs /\ lab' = lab /\ args' = args /\ Valid(lab) /\ Start(args)
          /\ pc = "confirm"
      BY <1>2, <2>1 DEF Answer, Exit, TypeInv, LabctlType
    <3>2. cmds' = <<>> /\ todo' = Targets(lab, args'.hypervisor)
      BY <3>1 DEF Start, TypeInv, LabctlType
    <3> QED
      BY <3>1, <3>2, ShownStart
  <2> QED
    BY <1>0, <2>1
<1>3. ASSUME NEW k \in todo, TakeVm(k) PROVE ShownInv'
  BY <1>3, ShownTake
<1>4. CASE RunOk
  BY <1>4, ShownTail DEF RunOk
<1>5. ASSUME NEW timeout \in BOOLEAN, RunFail(timeout) PROVE ShownInv'
  <2>1. CASE args.keep_going
    BY <1>5, <2>1, ShownTail DEF RunFail
  <2>2. CASE ~args.keep_going
    BY <1>0, <1>5, <2>2 DEF RunFail, Exit
  <2> QED
    BY <2>1, <2>2
<1>6. CASE Complete \/ Interrupt
  BY <1>0, <1>6 DEF Complete, Interrupt, Exit
<1>7. CASE (\E e \in late : LateRun(e)) \/ UNCHANGED vars
  <2>1. UNCHANGED <<lab, args, pc, todo, host, cmds>>
    BY <1>7 DEF LateRun, runner, vars
  <2>2. ToRun' = ToRun
    BY <2>1 DEF ToRun
  <2> QED
    BY <2>1, <2>2 DEF ShownInv
<1> QED
  BY <1>1, <1>2, <1>3, <1>4, <1>5, <1>6, <1>7 DEF Next, Proceed

\* The plan that is printed before the prompt ends, at any time of the run, with what
\* the run has still to make: same hosts, storages, HA groups and order, although it
\* is made by code of its own.
THEOREM PlanIsWhatRuns == Spec => []PlanShowsApply
<1>1. Init => ShownInv
  BY DEF Init, ShownInv
<1>2. TypeInv /\ ShownInv => PlanShowsApply
  <2> SUFFICES ASSUME TypeInv, ShownInv, pc = "exec"
               PROVE  Suffix(Making(ToRun), Making(GenPlan(lab, args.hypervisor)))
    BY DEF PlanShowsApply
  <2>1. PICK p \in Seq(Lines) : Making(GenPlan(lab, args.hypervisor)) = p \o Making(ToRun)
    BY DEF ShownInv
  <2>2. Making(ToRun) \in Seq(Lines)
    BY ToRunType, MakingConcat
  <2>3. \A a, b \in Seq(Lines) : Len(a) \in 0..Len(a \o b)
                                 /\ b = SubSeq(a \o b, Len(a) + 1, Len(a \o b))
    OBVIOUS
  <2> QED
    BY <2>1, <2>2, <2>3 DEF Suffix
<1>3. TypeInv /\ ShownInv /\ [Next]_vars => TypeInv' /\ ShownInv'
  BY TypeInvStep, ShownStep
<1> QED
  BY TypeInvInit, <1>1, <1>2, <1>3, PTL DEF Spec
=============================================================================
