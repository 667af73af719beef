--------------------------- MODULE PbsInitProofs ---------------------------
(***************************************************************************)
(* Proofs about module PbsInit, for any servers, datastores, policies,     *)
(* administrators and command lines: every variable stays within its type, *)
(* a prune job exists without its datastore only when a rename of a        *)
(* command that had read the file before took the datastore out again, and *)
(* exit code 0 means that what was asked for is in force.                  *)
(***************************************************************************)
EXTENDS PbsInit, TLAPS

-----------------------------------------------------------------------------
(* Entries of JSON objects *)

LEMMA PutDomain ==
  ASSUME NEW f, NEW x, NEW v
  PROVE  DOMAIN Put(f, x, v) = DOMAIN f \cup {x}
  BY DEF Put

\* A function of the right type stays one.
LEMMA PutType ==
  ASSUME NEW S, NEW T, NEW f \in Partial(S, T), NEW x \in S, NEW v \in T
  PROVE  Put(f, x, v) \in Partial(S, T)
  <1>1. PICK D \in SUBSET S : f \in [D -> T]
    BY DEF Partial
  <1>2. Put(f, x, v) \in [D \cup {x} -> T]
    BY <1>1 DEF Put
  <1>3. D \cup {x} \in SUBSET S
    OBVIOUS
  <1> QED
    BY <1>1, <1>2, <1>3 DEF Partial

LEMMA NewServerType == NewServer \in ServerStates
  <1>1. Nothing \in [{} -> Paths] /\ Nothing \in [{} -> Jobs]
    BY DEF Nothing
  <1>2. Nothing \in Partial(Names, Paths) /\ Nothing \in Partial(Names, Jobs)
    BY <1>1 DEF Partial
  <1> QED
    BY <1>2 DEF NewServer, ServerStates

-----------------------------------------------------------------------------
(* What a command does to its server *)

\* The command of a tool at a command step is well formed.
LEMMA CommandType ==
  ASSUME TypeOK, NEW a \in Admins, pc[a] \in CommandSteps
  PROVE  /\ CommandOf(a) \in CommandRecords
         /\ CommandOf(a).step = pc[a]
         /\ CommandOf(a).pbs = Head(todo[a]).pbs
         /\ CommandOf(a).name = Head(todo[a]).name
  <1>1. todo[a] \in Seq(Datastores) /\ todo[a] # <<>>
    BY DEF TypeOK, CommandSteps
  <1>2. Head(todo[a]) \in Datastores
    BY <1>1
  <1> QED
    BY <1>2 DEF CommandOf, CommandRecords, Datastores

\* The edit of a file has the shape of one; `datastore create` registers a datastore,
\* and only a prune-job command adds a prune job.
LEMMA EditEffect ==
  ASSUME NEW c \in CommandRecords, NEW file \in ServerStates
  PROVE  /\ Edit(c, file) \in ServerStates
         /\ c.step = "create" => c.name \in DOMAIN Edit(c, file).datastores
         /\ \A n \in DOMAIN Edit(c, file).jobs :
              \/ n \in DOMAIN file.jobs
              \/ n = c.name /\ c.step \in {"job", "update", "new"}
  <1>1. c.step \in CommandSteps
    BY DEF CommandRecords
  <1>2. CASE c.step = "create"
    <2>1. Edit(c, file) = DatastoreCreate(file, c.name, c.path)
      BY <1>2 DEF Edit
    <2>2. DatastoreCreate(file, c.name, c.path) \in ServerStates
      BY PutType DEF DatastoreCreate, ServerStates, CommandRecords
    <2>3. /\ Edit(c, file).datastores = Put(file.datastores, c.name, c.path)
          /\ Edit(c, file).jobs = file.jobs
      BY <2>1 DEF DatastoreCreate, ServerStates
    <2>4. DOMAIN Put(file.datastores, c.name, c.path) = DOMAIN file.datastores \cup {c.name}
      BY PutDomain, Zenon
    <2>5. c.name \in DOMAIN Edit(c, file).datastores
      BY <2>3, <2>4, Zenon
    <2> QED
      BY <1>2, <2>1, <2>2, <2>3, <2>5
  <1>3. CASE c.step # "create"
    <2> DEFINE put == [store |-> c.store, policy |-> c.policy]
    <2>1. Edit(c, file) = PruneJobPut(file, c.name, c.store, c.policy)
      BY <1>3 DEF Edit
    <2>2. put \in Jobs
      BY DEF Jobs, CommandRecords
    <2>3. PruneJobPut(file, c.name, c.store, c.policy) \in ServerStates
      BY <2>2, PutType DEF PruneJobPut, ServerStates, CommandRecords
    <2>4. Edit(c, file).jobs = Put(file.jobs, c.name, put)
      BY <2>1 DEF PruneJobPut, ServerStates
    <2>5. DOMAIN Put(file.jobs, c.name, put) = DOMAIN file.jobs \cup {c.name}
      BY PutDomain, Zenon
    <2>6. \A n \in DOMAIN Edit(c, file).jobs : n \in DOMAIN file.jobs \/ n = c.name
      <3> HIDE DEF put
      <3> QED
        BY <2>4, <2>5, Zenon
    <2> QED
      BY <1>1, <1>3, <2>1, <2>3, <2>6 DEF CommandSteps
  <1> QED
    BY <1>2, <1>3

\* The names of the datastores that are or have been in a server's file.
Known(p) == DOMAIN server[p].datastores \cup dropped[p]

\* A rename keeps the shape of the files; what has been in a file stays known.
LEMMA RenameEffect ==
  ASSUME TypeOK, NEW c \in CommandRecords, NEW file \in ServerStates, Rename(c, file)
  PROVE  /\ server' \in [Servers -> ServerStates] /\ dropped' \in [Servers -> SUBSET Names]
         /\ \A p \in Servers : server'[p] = IF p = c.pbs THEN Edit(c, file) ELSE server[p]
         /\ \A p \in Servers : Known(p) \subseteq Known(p)'
  <1>1. PICK new : new = Edit(c, file)
    OBVIOUS
  <1>2. new \in ServerStates /\ c.pbs \in Servers
    BY <1>1, EditEffect DEF CommandRecords
  <1>3. server' = [server EXCEPT ![c.pbs] = new]
    BY <1>1 DEF Rename
  <1>4. \A p \in Servers : server'[p] = IF p = c.pbs THEN new ELSE server[p]
    BY <1>3 DEF TypeOK
  <1>5. dropped' = [dropped EXCEPT ![c.pbs] =
                      (@ \cup DOMAIN server[c.pbs].datastores) \ DOMAIN new.datastores]
    BY <1>2, <1>4 DEF Rename
  <1>6. DOMAIN server[c.pbs].datastores \subseteq Names
    <2>1. server[c.pbs].datastores \in Partial(Names, Paths)
      BY <1>2 DEF TypeOK, ServerStates
    <2> QED
      BY <2>1 DEF Partial
  <1>7. dropped' \in [Servers -> SUBSET Names]
    BY <1>2, <1>5, <1>6 DEF TypeOK
  <1>8. \A p \in Servers :
          dropped'[p] = IF p = c.pbs
                        THEN (dropped[p] \cup DOMAIN server[p].datastores) \ DOMAIN new.datastores
                        ELSE dropped[p]
    BY <1>5 DEF TypeOK
  <1>9. \A p \in Servers : Known(p) \subseteq Known(p)'
    BY <1>4, <1>8 DEF Known
  <1> QED
    BY <1>1, <1>2, <1>3, <1>4, <1>7, <1>9 DEF TypeOK

-----------------------------------------------------------------------------
(* Types *)

LEMMA TypeInit == Init => TypeOK
  <1> SUFFICES ASSUME Init PROVE TypeOK
    OBVIOUS
  <1>1. server \in [Servers -> ServerStates]
    BY NewServerType DEF Init
  <1>2. /\ req \in [Admins -> Requests \cup {None}]
        /\ pc \in [Admins -> {"idle", "mkdir"} \cup Questions \cup CommandSteps]
        /\ todo \in [Admins -> Seq(Datastores)]
        /\ read \in [Admins -> ServerStates \cup {None}]
        /\ rc \in [Admins -> {None, 0, 1, 2, 130}]
        /\ calls \in Nat /\ late \subseteq LateCommands
        /\ alone \in [Admins -> BOOLEAN] /\ dropped \in [Servers -> SUBSET Names]
    BY DEF Init
  <1>3. \A a \in Admins : pc[a] = "idle" /\ read[a] = None
    BY DEF Init
  <1> QED
    BY <1>1, <1>2, <1>3 DEF TypeOK

\* The ways a tool goes on, as far as types are concerned.
ToolType ==
  /\ pc \in [Admins -> {"idle", "mkdir"} \cup Questions \cup CommandSteps]
  /\ todo \in [Admins -> Seq(Datastores)]
  /\ read \in [Admins -> ServerStates \cup {None}]
  /\ rc \in [Admins -> {None, 0, 1, 2, 130}]

\* The step of one tool: it has read nothing after it, and the others do not move.
Moves(a) ==
  /\ ToolType'
  /\ read'[a] = None
  /\ \A b \in Admins \ {a} : pc'[b] = pc[b] /\ todo'[b] = todo[b] /\ read'[b] = read[b]

LEMMA ExitType ==
  ASSUME TypeOK, NEW a \in Admins, NEW code \in {0, 1, 2, 130}, Exit(a, code)
  PROVE  Moves(a) /\ pc'[a] = "idle"
  BY DEF TypeOK, ToolType, Exit, Moves

LEMMA GotoType ==
  ASSUME TypeOK, NEW a \in Admins, NEW step \in Questions \cup CommandSteps, Goto(a, step)
  PROVE  Moves(a) /\ pc'[a] = step /\ todo' = todo
  BY DEF TypeOK, ToolType, Goto, Moves

LEMMA StartType ==
  ASSUME TypeOK, NEW a \in Admins, NEW step \in Questions \cup {"mkdir"},
         NEW stores \in Seq(Datastores), Start(a, step, stores)
  PROVE  Moves(a) /\ pc'[a] = step /\ todo'[a] = stores
  BY DEF TypeOK, ToolType, Start, Moves

\* What the next step is after a command that succeeded.
LEMMA AdvanceType ==
  ASSUME TypeOK, NEW a \in Admins, pc[a] \in CommandSteps, Advance(a)
  PROVE  /\ Moves(a)
         /\ pc'[a] # "idle" => todo'[a] # <<>>
         /\ \/ pc'[a] \in {"idle", "mkdir"}
            \/ /\ pc[a] = "create" /\ pc'[a] \in {"job", "probe_job"}
               /\ todo'[a] = todo[a]
  <1>1. todo[a] \in Seq(Datastores) /\ todo[a] # <<>>
    BY DEF TypeOK, CommandSteps
  <1>3. CASE pc[a] = "create"
    <2>1. req[a].tool \in {"labctl", "script"}
      <3>1. req[a] \in Requests
        BY <1>3 DEF TypeOK
      <3> QED
        BY <3>1, RequestsAssumption
    <2>2. Goto(a, "job") \/ Goto(a, "probe_job")
      BY <1>3, <2>1 DEF Advance
    <2> QED
      BY <1>1, <1>3, <2>2, GotoType DEF CommandSteps, Questions
  <1>4. CASE pc[a] = "job" /\ Len(todo[a]) > 1
    <2>1. Start(a, "mkdir", Tail(todo[a]))
      BY <1>4 DEF Advance
    <2>2. Tail(todo[a]) \in Seq(Datastores) /\ Tail(todo[a]) # <<>>
      BY <1>1, <1>4
    <2> QED
      BY <2>1, <2>2, StartType DEF CommandSteps
  <1>5. CASE pc[a] # "create" /\ ~(pc[a] = "job" /\ Len(todo[a]) > 1)
    <2>1. Exit(a, 0)
      BY <1>5 DEF Advance
    <2> QED
      BY <2>1, ExitType
  <1> QED
    BY <1>3, <1>4, <1>5

LEMMA CallType ==
  ASSUME TypeOK, NEW a \in Admins, NEW r \in Requests, Call(a, r)
  PROVE  TypeOK' /\ Moves(a)
  <1>1. /\ req' = [req EXCEPT ![a] = r] /\ calls' = calls + 1 /\ late' = late
        /\ server' = server /\ alone' = [alone EXCEPT ![a] = TRUE] /\ dropped' = dropped
    BY DEF Call
  <1>2. /\ req' \in [Admins -> Requests \cup {None}] /\ req'[a] \in Requests
        /\ \A b \in Admins \ {a} : req'[b] = req[b]
        /\ calls' \in Nat /\ late' \subseteq LateCommands
        /\ server' \in [Servers -> ServerStates] /\ alone' \in [Admins -> BOOLEAN]
        /\ dropped' \in [Servers -> SUBSET Names]
    BY <1>1 DEF TypeOK
  <1>3. r.stores \in Seq(Datastores) /\ (r.tool = "script" => Len(r.stores) = 1)
    BY RequestsAssumption
  <1>4. Moves(a) /\ (pc'[a] # "idle" => todo'[a] # <<>>)
    <2>1. CASE r.tool = "script"
      <3>1. Start(a, "reach", r.stores)
        BY <2>1 DEF Call
      <3>2. r.stores # <<>>
        <4>1. Len(r.stores) = 1
          BY <1>3, <2>1
        <4>2. Len(<<>>) # 1
          OBVIOUS
        <4> QED
          BY <4>1, <4>2, Zenon
      <3> QED
        BY <1>3, <3>1, <3>2, StartType DEF Questions
    <2>2. CASE r.tool # "script" /\ r.servers # {} /\ r.stores # <<>> /\ r.execute
      <3>1. Start(a, "mkdir", r.stores)
        BY <2>2 DEF Call
      <3> QED
        BY <1>3, <2>2, <3>1, StartType
    <2>3. CASE r.tool # "script" /\ (r.servers = {} \/ r.stores = <<>> \/ ~r.execute)
      <3>1. Exit(a, 1) \/ Exit(a, 0)
        BY <2>3 DEF Call
      <3> QED
        BY <3>1, ExitType
    <2> QED
      BY <2>1, <2>2, <2>3
  <1>5. \A b \in Admins : pc'[b] # "idle" => req'[b] \in Requests /\ todo'[b] # <<>>
    BY <1>2, <1>4 DEF TypeOK, Moves
  <1>6. \A b \in Admins : read'[b] # None => pc'[b] \in CommandSteps
    BY <1>4 DEF TypeOK, Moves
  <1> QED
    BY <1>2, <1>4, <1>5, <1>6 DEF TypeOK, ToolType, Moves

\* A step that keeps the requests and the shape of everything but the tool keeps
\* the types when the tool is well and has something to do.
LEMMA ToolStepType ==
  ASSUME TypeOK, NEW a \in Admins, pc[a] # "idle", UNCHANGED <<req, calls>>,
         server' \in [Servers -> ServerStates], late' \subseteq LateCommands,
         alone' \in [Admins -> BOOLEAN], dropped' \in [Servers -> SUBSET Names],
         Moves(a), pc'[a] # "idle" => todo'[a] # <<>>
  PROVE  TypeOK'
  <1>1. \A b \in Admins : pc'[b] # "idle" => req'[b] \in Requests /\ todo'[b] # <<>>
    BY DEF TypeOK, Moves
  <1>2. \A b \in Admins : read'[b] # None => pc'[b] \in CommandSteps
    BY DEF TypeOK, Moves
  <1> QED
    BY <1>1, <1>2 DEF TypeOK, ToolType, Moves

\* A question, like mkdir, changes nothing but where the tool is.
LEMMA QuestionType ==
  ASSUME TypeOK, NEW a \in Admins, NEW ok \in BOOLEAN,
         Reach(a, ok) \/ Probe(a, ok) \/ ProbeJob(a, ok) \/ Mkdir(a)
  PROVE  TypeOK' /\ Moves(a)
  <1>1. /\ pc[a] # "idle" /\ UNCHANGED <<req, calls, server, late, alone, dropped>>
        /\ \/ \E step \in {"probe", "create", "probe_job", "update", "new"} : Goto(a, step)
           \/ \E code \in {0, 2} : Exit(a, code)
    BY DEF Reach, Probe, ProbeJob, Mkdir
  <1>2. todo[a] # <<>>
    BY <1>1 DEF TypeOK
  <1>3. Moves(a) /\ (pc'[a] # "idle" => todo'[a] # <<>>)
    <2>1. ASSUME NEW step \in {"probe", "create", "probe_job", "update", "new"}, Goto(a, step)
          PROVE  <1>3!1 /\ <1>3!2
      BY <1>2, <2>1, GotoType DEF Questions, CommandSteps
    <2>2. ASSUME NEW code \in {0, 2}, Exit(a, code)
          PROVE  <1>3!1 /\ <1>3!2
      BY <2>2, ExitType
    <2> QED
      BY <1>1, <2>1, <2>2
  <1>4. /\ server' \in [Servers -> ServerStates] /\ late' \subseteq LateCommands
        /\ alone' \in [Admins -> BOOLEAN] /\ dropped' \in [Servers -> SUBSET Names]
    BY <1>1 DEF TypeOK
  <1> QED
    BY <1>1, <1>3, <1>4, ToolStepType

\* What a tool leaves behind when it gives its command up.
LEMMA GivenUpType ==
  ASSUME TypeOK, NEW a \in Admins, pc[a] \in CommandSteps
  PROVE  GivenUp(a) \in LateCommands
  <1>1. CommandOf(a) \in CommandRecords
    BY CommandType
  <1>2. read[a] \in ServerStates \cup {None}
    BY DEF TypeOK
  <1> QED
    BY <1>1, <1>2 DEF GivenUp, LateCommands

\* The command that a tool renames.
LEMMA RunOkType ==
  ASSUME TypeOK, NEW a \in Admins, RunOk(a)
  PROVE  /\ CommandOf(a) \in CommandRecords /\ read[a] \in ServerStates
         /\ Rename(CommandOf(a), read[a]) /\ Moves(a) /\ TypeOK'
  <1>1. /\ pc[a] \in CommandSteps /\ read[a] # None /\ Rename(CommandOf(a), read[a])
        /\ Advance(a) /\ UNCHANGED <<req, calls, late>>
        /\ alone' = [b \in Admins |-> b = a /\ alone[a]]
    BY DEF RunOk
  <1>2. CommandOf(a) \in CommandRecords /\ read[a] \in ServerStates
    BY <1>1, CommandType DEF TypeOK
  <1>3. server' \in [Servers -> ServerStates] /\ dropped' \in [Servers -> SUBSET Names]
    BY <1>1, <1>2, RenameEffect
  <1>4. alone' \in [Admins -> BOOLEAN]
    BY <1>1, Zenon
  <1>5. late' \subseteq LateCommands /\ pc[a] # "idle"
    BY <1>1 DEF TypeOK, CommandSteps
  <1>6. Moves(a) /\ (pc'[a] # "idle" => todo'[a] # <<>>)
    BY <1>1, AdvanceType
  <1> QED
    BY <1>1, <1>2, <1>3, <1>4, <1>5, <1>6, ToolStepType

LEMMA EndType ==
  ASSUME TypeOK, NEW a \in Admins, Interrupt(a) \/ \E goes_on \in BOOLEAN : RunFail(a, goes_on)
  PROVE  /\ pc[a] # "idle" /\ UNCHANGED <<req, calls, server, alone, dropped>>
         /\ Exit(a, 1) \/ Exit(a, 130)
         /\ late' = late \/ (pc[a] \in CommandSteps /\ late' = late \cup {GivenUp(a)})
         /\ Moves(a) /\ TypeOK'
  <1>1. /\ pc[a] # "idle" /\ UNCHANGED <<req, calls, server, alone, dropped>>
        /\ Exit(a, 1) \/ Exit(a, 130)
        /\ late' = late \/ (pc[a] \in CommandSteps /\ late' = late \cup {GivenUp(a)})
    BY DEF Interrupt, RunFail, CommandSteps
  <1>2. late' \subseteq LateCommands
    BY <1>1, GivenUpType DEF TypeOK
  <1>3. /\ server' \in [Servers -> ServerStates] /\ alone' \in [Admins -> BOOLEAN]
        /\ dropped' \in [Servers -> SUBSET Names]
    BY <1>1 DEF TypeOK
  <1>4. Moves(a) /\ pc'[a] = "idle"
    BY <1>1, ExitType
  <1> QED
    BY <1>1, <1>2, <1>3, <1>4, ToolStepType

LEMMA LateType ==
  ASSUME TypeOK, NEW l \in late, LateRead(l) \/ LateRename(l)
  PROVE  TypeOK'
  <1>1. /\ UNCHANGED <<req, pc, todo, read, rc, calls>>
        /\ l.command \in CommandRecords /\ l.read \in ServerStates \cup {None}
    BY DEF LateRead, LateRename, tool, TypeOK, LateCommands
  <1>2. /\ server' \in [Servers -> ServerStates] /\ dropped' \in [Servers -> SUBSET Names]
        /\ late' \subseteq LateCommands /\ alone' \in [Admins -> BOOLEAN]
    <2>1. CASE LateRead(l)
      <3>1. server[l.command.pbs] \in ServerStates
        BY <1>1 DEF TypeOK, CommandRecords
      <3>2. PICK file, m : file = server[l.command.pbs] /\ m = [l EXCEPT !.read = file]
        OBVIOUS
      <3>3. m \in LateCommands /\ late \subseteq LateCommands
        <4>1. file \in ServerStates \cup {None}
          BY <3>1, <3>2
        <4>2. late \subseteq LateCommands /\ l \in LateCommands
          BY DEF TypeOK
        <4>3. m = [l EXCEPT !.read = file]
          BY <3>2
        <4>4. m \in LateCommands
          BY <4>1, <4>2, <4>3 DEF LateCommands
        <4> QED
          BY <4>2, <4>4
      <3>4. late' = (late \ {l}) \cup {m}
        BY <2>1, <3>2 DEF LateRead
      <3>5. late' \subseteq LateCommands
        BY <3>3, <3>4
      <3>6. UNCHANGED <<server, alone, dropped>>
        BY <2>1 DEF LateRead
      <3> QED
        BY <3>5, <3>6 DEF TypeOK
    <2>2. CASE LateRename(l)
      <3>1. l.read \in ServerStates /\ Rename(l.command, l.read) /\ late' = late \ {l}
            /\ alone' = [b \in Admins |-> FALSE]
        BY <1>1, <2>2 DEF LateRename
      <3> QED
        BY <1>1, <3>1, RenameEffect DEF TypeOK
    <2> QED
      BY <2>1, <2>2
  <1> QED
    BY <1>1, <1>2 DEF TypeOK

\* jq changes nothing but what the tool holds.
LEMMA ReadType ==
  ASSUME TypeOK, NEW a \in Admins, Read(a)
  PROVE  TypeOK'
  <1>1. pc[a] # "idle" /\ todo[a] \in Seq(Datastores) /\ todo[a] # <<>>
    BY DEF Read, TypeOK, CommandSteps
  <1>2. Head(todo[a]) \in Datastores
    BY <1>1
  <1>3. server[Head(todo[a]).pbs] \in ServerStates
    BY <1>2 DEF TypeOK, Datastores
  <1> QED
    BY <1>3 DEF Read, TypeOK

LEMMA TypeStep == TypeOK /\ [Next]_vars => TypeOK'
  <1> SUFFICES ASSUME TypeOK, [Next]_vars PROVE TypeOK'
    OBVIOUS
  <1>1. CASE UNCHANGED vars
    BY <1>1 DEF TypeOK, vars, tool
  <1> QED
    BY <1>1, CallType, QuestionType, RunOkType, EndType, LateType, ReadType DEF Next

\* Every variable stays within its type, for every set of servers, command lines
\* and administrators (pbs-init and pbs-init.sh).
THEOREM Typing == Spec => []TypeOK
  BY TypeInit, TypeStep, PTL DEF Spec
-----------------------------------------------------------------------------
(* A prune job has its datastore, unless a rename dropped that *)

JobSteps == {"job", "update", "new"}

\* A file that was read has no job but of datastores that have been in the server's.
ReadKnown(file, p) == file # None => DOMAIN file.jobs \subseteq Known(p)

ToolKnown(a) ==
  /\ pc[a] \in JobSteps \/ (pc[a] = "probe_job" /\ req[a].execute)
       => Head(todo[a]).name \in Known(Head(todo[a]).pbs)
  /\ ReadKnown(read[a], Head(todo[a]).pbs)

LateKnown(l) ==
  /\ l.command.step \in JobSteps => l.command.name \in Known(l.command.pbs)
  /\ ReadKnown(l.read, l.command.pbs)

\* The inductive invariant: a tool that is about to make a prune job, and a prune
\* job that may come late, are about a datastore that is or was in the file, and what
\* commands have read has jobs of such datastores only.  A dry run of pbs-init.sh
\* asks for the prune jobs without that, and makes none.
KnownInv ==
  /\ JobHasDatastore
  /\ \A l \in late : LateKnown(l)
  /\ \A a \in Admins : ToolKnown(a)

LEMMA KnownInit == Init => KnownInv
  <1> SUFFICES ASSUME Init PROVE KnownInv
    OBVIOUS
  <1>1. \A p \in Servers : DOMAIN server[p].jobs = {}
    BY DEF Init, NewServer, Nothing
  <1>2. late = {} /\ \A a \in Admins : pc[a] = "idle" /\ read[a] = None
    BY DEF Init
  <1> QED
    BY <1>1, <1>2 DEF KnownInv, JobHasDatastore, ToolKnown, JobSteps, ReadKnown

\* A tool at work has a datastore of one of the servers before it.
LEMMA HeadPlaced ==
  ASSUME TypeOK, NEW a \in Admins, pc[a] # "idle"
  PROVE  Head(todo[a]) \in Datastores /\ Head(todo[a]).pbs \in Servers
  <1>1. todo[a] \in Seq(Datastores) /\ todo[a] # <<>>
    BY DEF TypeOK
  <1>2. Head(todo[a]) \in Datastores
    BY <1>1
  <1> QED
    BY <1>2 DEF Datastores

\* What is said of tools that do not move and of commands given up on stays true while
\* no datastore is forgotten.
LEMMA KnownStays ==
  ASSUME TypeOK, KnownInv, \A p \in Servers : Known(p) \subseteq Known(p)'
  PROVE  /\ \A b \in Admins :
              pc'[b] = pc[b] /\ todo'[b] = todo[b] /\ read'[b] = read[b]
                /\ (req'[b] = req[b] \/ pc[b] = "idle") => ToolKnown(b)'
         /\ \A l \in late : LateKnown(l)'
  <1>1. ASSUME NEW b \in Admins, pc'[b] = pc[b], todo'[b] = todo[b], read'[b] = read[b],
               req'[b] = req[b] \/ pc[b] = "idle"
        PROVE  ToolKnown(b)'
    <2>1. CASE pc[b] = "idle"
      <3>1. read[b] = None
        BY <2>1 DEF TypeOK, CommandSteps
      <3> QED
        BY <1>1, <2>1, <3>1 DEF ToolKnown, JobSteps, ReadKnown
    <2>2. CASE pc[b] # "idle"
      <3>1. PICK h, file : h = Head(todo[b]) /\ file = read[b]
        OBVIOUS
      <3>2. Known(h.pbs) \subseteq Known(h.pbs)' /\ Head(todo'[b]) = h /\ read'[b] = file
        BY <1>1, <2>2, <3>1, HeadPlaced
      <3>3. ToolKnown(b)
        BY DEF KnownInv
      <3>4. ReadKnown(file, h.pbs)'
        BY <3>1, <3>2, <3>3 DEF ToolKnown, ReadKnown
      <3> QED
        BY <1>1, <2>2, <3>1, <3>2, <3>3, <3>4 DEF ToolKnown
    <2> QED
      BY <2>1, <2>2
  <1>2. ASSUME NEW l \in late
        PROVE  LateKnown(l)'
    <2>1. l.command.pbs \in Servers
      BY DEF TypeOK, LateCommands, CommandRecords
    <2> QED
      BY <2>1 DEF KnownInv, LateKnown, ReadKnown
  <1> QED
    BY <1>1, <1>2

\* A rename of a command that is known keeps the jobs of the servers known.
LEMMA RenameKnown ==
  ASSUME TypeOK, KnownInv, NEW c \in CommandRecords, NEW file \in ServerStates,
         Rename(c, file), c.step \in JobSteps => c.name \in Known(c.pbs),
         DOMAIN file.jobs \subseteq Known(c.pbs)
  PROVE  /\ JobHasDatastore'
         /\ \A p \in Servers : Known(p) \subseteq Known(p)'
         /\ c.step = "create" => c.name \in DOMAIN server'[c.pbs].datastores
  <1>1. /\ \A p \in Servers : server'[p] = IF p = c.pbs THEN Edit(c, file) ELSE server[p]
        /\ \A p \in Servers : Known(p) \subseteq Known(p)'
    BY RenameEffect
  <1>2. c.pbs \in Servers
    BY DEF CommandRecords
  <1>3. ASSUME NEW p \in Servers, NEW n \in DOMAIN server'[p].jobs
        PROVE  n \in Known(p)'
    <2>1. CASE p = c.pbs
      <3>1. n \in DOMAIN file.jobs \/ (n = c.name /\ c.step \in JobSteps)
        BY <1>1, <1>3, <2>1, EditEffect DEF JobSteps
      <3> QED
        BY <1>1, <2>1, <3>1
    <2>2. CASE p # c.pbs
      <3>1. n \in Known(p)
        BY <1>1, <1>3, <2>2 DEF KnownInv, JobHasDatastore, Known
      <3> QED
        BY <1>1, <3>1
    <2> QED
      BY <2>1, <2>2
  <1>4. JobHasDatastore'
    BY <1>3 DEF JobHasDatastore, Known
  <1> QED
    BY <1>1, <1>2, <1>4, EditEffect

LEMMA QuestionKnown ==
  ASSUME TypeOK, KnownInv, NEW a \in Admins, NEW ok \in BOOLEAN,
         Reach(a, ok) \/ Probe(a, ok) \/ ProbeJob(a, ok) \/ Mkdir(a)
  PROVE  KnownInv'
  <1>1. UNCHANGED <<req, server, dropped, late>> /\ pc[a] # "idle"
    BY DEF Reach, Probe, ProbeJob, Mkdir
  <1>2. \A p : Known(p)' = Known(p)
    BY <1>1 DEF Known
  <1>3. Moves(a)
    BY QuestionType
  <1>4. ToolKnown(a)'
    <2>1. CASE Reach(a, ok) \/ Mkdir(a)
      <3>1. pc'[a] \in {"probe", "idle", "create"}
        BY <2>1 DEF Reach, Mkdir, Goto, Exit, TypeOK
      <3> QED
        BY <1>3, <3>1 DEF ToolKnown, JobSteps, Moves, ReadKnown
    <2>2. CASE Probe(a, ok)
      <3>1. todo' = todo /\ pc'[a] \in {"probe_job", "create"}
        BY <2>2 DEF Probe, Goto, TypeOK
      <3>2. pc'[a] = "probe_job" /\ req[a].execute
              => Head(todo[a]).name \in Known(Head(todo[a]).pbs)
        BY <2>2 DEF Probe, Goto, TypeOK, Known
      <3> QED
        BY <1>1, <1>2, <1>3, <3>1, <3>2 DEF ToolKnown, JobSteps, Moves, ReadKnown
    <2>3. CASE ProbeJob(a, ok)
      <3>1. pc'[a] = "idle" \/ (req[a].execute /\ todo' = todo /\ pc'[a] \in {"update", "new"})
        BY <2>3 DEF ProbeJob, Goto, Exit, TypeOK
      <3>2. pc[a] = "probe_job" /\ ToolKnown(a)
        BY <2>3 DEF ProbeJob, KnownInv
      <3> QED
        BY <1>1, <1>2, <1>3, <3>1, <3>2 DEF ToolKnown, JobSteps, Moves, ReadKnown
    <2> QED
      BY <2>1, <2>2, <2>3
  <1>5. \A b \in Admins \ {a} : ToolKnown(b)'
    BY <1>1, <1>2, <1>3, KnownStays DEF Moves
  <1>6. \A l \in late' : LateKnown(l)'
    BY <1>1, <1>2, KnownStays
  <1>7. JobHasDatastore'
    BY <1>1 DEF KnownInv, JobHasDatastore
  <1> QED
    BY <1>4, <1>5, <1>6, <1>7 DEF KnownInv

\* A tool that ends, whatever becomes of its command.
LEMMA EndKnown ==
  ASSUME TypeOK, KnownInv, NEW a \in Admins,
         Interrupt(a) \/ \E goes_on \in BOOLEAN : RunFail(a, goes_on)
  PROVE  KnownInv'
  <1>1. /\ UNCHANGED <<req, server, dropped>> /\ Moves(a) /\ (Exit(a, 1) \/ Exit(a, 130))
        /\ late' = late \/ (pc[a] \in CommandSteps /\ late' = late \cup {GivenUp(a)})
    BY EndType
  <1>2. \A p : Known(p)' = Known(p)
    BY <1>1 DEF Known
  <1>3. pc'[a] = "idle"
    BY <1>1, ExitType
  <1>4. ToolKnown(a)'
    BY <1>1, <1>3 DEF ToolKnown, JobSteps, Moves, ReadKnown
  <1>5. \A b \in Admins \ {a} : ToolKnown(b)'
    BY <1>1, <1>2, KnownStays DEF Moves
  <1>6. pc[a] \in CommandSteps => LateKnown(GivenUp(a))
    <2>1. SUFFICES ASSUME pc[a] \in CommandSteps
                   PROVE  LateKnown(GivenUp(a))
      OBVIOUS
    <2>2. /\ CommandOf(a).step = pc[a] /\ CommandOf(a).pbs = Head(todo[a]).pbs
          /\ CommandOf(a).name = Head(todo[a]).name
      BY <2>1, CommandType
    <2>3. GivenUp(a).command = CommandOf(a) /\ GivenUp(a).read = read[a]
      BY DEF GivenUp
    <2>4. ToolKnown(a)
      BY DEF KnownInv
    <2> QED
      BY <2>2, <2>3, <2>4 DEF ToolKnown, LateKnown
  <1>7. \A l \in late' : LateKnown(l)
    BY <1>1, <1>6 DEF KnownInv
  <1>8. \A l \in late' : LateKnown(l)'
    BY <1>2, <1>7 DEF LateKnown, ReadKnown
  <1>9. JobHasDatastore'
    BY <1>1 DEF KnownInv, JobHasDatastore
  <1> QED
    BY <1>4, <1>5, <1>8, <1>9 DEF KnownInv

LEMMA RunOkKnown ==
  ASSUME TypeOK, KnownInv, NEW a \in Admins, RunOk(a)
  PROVE  KnownInv'
  <1>1. PICK c \in CommandRecords, file \in ServerStates : c = CommandOf(a) /\ file = read[a]
    BY RunOkType
  <1>2. /\ pc[a] \in CommandSteps /\ Rename(c, file) /\ Advance(a) /\ file # None
        /\ UNCHANGED <<req, late>>
    BY <1>1 DEF RunOk
  <1>3. c.step = pc[a] /\ c.pbs = Head(todo[a]).pbs /\ c.name = Head(todo[a]).name
    BY <1>1, <1>2, CommandType
  <1>4. ToolKnown(a)
    BY DEF KnownInv
  <1>5. /\ c.step \in JobSteps => c.name \in Known(c.pbs)
        /\ DOMAIN file.jobs \subseteq Known(c.pbs)
    BY <1>1, <1>2, <1>3, <1>4 DEF ToolKnown, ReadKnown
  <1>6. /\ JobHasDatastore'
        /\ \A p \in Servers : Known(p) \subseteq Known(p)'
        /\ c.step = "create" => c.name \in DOMAIN server'[c.pbs].datastores
    BY <1>2, <1>5, RenameKnown
  <1>7. /\ Moves(a)
        /\ \/ pc'[a] \in {"idle", "mkdir"}
           \/ /\ pc[a] = "create" /\ pc'[a] \in {"job", "probe_job"}
              /\ todo'[a] = todo[a]
    BY <1>2, AdvanceType
  <1>8. ToolKnown(a)'
    <2>1. read'[a] = None
      BY <1>7 DEF Moves
    <2>2. CASE pc'[a] \in {"idle", "mkdir"}
      BY <2>1, <2>2 DEF ToolKnown, JobSteps, ReadKnown
    <2>3. CASE pc[a] = "create" /\ todo'[a] = todo[a]
      <3>1. c.name \in Known(c.pbs)'
        BY <1>3, <1>6, <2>3 DEF Known
      <3> QED
        BY <1>3, <2>1, <2>3, <3>1 DEF ToolKnown, ReadKnown
    <2> QED
      BY <1>7, <2>2, <2>3
  <1>9. \A b \in Admins \ {a} : ToolKnown(b)'
    BY <1>2, <1>6, <1>7, KnownStays DEF Moves
  <1>10. \A l \in late' : LateKnown(l)'
    BY <1>2, <1>6, KnownStays
  <1> QED
    BY <1>6, <1>8, <1>9, <1>10 DEF KnownInv

\* jq reads jobs of known datastores only.
LEMMA FileKnown ==
  ASSUME KnownInv, NEW p \in Servers
  PROVE  ReadKnown(server[p], p)
  BY DEF KnownInv, JobHasDatastore, ReadKnown, Known

LEMMA ReadKeepsKnown ==
  ASSUME TypeOK, KnownInv, NEW a \in Admins, Read(a)
  PROVE  KnownInv'
  <1>1. /\ UNCHANGED <<req, pc, todo, server, dropped, late>> /\ pc[a] # "idle"
        /\ read'[a] = server[Head(todo[a]).pbs]
        /\ \A b \in Admins \ {a} : read'[b] = read[b]
    BY DEF Read, TypeOK, CommandSteps
  <1>2. \A p : Known(p)' = Known(p)
    BY <1>1 DEF Known
  <1>3. PICK p, file : p \in Servers /\ p = Head(todo[a]).pbs /\ file = server[p]
    BY <1>1, HeadPlaced
  <1>4. ToolKnown(a)'
    <2>1. ReadKnown(file, p)'
      <3>1. ReadKnown(file, p)
        BY <1>3, FileKnown
      <3> QED
        BY <1>2, <3>1 DEF ReadKnown
    <2>2. read'[a] = file /\ Head(todo'[a]) = Head(todo[a])
      BY <1>1, <1>3
    <2>3. ToolKnown(a)
      BY DEF KnownInv
    <2> QED
      BY <1>1, <1>2, <1>3, <2>1, <2>2, <2>3 DEF ToolKnown
  <1>5. \A b \in Admins \ {a} : ToolKnown(b)'
    BY <1>1, <1>2, KnownStays
  <1>6. JobHasDatastore' /\ \A l \in late' : LateKnown(l)'
    BY <1>1, <1>2, KnownStays DEF KnownInv, JobHasDatastore
  <1> QED
    BY <1>4, <1>5, <1>6 DEF KnownInv

LEMMA LateKeepsKnown ==
  ASSUME TypeOK, KnownInv, NEW l \in late, LateRead(l) \/ LateRename(l)
  PROVE  KnownInv'
  <1>1. /\ UNCHANGED <<req, pc, todo, read>>
        /\ l.command \in CommandRecords /\ l.read \in ServerStates \cup {None}
        /\ l.command.pbs \in Servers /\ LateKnown(l)
    BY DEF LateRead, LateRename, tool, TypeOK, LateCommands, CommandRecords, KnownInv
  <1>2. CASE LateRead(l)
    <2>1. UNCHANGED <<server, dropped>>
      BY <1>2 DEF LateRead
    <2>2. \A p : Known(p)' = Known(p)
      BY <2>1 DEF Known
    <2>3. PICK m : m = [l EXCEPT !.read = server[l.command.pbs]]
      OBVIOUS
    <2>4. m.command = l.command /\ m.read = server[l.command.pbs]
      BY <2>3 DEF TypeOK, LateCommands
    <2>5. ReadKnown(m.read, l.command.pbs)
      BY <1>1, <2>4, FileKnown
    <2>6. LateKnown(m)
      BY <1>1, <2>4, <2>5 DEF LateKnown
    <2>7. LateKnown(m)'
      BY <2>2, <2>6 DEF LateKnown, ReadKnown
    <2>8. late' = (late \ {l}) \cup {m}
      BY <1>2, <2>3 DEF LateRead
    <2>9. /\ \A k \in late : LateKnown(k)'
          /\ \A b \in Admins : ToolKnown(b)'
      BY <1>1, <2>2, KnownStays
    <2>10. JobHasDatastore'
      BY <2>1 DEF KnownInv, JobHasDatastore
    <2> QED
      BY <2>7, <2>8, <2>9, <2>10 DEF KnownInv
  <1>3. CASE LateRename(l)
    <2>1. l.read \in ServerStates /\ Rename(l.command, l.read) /\ late' = late \ {l}
          /\ l.read # None
      BY <1>1, <1>3 DEF LateRename
    <2>2. JobHasDatastore' /\ \A p \in Servers : Known(p) \subseteq Known(p)'
      BY <1>1, <2>1, RenameKnown DEF LateKnown, ReadKnown
    <2> QED
      BY <1>1, <2>1, <2>2, KnownStays DEF KnownInv
  <1> QED
    BY <1>2, <1>3

LEMMA CallKnown ==
  ASSUME TypeOK, KnownInv, NEW a \in Admins, NEW r \in Requests, Call(a, r)
  PROVE  KnownInv'
  <1>1. /\ UNCHANGED <<server, dropped, late>> /\ req' = [req EXCEPT ![a] = r]
        /\ \/ Start(a, "reach", r.stores) \/ Start(a, "mkdir", r.stores)
           \/ Exit(a, 0) \/ Exit(a, 1)
    BY DEF Call
  <1>2. pc'[a] \in {"reach", "mkdir", "idle"} /\ Moves(a)
    BY <1>1, CallType DEF Start, Exit, TypeOK
  <1>3. \A p : Known(p)' = Known(p)
    BY <1>1 DEF Known
  <1>4. ToolKnown(a)'
    BY <1>2 DEF ToolKnown, JobSteps, ReadKnown, Moves
  <1>5. \A b \in Admins \ {a} : req'[b] = req[b]
    BY <1>1 DEF TypeOK
  <1>6. \A b \in Admins \ {a} : ToolKnown(b)'
    BY <1>2, <1>3, <1>5, KnownStays DEF Moves
  <1>7. JobHasDatastore' /\ \A l \in late' : LateKnown(l)'
    BY <1>1, <1>3, KnownStays DEF KnownInv, JobHasDatastore
  <1> QED
    BY <1>4, <1>6, <1>7 DEF KnownInv

LEMMA KnownStep == TypeOK /\ KnownInv /\ [Next]_vars => KnownInv'
  <1> SUFFICES ASSUME TypeOK, KnownInv, [Next]_vars PROVE KnownInv'
    OBVIOUS
  <1>1. CASE UNCHANGED vars
    BY <1>1 DEF KnownInv, JobHasDatastore, ToolKnown, LateKnown, ReadKnown, Known, vars, tool
  <1> QED
    BY <1>1, CallKnown, QuestionKnown, RunOkKnown, EndKnown, ReadKeepsKnown,
       LateKeepsKnown DEF Next

\* A prune job exists without its datastore only when a rename took the datastore out
\* of the file again, however many administrators use labctl pbs-init and pbs-init.sh
\* at the same time, however their commands' reads and renames interleave and
\* whatever comes late.
THEOREM JobsHaveDatastores == Spec => []JobHasDatastore
  <1>1. KnownInv => JobHasDatastore
    BY DEF KnownInv
  <1>2. Init => TypeOK /\ KnownInv
    BY TypeInit, KnownInit
  <1>3. TypeOK /\ KnownInv /\ [Next]_vars => (TypeOK /\ KnownInv)'
    BY TypeStep, KnownStep
  <1> QED
    BY <1>1, <1>2, <1>3, PTL DEF Spec

-----------------------------------------------------------------------------
(* Exit code 0 *)

Registered(s) == s.name \in DOMAIN server[s.pbs].datastores

HasPath(s) == Registered(s) /\ server[s.pbs].datastores[s.name] = s.path

HasJob(s) ==
  s.name \in DOMAIN server[s.pbs].jobs /\ server[s.pbs].jobs[s.name].policy = s.policy

\* What a tool that ends with 0 has seen to.
Ready(tl, s) == Registered(s) /\ (tl = "labctl" => HasPath(s)) /\ HasJob(s)

\* What is to be set up is the end of what was asked for.
Suffix(a) ==
  /\ Len(todo[a]) <= Len(req[a].stores)
  /\ \A i \in 1..Len(todo[a]) :
       todo[a][i] = req[a].stores[Len(req[a].stores) - Len(todo[a]) + i]

\* The datastores labctl is done with are ready, and so is the present one but for its
\* prune job when that is all that is left.  While no other command renames, what the
\* tool's own has read is what the server has.
AtWork(a) ==
  pc[a] # "idle" /\ req[a].execute /\ alone[a] =>
    /\ Suffix(a)
    /\ req[a].tool = "script" => pc[a] \notin {"mkdir", "job"} /\ Len(todo[a]) = 1
    /\ req[a].tool = "labctl" => pc[a] \in {"mkdir", "create", "job"}
    /\ \A i \in 1..(Len(req[a].stores) - Len(todo[a])) : Ready(req[a].tool, req[a].stores[i])
    /\ pc[a] = "job" => HasPath(Head(todo[a]))
    /\ pc[a] \in {"probe_job", "update", "new"} => Registered(Head(todo[a]))
    /\ read[a] # None => read[a] = server[Head(todo[a]).pbs]

Ended(a) ==
  pc[a] = "idle" /\ rc[a] = 0 /\ req[a].execute /\ alone[a] =>
    \A i \in DOMAIN req[a].stores : Ready(req[a].tool, req[a].stores[i])

ReadyInv == \A a \in Admins : AtWork(a) /\ Ended(a)

LEMMA PutEffect ==
  ASSUME NEW f, NEW x, NEW v
  PROVE  /\ x \in DOMAIN Put(f, x, v) /\ Put(f, x, v)[x] = v
         /\ \A y \in DOMAIN f : y \in DOMAIN Put(f, x, v) /\ (y # x => Put(f, x, v)[y] = f[y])
BY DEF Put

\* A command is about the datastore it names: one that renames its edit of the
\* present file leaves the others ready.
LEMMA FreshEffect ==
  ASSUME TypeOK, NEW c \in CommandRecords, Rename(c, server[c.pbs]), NEW s \in Datastores
  PROVE  /\ s.pbs # c.pbs \/ s.name # c.name =>
              \A tl : Ready(tl, s) => Ready(tl, s)'
         /\ s.pbs = c.pbs /\ s.name = c.name /\ s.path = c.path /\ c.step = "create"
              => HasPath(s)'
         /\ s.pbs = c.pbs /\ s.name = c.name /\ c.step \in {"job", "update", "new"} =>
              /\ Registered(s) => Registered(s)'
              /\ HasPath(s) => HasPath(s)'
              /\ s.policy = c.policy => HasJob(s)'
<1> DEFINE old == server[c.pbs]
           put == [store |-> c.store, policy |-> c.policy]
<1>1. c.pbs \in Servers /\ c.step \in CommandSteps /\ old \in ServerStates /\ s.pbs \in Servers
  BY DEF TypeOK, CommandRecords, Datastores
<1>2. CASE c.step = "create"
  <2> DEFINE new == DatastoreCreate(old, c.name, c.path)
  <2>1. server' = [server EXCEPT ![c.pbs] = new]
    BY <1>2 DEF Rename, Edit
  <2>2. new.datastores = Put(old.datastores, c.name, c.path) /\ new.jobs = old.jobs
    BY <1>1 DEF DatastoreCreate, ServerStates
  <2>3. /\ c.name \in DOMAIN new.datastores /\ new.datastores[c.name] = c.path
        /\ \A y \in DOMAIN old.datastores :
             y \in DOMAIN new.datastores /\ (y # c.name => new.datastores[y] = old.datastores[y])
    <3> HIDE DEF new, old
    <3> QED
      BY <2>2, PutEffect
  <2>4. \A p \in Servers : server'[p] = IF p = c.pbs THEN new ELSE server[p]
    BY <2>1 DEF TypeOK
  <2> HIDE DEF new
  <2> QED
    BY <1>1, <1>2, <2>2, <2>3, <2>4 DEF Ready, HasPath, HasJob, Registered
<1>3. CASE c.step \in {"job", "update", "new"}
  <2> DEFINE new == PruneJobPut(old, c.name, c.store, c.policy)
  <2>1. server' = [server EXCEPT ![c.pbs] = new]
    BY <1>3 DEF Rename, Edit
  <2>2. new.jobs = Put(old.jobs, c.name, put) /\ new.datastores = old.datastores
    BY <1>1 DEF PruneJobPut, ServerStates
  <2>3. /\ c.name \in DOMAIN new.jobs /\ new.jobs[c.name] = put
        /\ \A y \in DOMAIN old.jobs :
             y \in DOMAIN new.jobs /\ (y # c.name => new.jobs[y] = old.jobs[y])
    <3> HIDE DEF new, old, put
    <3> QED
      BY <2>2, PutEffect
  <2>4. put.policy = c.policy
    OBVIOUS
  <2>5. \A p \in Servers : server'[p] = IF p = c.pbs THEN new ELSE server[p]
    BY <2>1 DEF TypeOK
  <2> HIDE DEF new, put
  <2> QED
    BY <1>1, <1>3, <2>2, <2>3, <2>4, <2>5 DEF Ready, HasPath, HasJob, Registered
<1> QED
  BY <1>1, <1>2, <1>3 DEF CommandSteps

\* A tool that neither acts nor is acted on stays as well as it was.
LEMMA OthersReady ==
  ASSUME ReadyInv, NEW b \in Admins,
         \/ alone'[b] = FALSE
         \/ /\ server' = server /\ pc'[b] = pc[b] /\ todo'[b] = todo[b] /\ rc'[b] = rc[b]
            /\ req'[b] = req[b] /\ alone'[b] = alone[b] /\ read'[b] = read[b]
  PROVE  AtWork(b)' /\ Ended(b)'
<1>1. AtWork(b) /\ Ended(b)
  BY DEF ReadyInv
<1>2. CASE alone'[b] = FALSE
  BY <1>2 DEF AtWork, Ended
<1>3. CASE alone'[b] # FALSE
  <2>1. \A tl, s : Ready(tl, s)' <=> Ready(tl, s)
    BY <1>3 DEF Ready, HasPath, HasJob, Registered
  <2>2. Suffix(b)' <=> Suffix(b)
    BY <1>3 DEF Suffix
  <2>3. AtWork(b)'
    <3>1. PICK r, T, step, file, h :
            /\ r = req[b] /\ T = todo[b] /\ step = pc[b] /\ file = read[b] /\ h = Head(T)
      OBVIOUS
    <3>2. /\ req'[b] = r /\ todo'[b] = T /\ pc'[b] = step /\ (alone'[b] <=> alone[b])
          /\ read'[b] = file /\ Head(todo'[b]) = h /\ Head(todo[b]) = h
      BY <1>3, <3>1
    <3>3. /\ HasPath(h)' <=> HasPath(h)
          /\ Registered(h)' <=> Registered(h)
          /\ server'[h.pbs] = server[h.pbs]
      BY <1>3 DEF HasPath, Registered
    <3> QED
      BY <1>1, <2>1, <2>2, <3>1, <3>2, <3>3, Zenon DEF AtWork
  <2>4. Ended(b)'
    BY <1>1, <1>3, <2>1 DEF Ended
  <2> QED
    BY <2>3, <2>4
<1> QED
  BY <1>2, <1>3

LEMMA CallReady ==
  ASSUME TypeOK, ReadyInv, NEW a \in Admins, NEW r \in Requests, Call(a, r)
  PROVE  AtWork(a)' /\ Ended(a)'
<1>1. req'[a] = r /\ read'[a] = None
  BY CallType DEF Call, TypeOK, Moves
<1>2. CASE pc'[a] # "idle" /\ r.execute
  <2>1. \/ r.tool = "script" /\ Start(a, "reach", r.stores)
        \/ r.tool # "script" /\ Start(a, "mkdir", r.stores)
    BY <1>2 DEF Call, Exit, TypeOK
  <2>2. /\ todo'[a] = r.stores
        /\ r.tool = "script" => pc'[a] = "reach"
        /\ r.tool # "script" => pc'[a] = "mkdir"
    BY <2>1 DEF Start, TypeOK
  <2>3. r.stores \in Seq(Datastores) /\ (r.tool = "script" => Len(r.stores) = 1)
        /\ r.tool \in {"labctl", "script"}
    BY RequestsAssumption
  <2>4. Len(r.stores) \in Nat
    BY <2>3
  <2> QED
    BY <1>1, <1>2, <2>2, <2>3, <2>4 DEF AtWork, Ended, Suffix
<1>3. CASE pc'[a] = "idle" /\ r.execute
  <2>1. rc'[a] = 1 \/ r.stores = <<>>
    BY <1>3 DEF Call, Start, Exit, TypeOK
  <2>2. r.stores = <<>> => DOMAIN r.stores = {}
    OBVIOUS
  <2> QED
    BY <1>1, <1>3, <2>1, <2>2 DEF AtWork, Ended
<1>4. CASE ~r.execute
  BY <1>1, <1>4 DEF AtWork, Ended
<1> QED
  BY <1>2, <1>3, <1>4

LEMMA QuestionReady ==
  ASSUME TypeOK, ReadyInv, NEW a \in Admins, NEW ok \in BOOLEAN,
         Reach(a, ok) \/ Probe(a, ok) \/ ProbeJob(a, ok) \/ Mkdir(a)
  PROVE  AtWork(a)' /\ Ended(a)'
<1>1. /\ UNCHANGED <<req, server, alone>> /\ pc[a] \in {"reach", "probe", "probe_job", "mkdir"}
  BY DEF Reach, Probe, ProbeJob, Mkdir
<1>2. CASE ~req[a].execute
  BY <1>1, <1>2 DEF AtWork, Ended
<1>3. CASE req[a].execute /\ pc'[a] = "idle"
  <2>1. rc'[a] = 2
    BY <1>3 DEF Reach, Probe, ProbeJob, Mkdir, Goto, Exit, TypeOK
  <2> QED
    BY <1>3, <2>1 DEF AtWork, Ended
<1>4. CASE req[a].execute /\ pc'[a] # "idle"
  <2>0. read'[a] = None
    BY QuestionType DEF Moves
  <2>1. /\ todo'[a] = todo[a]
        /\ pc'[a] \in {"probe", "probe_job", "create", "update", "new"}
        /\ pc[a] = "mkdir" => pc'[a] = "create"
        /\ pc'[a] \in {"update", "new"} => pc[a] = "probe_job"
        /\ pc'[a] = "probe_job" => Registered(Head(todo[a]))
    BY <1>4 DEF Reach, Probe, ProbeJob, Mkdir, Goto, Exit, TypeOK, Registered
  <2>2. req[a] \in Requests
    BY <1>1 DEF TypeOK
  <2>3. req[a].tool \in {"labctl", "script"}
    BY <2>2, RequestsAssumption
  <2>4. AtWork(a)
    BY DEF ReadyInv
  <2>5. alone[a] =>
          /\ Suffix(a)'
          /\ req[a].tool = "script" => pc[a] # "mkdir" /\ Len(todo[a]) = 1
          /\ req[a].tool = "labctl" => pc[a] = "mkdir"
    BY <1>1, <1>4, <2>1, <2>3, <2>4 DEF AtWork, Suffix
  <2>6. alone[a] => \A i \in 1..(Len(req[a].stores) - Len(todo[a])) :
                      Ready(req[a].tool, req[a].stores[i])'
    BY <1>1, <1>4, <2>4 DEF AtWork, Ready, HasPath, HasJob, Registered
  <2>7. alone[a] /\ pc'[a] \in {"probe_job", "update", "new"} => Registered(Head(todo[a]))'
    BY <1>1, <1>4, <2>1, <2>4 DEF AtWork, Registered
  <2> QED
    BY <1>1, <1>4, <2>0, <2>1, <2>5, <2>6, <2>7 DEF AtWork, Ended
<1> QED
  BY <1>2, <1>3, <1>4

\* The file that jq reads is the one the server has.
LEMMA ReadReady ==
  ASSUME TypeOK, ReadyInv, NEW a \in Admins, Read(a)
  PROVE  AtWork(a)' /\ Ended(a)'
<1>1. /\ UNCHANGED <<req, pc, todo, rc, server, alone>> /\ pc[a] # "idle"
      /\ read'[a] = server[Head(todo[a]).pbs]
  BY DEF Read, TypeOK, CommandSteps
<1>2. AtWork(a)
  BY DEF ReadyInv
<1> QED
  BY <1>1, <1>2 DEF AtWork, Ended, Suffix, Ready, HasPath, HasJob, Registered

\* A command that succeeds brings its tool a step further, and the last one to its
\* end.
LEMMA RunOkReady ==
  ASSUME TypeOK, ReadyInv, NEW a \in Admins, RunOk(a)
  PROVE  AtWork(a)' /\ Ended(a)'
<1>1. PICK r, T, S, k, n, h :
        /\ r = req[a] /\ T = todo[a] /\ S = r.stores
        /\ k = Len(T) /\ n = Len(S) /\ h = Head(T)
  OBVIOUS
<1>2. PICK c \in CommandRecords : c = CommandOf(a)
  BY CommandType DEF RunOk
<1>3. /\ pc[a] \in CommandSteps /\ Rename(c, read[a]) /\ Advance(a) /\ req'[a] = r
      /\ pc[a] # "idle" /\ read[a] # None /\ read'[a] = None
  BY <1>1, <1>2, RunOkType DEF RunOk, CommandSteps, Moves
<1>4. c.step = pc[a] /\ c.pbs = h.pbs /\ c.name = h.name /\ c.path = h.path /\ c.policy = h.policy
  BY <1>1, <1>2 DEF CommandOf
<1>5. alone'[a] => alone[a]
  BY Zenon DEF RunOk
<1>6. r \in Requests /\ T # <<>> /\ T \in Seq(Datastores)
  BY <1>1, <1>3 DEF TypeOK
<1>7. /\ S \in Seq(Datastores) /\ r.tool \in {"labctl", "script"}
      /\ \A i, j \in DOMAIN S : S[i].pbs = S[j].pbs /\ S[i].name = S[j].name => i = j
  BY <1>1, <1>6, RequestsAssumption
<1>8. n \in Nat /\ k \in Nat /\ k >= 1 /\ h \in Datastores /\ h = T[1] /\ DOMAIN S = 1..n
  BY <1>1, <1>6, <1>7
<1> SUFFICES ASSUME alone[a], r.execute
             PROVE  AtWork(a)' /\ Ended(a)'
  BY <1>3, <1>5 DEF AtWork, Ended
<1>9. /\ k <= n /\ \A i \in 1..k : T[i] = S[n - k + i]
      /\ r.tool = "script" => pc[a] \notin {"mkdir", "job"} /\ k = 1
      /\ r.tool = "labctl" => pc[a] \in {"mkdir", "create", "job"}
      /\ \A i \in 1..(n - k) : Ready(r.tool, S[i])
      /\ pc[a] = "job" => HasPath(h)
      /\ pc[a] \in {"probe_job", "update", "new"} => Registered(h)
      /\ read[a] = server[c.pbs]
  <2>1. AtWork(a)
    BY DEF ReadyInv
  <2> QED
    BY <1>1, <1>3, <1>4, <2>1, Zenon DEF AtWork, Suffix
<1>10. h = S[n - k + 1] /\ n - k + 1 \in 1..n
  BY <1>8, <1>9
<1>11. \A i \in 1..(n - k) : Ready(r.tool, S[i])'
  <2> SUFFICES ASSUME NEW i \in 1..(n - k)
               PROVE  Ready(r.tool, S[i])'
    OBVIOUS
  <2>1. i \in 1..n /\ i # n - k + 1 /\ S[i] \in Datastores
    BY <1>7, <1>8, <1>9
  <2>2. S[i].pbs # c.pbs \/ S[i].name # c.name
    BY <1>4, <1>7, <1>8, <1>10, <2>1
  <2>3. Ready(r.tool, S[i])
    BY <1>9
  <2> QED
    BY <1>3, <1>9, <2>1, <2>2, <2>3, FreshEffect
<1>12. pc[a] = "create" => HasPath(h)'
  BY <1>3, <1>4, <1>8, <1>9, FreshEffect
<1>13. pc[a] \in {"job", "update", "new"} => Ready(r.tool, h)'
  <2> SUFFICES ASSUME pc[a] \in {"job", "update", "new"}
               PROVE  Ready(r.tool, h)'
    OBVIOUS
  <2>1. Registered(h)
    BY <1>9 DEF HasPath
  <2>2. c.step \in {"job", "update", "new"}
    BY <1>4
  <2>3. Registered(h)' /\ HasJob(h)' /\ (HasPath(h) => HasPath(h)')
    BY <1>3, <1>4, <1>8, <1>9, <2>1, <2>2, FreshEffect
  <2>4. r.tool = "labctl" => HasPath(h)
    BY <1>9
  <2> QED
    BY <2>3, <2>4 DEF Ready
<1>14. \A i \in 1..(n - (k - 1)) : i \in 1..(n - k) \/ i = n - k + 1
  BY <1>8, <1>9
\* What is left to be shown, in terms of the state after the step.
<1>15. ASSUME NEW U, todo'[a] = U, Len(U) <= n,
              \A i \in 1..Len(U) : U[i] = S[n - Len(U) + i],
              \A i \in 1..(n - Len(U)) : Ready(r.tool, S[i])',
              r.tool = "script" => pc'[a] \notin {"mkdir", "job"} /\ Len(U) = 1,
              r.tool = "labctl" => pc'[a] \in {"mkdir", "create", "job"},
              pc'[a] = "job" => HasPath(Head(U))', pc'[a] # "idle",
              pc'[a] \in {"probe_job", "update", "new"} => Registered(Head(U))'
       PROVE  AtWork(a)' /\ Ended(a)'
  BY <1>1, <1>3, <1>15, Zenon DEF AtWork, Ended, Suffix
<1>16. CASE pc[a] = "create"
  <2>1. /\ todo'[a] = T
        /\ r.tool = "labctl" => pc'[a] = "job"
        /\ r.tool = "script" => pc'[a] = "probe_job"
    BY <1>1, <1>3, <1>7, <1>16 DEF Advance, Goto, TypeOK
  <2>2. HasPath(Head(T))' /\ Registered(Head(T))'
    BY <1>1, <1>12, <1>16 DEF HasPath
  <2> QED
    BY <1>1, <1>7, <1>9, <1>11, <1>15, <1>16, <2>1, <2>2
<1>17. CASE pc[a] = "job" /\ k > 1
  <2>1. PICK U : U = Tail(T)
    OBVIOUS
  <2>2. todo'[a] = U /\ pc'[a] = "mkdir"
    BY <1>1, <1>3, <1>17, <2>1 DEF Advance, Start, TypeOK
  <2>3. r.tool = "labctl"
    BY <1>7, <1>9, <1>17
  <2>4. Len(U) = k - 1 /\ \A i \in 1..(k - 1) : U[i] = T[i + 1]
    BY <1>1, <1>6, <1>8, <2>1
  <2>5. \A i \in 1..(k - 1) : U[i] = S[n - (k - 1) + i]
    <3>1. ASSUME NEW i \in 1..(k - 1)
          PROVE  U[i] = S[n - (k - 1) + i]
      <4>1. i + 1 \in 1..k /\ n - k + (i + 1) = n - (k - 1) + i
        BY <1>8
      <4>2. T[i + 1] = S[n - k + (i + 1)]
        BY <1>9, <4>1
      <4> QED
        BY <2>4, <4>1, <4>2
    <3> QED
      BY <3>1
  <2>6. \A i \in 1..(n - (k - 1)) : Ready(r.tool, S[i])'
    BY <1>10, <1>11, <1>13, <1>14, <1>17
  <2>7. k - 1 <= n
    BY <1>8, <1>9
  <2> QED
    BY <1>15, <2>2, <2>3, <2>4, <2>5, <2>6, <2>7
<1>18. CASE pc[a] \in {"update", "new"} \/ (pc[a] = "job" /\ ~(k > 1))
  <2>1. pc'[a] = "idle"
    BY <1>1, <1>3, <1>18 DEF Advance, Exit, TypeOK
  <2>2. k = 1
    BY <1>7, <1>8, <1>9, <1>18
  <2>3. \A i \in 1..n : Ready(r.tool, S[i])'
    <3>1. \A i \in 1..n : i \in 1..(n - k) \/ i = n - k + 1
      BY <1>8, <1>14, <2>2
    <3> QED
      BY <1>10, <1>11, <1>13, <1>18, <3>1
  <2> QED
    BY <1>1, <1>3, <1>8, <2>1, <2>3, Zenon DEF AtWork, Ended
<1> QED
  BY <1>3, <1>16, <1>17, <1>18 DEF CommandSteps

LEMMA ReadyStep ==
  ASSUME TypeOK, ReadyInv, [Next]_vars
  PROVE  ReadyInv'
<1>3. ASSUME NEW a \in Admins,
             \/ \E r \in Requests : Call(a, r)
             \/ \E ok \in BOOLEAN :
                  Reach(a, ok) \/ Probe(a, ok) \/ ProbeJob(a, ok) \/ RunFail(a, ok)
             \/ Mkdir(a) \/ Read(a) \/ RunOk(a) \/ Interrupt(a)
      PROVE  \A b \in Admins : AtWork(b)' /\ Ended(b)'
  <2>1. AtWork(a)' /\ Ended(a)'
    <3>1. CASE Interrupt(a) \/ \E ok \in BOOLEAN : RunFail(a, ok)
      <4>1. pc'[a] = "idle" /\ rc'[a] \in {1, 130}
        BY <3>1 DEF Interrupt, RunFail, Exit, TypeOK
      <4> QED
        BY <4>1 DEF AtWork, Ended
    <3> QED
      BY <1>3, <3>1, CallReady, QuestionReady, RunOkReady, ReadReady
  <2>2. ASSUME NEW b \in Admins \ {a}
        PROVE  AtWork(b)' /\ Ended(b)'
    <3>1. CASE RunOk(a)
      <4>1. alone'[b] = FALSE
        BY <3>1, Zenon DEF RunOk
      <4> QED
        BY <4>1, OthersReady
    <3>2. CASE ~RunOk(a)
      <4>1. /\ server' = server /\ pc'[b] = pc[b] /\ todo'[b] = todo[b] /\ rc'[b] = rc[b]
            /\ req'[b] = req[b] /\ read'[b] = read[b]
        BY <1>3, <3>2 DEF TypeOK, Call, Reach, Probe, ProbeJob, RunFail, Interrupt, Start,
           Goto, Exit, Mkdir, Read
      <4>2. alone'[b] = alone[b]
        BY <1>3, <3>2 DEF TypeOK, Call, Reach, Probe, ProbeJob, RunFail, Interrupt, Mkdir, Read
      <4> QED
        BY <4>1, <4>2, OthersReady
    <3> QED
      BY <3>1, <3>2
  <2> QED
    BY <2>1, <2>2
<1>4. ASSUME NEW l \in late, LateRead(l) \/ LateRename(l)
      PROVE  \A b \in Admins : AtWork(b)' /\ Ended(b)'
  <2>1. CASE LateRename(l)
    <3>1. \A b \in Admins : alone'[b] = FALSE
      BY <2>1, Zenon DEF LateRename
    <3> QED
      BY <3>1, OthersReady
  <2>2. CASE LateRead(l)
    BY <2>2, OthersReady DEF LateRead, tool
  <2> QED
    BY <1>4, <2>1, <2>2
<1>5. CASE UNCHANGED vars
  BY <1>5, OthersReady DEF ReadyInv, vars, tool
<1> QED
  BY <1>3, <1>4, <1>5 DEF Next, ReadyInv

\* Exit code 0 of a tool that was to execute can be trusted, for any number of
\* datastores and of tools at work beside it, until another command renames.
THEOREM ZeroIsTrusted == Spec => []ZeroMeansConfigured
<1>1. Init => ReadyInv
  <2>1. ASSUME Init
        PROVE  \A a \in Admins : pc[a] = "idle" /\ alone[a] = FALSE
    BY <2>1 DEF Init
  <2> QED
    BY <2>1 DEF ReadyInv, AtWork, Ended
<1>2. TypeOK /\ ReadyInv => ZeroMeansConfigured
  <2> SUFFICES ASSUME TypeOK, ReadyInv, NEW a \in Admins,
                      pc[a] = "idle", rc[a] = 0, req[a].execute, alone[a],
                      NEW s \in Elements(req[a].stores)
               PROVE  Ready(req[a].tool, s)
    BY DEF ZeroMeansConfigured, Ready, HasPath, HasJob, Registered
  <2>1. PICK i \in DOMAIN req[a].stores : s = req[a].stores[i]
    BY DEF Elements
  <2> QED
    BY <2>1 DEF ReadyInv, Ended
<1>3. TypeOK /\ ReadyInv /\ [Next]_vars => ReadyInv'
  BY ReadyStep
<1>4. TypeOK /\ [Next]_vars => TypeOK'
  BY TypeStep
<1> QED
  BY TypeInit, <1>1, <1>2, <1>3, <1>4, PTL DEF Spec
=============================================================================
