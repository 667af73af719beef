------------------------------ MODULE PbsInit ------------------------------
(***************************************************************************)
(* Administrators who set up the datastores of the PBS servers, with       *)
(* `labctl pbs-init` or with pbs-init.sh, in processes of their own.       *)
(*                                                                         *)
(* labctl runs, for every datastore of lab.yaml, mkdir, `datastore create` *)
(* and `prune-job create`, and stops at the first failure.  pbs-init.sh is *)
(* about one datastore: it asks which datastores there are, creates its    *)
(* own when it does not see it, asks which prune jobs there are, and       *)
(* updates or creates one.  Between a question and what is made of the     *)
(* answer others may act.  A command reads state.json with jq and later    *)
(* puts its edit of what it read in the place of the file, whatever that   *)
(* holds by then.  A command whose ssh is given up on may still run on the *)
(* server later, or be half way.                                           *)
(***************************************************************************)
EXTENDS BackupManager, Lists

CONSTANTS
  None,
  Servers,       \* PBS servers
  Names,         \* of datastores
  Paths,
  Policies,      \* what a prune job keeps and when it runs
  Admins,
  Requests,      \* the command lines, with the lab.yaml they are used with
  MaxCalls       \* bound: how many of them are used

VARIABLES
  req,           \* admin -> the request being served, None before the first
  pc,            \* admin -> "idle" or the step the tool is at
  todo,          \* admin -> datastores to be set up, the present one first
  read,          \* admin -> the file as its present command read it, or None
  rc,            \* admin -> exit code of the last tool
  calls,
  server,        \* PBS server -> its state.json
  late,          \* commands given up on that a server may still run, with what they read
  alone,         \* history: admin -> no other command renamed since the tool began
  dropped        \* history: PBS server -> datastores that a rename took out of the file
                 \* and none has put back

tool == <<req, pc, todo, read, rc>>
vars == <<tool, calls, server, late, alone, dropped>>

\* A datastore of a server, as lab.yaml or the command line describes it.
Datastores == [pbs : Servers, name : Names, path : Paths, policy : Policies]

ASSUME RequestsAssumption ==
  /\ None \notin Requests /\ None \notin Policies
  /\ \A r \in Requests :
       /\ r.tool \in {"labctl", "script"} /\ r.execute \in BOOLEAN
       /\ r.servers \subseteq Servers /\ r.stores \in Seq(Datastores)
       /\ r.tool = "script" => Len(r.stores) = 1
       /\ \A i, j \in DOMAIN r.stores :
            r.stores[i].pbs = r.stores[j].pbs /\ r.stores[i].name = r.stores[j].name => i = j

ASSUME CallsAssumption == MaxCalls \in Nat

\* Steps that ask a server, and steps that run a command that edits its state.json.
Questions == {"reach", "probe", "probe_job"}
CommandSteps == {"create", "job", "update", "new"}

Init ==
  /\ req = [a \in Admins |-> None]
  /\ pc = [a \in Admins |-> "idle"]
  /\ todo = [a \in Admins |-> <<>>]
  /\ read = [a \in Admins |-> None]
  /\ rc = [a \in Admins |-> None]
  /\ calls = 0
  /\ server = [p \in Servers |-> NewServer]
  /\ late = {}
  /\ alone = [a \in Admins |-> FALSE]
  /\ dropped = [p \in Servers |-> {}]

-----------------------------------------------------------------------------
(* A command on its server *)

\* The command of the present step.  Only a job that pbs-init.sh makes afresh is
\* given a --store.
CommandOf(a) ==
  LET s == Head(todo[a])
  IN  [step |-> pc[a], pbs |-> s.pbs, name |-> s.name, path |-> s.path,
       policy |-> s.policy, store |-> IF pc[a] = "new" THEN s.name ELSE None]

\* What a command makes of the file it has read.
Edit(c, file) ==
  IF c.step = "create" THEN DatastoreCreate(file, c.name, c.path)
  ELSE PruneJobPut(file, c.name, c.store, c.policy)

\* `mv`: what others have renamed since the file was read is lost.
Rename(c, file) ==
  /\ server' = [server EXCEPT ![c.pbs] = Edit(c, file)]
  /\ dropped' = [dropped EXCEPT ![c.pbs] =
                   (@ \cup DOMAIN server[c.pbs].datastores) \ DOMAIN server'[c.pbs].datastores]

\* A command that is given up on goes on by itself, from where it is.
GivenUp(a) == [command |-> CommandOf(a), read |-> read[a]]

-----------------------------------------------------------------------------
(* A tool *)

Goto(a, step) ==
  /\ pc' = [pc EXCEPT ![a] = step]
  /\ read' = [read EXCEPT ![a] = None]
  /\ UNCHANGED <<todo, rc>>

Exit(a, code) ==
  /\ pc' = [pc EXCEPT ![a] = "idle"]
  /\ rc' = [rc EXCEPT ![a] = code]
  /\ todo' = [todo EXCEPT ![a] = <<>>]
  /\ read' = [read EXCEPT ![a] = None]

Start(a, step, stores) ==
  /\ pc' = [pc EXCEPT ![a] = step]
  /\ todo' = [todo EXCEPT ![a] = stores]
  /\ read' = [read EXCEPT ![a] = None]
  /\ UNCHANGED rc

\* A lab.yaml without PBS servers is refused; one whose servers have no datastores
\* leaves nothing to do, and a dry run of labctl only prints.
Call(a, r) ==
  /\ pc[a] = "idle" /\ calls < MaxCalls
  /\ calls' = calls + 1
  /\ req' = [req EXCEPT ![a] = r]
  /\ alone' = [alone EXCEPT ![a] = TRUE]
  /\ IF r.tool = "script" THEN Start(a, "reach", r.stores)
     ELSE IF r.servers = {} THEN Exit(a, 1)
     ELSE IF r.stores = <<>> \/ ~r.execute THEN Exit(a, 0)
     ELSE Start(a, "mkdir", r.stores)
  /\ UNCHANGED <<server, late, dropped>>

\* `ssh true`
Reach(a, ok) ==
  /\ pc[a] = "reach"
  /\ IF ok THEN Goto(a, "probe") ELSE Exit(a, 2)
  /\ UNCHANGED <<req, calls, server, late, alone, dropped>>

\* The answer is what the server has, or nothing: a list that does not arrive is
\* taken for one without the name.
Probe(a, heard) ==
  LET s == Head(todo[a])
  IN  /\ pc[a] = "probe"
      /\ IF (heard /\ s.name \in DOMAIN server[s.pbs].datastores) \/ ~req[a].execute
         THEN Goto(a, "probe_job")
         ELSE Goto(a, "create")
      /\ UNCHANGED <<req, calls, server, late, alone, dropped>>

\* Mutant: a prune job that is there is left alone.
ProbeJobLeaves(a, heard) ==
  LET s == Head(todo[a])
  IN  /\ pc[a] = "probe_job"
      /\ IF ~req[a].execute \/ (heard /\ s.name \in DOMAIN server[s.pbs].jobs) THEN Exit(a, 0)
         ELSE Goto(a, "new")
      /\ UNCHANGED <<req, calls, server, late, alone, dropped>>

\* A dry run ends with what it has seen.
ProbeJob(a, heard) ==
  LET s == Head(todo[a])
  IN  /\ pc[a] = "probe_job"
      /\ IF ~req[a].execute THEN Exit(a, 0)
         ELSE IF heard /\ s.name \in DOMAIN server[s.pbs].jobs THEN Goto(a, "update")
         ELSE Goto(a, "new")
      /\ UNCHANGED <<req, calls, server, late, alone, dropped>>

\* The directory of a datastore, which is not part of the state.
Mkdir(a) ==
  /\ pc[a] = "mkdir"
  /\ Goto(a, "create")
  /\ UNCHANGED <<req, calls, server, late, alone, dropped>>

\* jq reads the file.
Read(a) ==
  /\ pc[a] \in CommandSteps /\ read[a] = None
  /\ read' = [read EXCEPT ![a] = server[Head(todo[a]).pbs]]
  /\ UNCHANGED <<req, pc, todo, rc, calls, server, late, alone, dropped>>

\* Where a tool is after a command that succeeded.
Advance(a) ==
  CASE pc[a] = "create" /\ req[a].tool = "labctl" -> Goto(a, "job")
    [] pc[a] = "create" /\ req[a].tool = "script" -> Goto(a, "probe_job")
    [] pc[a] = "job" /\ Len(todo[a]) > 1 -> Start(a, "mkdir", Tail(todo[a]))
    [] OTHER -> Exit(a, 0)

RunOk(a) ==
  /\ pc[a] \in CommandSteps /\ read[a] # None
  /\ Rename(CommandOf(a), read[a])
  /\ Advance(a)
  /\ alone' = [b \in Admins |-> b = a /\ alone[a]]
  /\ UNCHANGED <<req, calls, late>>

\* Mutant: the tool goes on after a command that failed.
RunFailGoesOn(a, goes_on) ==
  /\ pc[a] \in CommandSteps
  /\ late' = IF goes_on THEN late \cup {GivenUp(a)} ELSE late
  /\ Advance(a)
  /\ UNCHANGED <<req, calls, server, alone, dropped>>

\* The command did nothing, or its ssh ended first (a timeout of labctl, a lost
\* connection) and the server may still carry it out.  Any code but 0 is a 1 here.
RunFail(a, goes_on) ==
  /\ pc[a] \in CommandSteps \/ (pc[a] = "mkdir" /\ ~goes_on)
  /\ late' = IF goes_on THEN late \cup {GivenUp(a)} ELSE late
  /\ Exit(a, 1)
  /\ UNCHANGED <<req, calls, server, alone, dropped>>

Interrupt(a) ==
  /\ pc[a] # "idle"
  /\ \/ UNCHANGED late
     \/ pc[a] \in CommandSteps /\ late' = late \cup {GivenUp(a)}
  /\ Exit(a, 130)
  /\ UNCHANGED <<req, calls, server, alone, dropped>>

LateRead(l) ==
  /\ l.read = None
  /\ late' = (late \ {l}) \cup {[l EXCEPT !.read = server[l.command.pbs]]}
  /\ UNCHANGED <<tool, calls, server, alone, dropped>>

LateRename(l) ==
  /\ l.read # None
  /\ late' = late \ {l}
  /\ Rename(l.command, l.read)
  /\ alone' = [b \in Admins |-> FALSE]
  /\ UNCHANGED <<tool, calls>>

Next ==
  \/ \E a \in Admins :
       \/ \E r \in Requests : Call(a, r)
       \/ \E ok \in BOOLEAN :
            Reach(a, ok) \/ Probe(a, ok) \/ ProbeJob(a, ok) \/ RunFail(a, ok)
       \/ Mkdir(a) \/ Read(a) \/ RunOk(a)
       \/ Interrupt(a)
  \/ \E l \in late : LateRead(l) \/ LateRename(l)

Spec == Init /\ [][Next]_vars

-----------------------------------------------------------------------------
(* Properties *)

Jobs == [store : Names \cup {None}, policy : Policies]

Partial(S, T) == UNION {[D -> T] : D \in SUBSET S}

ServerStates == [datastores : Partial(Names, Paths), jobs : Partial(Names, Jobs)]

CommandRecords ==
  [step : CommandSteps, pbs : Servers, name : Names, path : Paths,
   policy : Policies, store : Names \cup {None}]

LateCommands == [command : CommandRecords, read : ServerStates \cup {None}]

\* Every variable stays within its type; a tool at work has a datastore to set up,
\* and only a command has read the file.
TypeOK ==
  /\ req \in [Admins -> Requests \cup {None}]
  /\ pc \in [Admins -> {"idle", "mkdir"} \cup Questions \cup CommandSteps]
  /\ todo \in [Admins -> Seq(Datastores)]
  /\ read \in [Admins -> ServerStates \cup {None}]
  /\ rc \in [Admins -> {None, 0, 1, 2, 130}]
  /\ calls \in Nat
  /\ server \in [Servers -> ServerStates]
  /\ late \subseteq LateCommands
  /\ alone \in [Admins -> BOOLEAN]
  /\ dropped \in [Servers -> SUBSET Names]
  /\ \A a \in Admins : pc[a] # "idle" => req[a] \in Requests /\ todo[a] # <<>>
  /\ \A a \in Admins : read[a] # None => pc[a] \in CommandSteps

\* A prune job exists without its datastore only after the datastore was in the file
\* and the rename of a command that had read the file before took it out again:
\* whatever two tools do at the same time, whatever fails and however late a command
\* that was given up on reads or renames, no tool makes the job of a datastore that it
\* did not see made.
JobHasDatastore ==
  \A p \in Servers : DOMAIN server[p].jobs \subseteq DOMAIN server[p].datastores \cup dropped[p]

\* Exit code 0 of a tool that was to execute means that its datastores exist and
\* their prune jobs have the policy asked for, until another command renames.  Only
\* labctl also sees to the path.
ZeroMeansConfigured ==
  \A a \in Admins :
    pc[a] = "idle" /\ rc[a] = 0 /\ req[a].execute /\ alone[a] =>
      \A s \in Elements(req[a].stores) :
        /\ s.name \in DOMAIN server[s.pbs].datastores
        /\ req[a].tool = "labctl" => server[s.pbs].datastores[s.name] = s.path
        /\ s.name \in DOMAIN server[s.pbs].jobs
        /\ server[s.pbs].jobs[s.name].policy = s.policy
=============================================================================
