-------------------------- MODULE StateFileProofs --------------------------
(***************************************************************************)
(* What holds of a state file for any number of processes, any contents    *)
(* and any jq programs: a valid file stays valid whatever overlaps, and    *)
(* processes that do not overlap implement the atomic store.               *)
(***************************************************************************)
EXTENDS StateFile, WellFoundedInduction, TLAPS

(* A valid file stays valid *)

\* Nobody is about to initialise a valid file, and what jq has read is valid.
ValidInv ==
  /\ file \in Contents
  /\ pc \in [Procs -> Labels]
  /\ \A p \in Procs : pc[p] \notin {"open", "fill"}
  /\ \A p \in Procs : pc[p] = "rename" => buf[p] \in Contents
  /\ buf \in [Procs -> Contents \cup {Empty}]

LEMMA ValidStep == ValidInv /\ [Next]_vars => ValidInv'
<1> SUFFICES ASSUME ValidInv, [Next]_vars PROVE ValidInv'
  OBVIOUS
<1> USE DEF ValidInv, Labels, Ended, Running
<1>1. ASSUME NEW p \in Procs, Begin(p) PROVE ValidInv'
  BY <1>1 DEF Begin, Step, files, history
<1>2. ASSUME NEW p \in Procs, Check(p) PROVE ValidInv'
  BY <1>2 DEF Check, Step, files, history
<1>3. ASSUME NEW p \in Procs, InitOpen(p) \/ InitFill(p) PROVE ValidInv'
  BY <1>3 DEF InitOpen, InitFill, Step
<1>4. ASSUME NEW p \in Procs, Refuse(p) \/ Answer(p) PROVE ValidInv'
  BY <1>4 DEF Refuse, Answer, Step, files, history
<1>5. ASSUME NEW p \in Procs, Read(p) PROVE ValidInv'
  BY <1>5 DEF Read, Step, files
<1>6. ASSUME NEW p \in Procs, Rename(p) PROVE ValidInv'
  BY <1>6, EditAssumption DEF Rename, Step
<1>7. CASE Restart
  BY <1>7, ContentsAssumption DEF Restart
<1>8. CASE UNCHANGED vars
  BY <1>8 DEF vars
<1> QED
  BY <1>1, <1>2, <1>3, <1>4, <1>5, <1>6, <1>7, <1>8 DEF Next

\* A state file that is valid before the first process (the entry points see to
\* that) is never found empty or torn, however its processes overlap and whenever
\* the container restarts.
THEOREM ValidForEver == ASSUME Start \in Contents PROVE Spec => []StaysValid
<1>1. Init => ValidInv
  BY DEF Init, ValidInv, Labels, Ended
<1>2. ValidInv => StaysValid
  BY DEF ValidInv, StaysValid
<1> QED
  BY <1>1, <1>2, ValidStep, PTL DEF Spec

-----------------------------------------------------------------------------
(* What the commands make one after another *)

\* A set of naturals that holds 0 and every successor holds them all.
LEMMA EveryNatural ==
  ASSUME NEW G, 0 \in G, \A n \in Nat : n \in G => n + 1 \in G
  PROVE  Nat \subseteq G
<1> SUFFICES ASSUME Nat \ G # {} PROVE FALSE
  OBVIOUS
<1>1. Nat \ G \subseteq Nat
  OBVIOUS
<1>2. PICK x \in Nat \ G : \A y \in Nat \ G : ~ (<<y, x>> \in OpToRel(<, Nat))
  BY <1>1, NatLessThanWellFounded, WFMin
<1>3. x - 1 \in Nat /\ x - 1 < x /\ (x - 1) + 1 = x
  <2>1. x \in Nat /\ x # 0
    OBVIOUS
  <2> QED
    BY <2>1
<1>4. <<x - 1, x>> \in Nat \X Nat /\ x - 1 < x
  BY <1>3
<1>5. <<x - 1, x>> \in OpToRel(<, Nat)
  BY <1>4 DEF OpToRel
<1>6. x - 1 \in G
  BY <1>2, <1>3, <1>5
<1> QED
  BY <1>2, <1>3, <1>6

\* f goes through the contents after the first commands of ws.
After(ws, f) ==
  f = [n \in 0..Len(ws) |-> IF n = 0 THEN Initial ELSE Edit[ws[n]][f[n - 1]]]

LEMMA AfterSteps ==
  ASSUME NEW ws \in Seq(Procs), NEW f, After(ws, f)
  PROVE  f[0] = Initial /\ \A n \in 1..Len(ws) : f[n] = Edit[ws[n]][f[n - 1]]
<1> DEFINE F(h) == [n \in 0..Len(ws) |-> IF n = 0 THEN Initial ELSE Edit[ws[n]][h[n - 1]]]
<1>1. Len(ws) \in Nat
  OBVIOUS
<1>2. F(f)[0] = Initial /\ \A n \in 1..Len(ws) : F(f)[n] = Edit[ws[n]][f[n - 1]]
  BY <1>1
<1>3. f = F(f)
  BY DEF After
<1> HIDE DEF F
<1> QED
  BY <1>2, <1>3

LEMMA AfterExists ==
  ASSUME NEW ws \in Seq(Procs), NEW p \in Procs,
         NEW f, After(ws, f)
  PROVE  \E g : /\ After(Append(ws, p), g)
                /\ g[Len(ws) + 1] = Edit[p][f[Len(ws)]]
<1> DEFINE m == Len(ws)
           g == [n \in 0..m + 1 |-> IF n = m + 1 THEN Edit[p][f[m]] ELSE f[n]]
<1>1. m \in Nat /\ Len(Append(ws, p)) = m + 1
      /\ Append(ws, p)[m + 1] = p /\ \A n \in 1..m : Append(ws, p)[n] = ws[n]
  OBVIOUS
<1>2. f[0] = Initial /\ \A n \in 1..m : f[n] = Edit[ws[n]][f[n - 1]]
  BY AfterSteps
<1>3. g[0] = Initial
  BY <1>1, <1>2
<1>4. ASSUME NEW n \in 1..m PROVE g[n] = Edit[ws[n]][g[n - 1]]
  BY <1>1, <1>2
<1>5. g[m + 1] = Edit[p][g[m]]
  BY <1>1
<1>6. \A n \in 0..m + 1 : g[n] = IF n = 0 THEN Initial ELSE Edit[Append(ws, p)[n]][g[n - 1]]
  <2> SUFFICES ASSUME NEW n \in 0..m + 1
               PROVE  g[n] = IF n = 0 THEN Initial ELSE Edit[Append(ws, p)[n]][g[n - 1]]
    OBVIOUS
  <2>1. CASE n = 0
    BY <2>1, <1>3
  <2>2. CASE n \in 1..m
    <3>1. n # 0 /\ Append(ws, p)[n] = ws[n]
      BY <2>2, <1>1
    <3>2. g[n] = Edit[ws[n]][g[n - 1]]
      BY <2>2, <1>4
    <3> HIDE DEF g
    <3> QED
      BY <3>1, <3>2
  <2>3. CASE n = m + 1
    BY <2>3, <1>1, <1>5
  <2> QED
    BY <1>1, <2>1, <2>2, <2>3
<1>7. g = [n \in 0..m + 1 |-> IF n = 0 THEN Initial ELSE Edit[Append(ws, p)[n]][g[n - 1]]]
  BY <1>6
<1>8. After(Append(ws, p), g)
  BY <1>1, <1>7 DEF After
<1> QED
  BY <1>1, <1>8

\* There is one such f for every sequence of commands,
LEMMA AfterTotal == \A ws \in Seq(Procs) : \E f : After(ws, f)
<1> DEFINE G == {n \in Nat : \A ws \in Seq(Procs) : Len(ws) = n => \E f : After(ws, f)}
<1>1. 0 \in G
  <2> SUFFICES ASSUME NEW ws \in Seq(Procs), Len(ws) = 0 PROVE \E f : After(ws, f)
    OBVIOUS
  <2> DEFINE f == [n \in 0..0 |-> Initial]
  <2>1. f = [n \in 0..0 |-> IF n = 0 THEN Initial ELSE Edit[ws[n]][f[n - 1]]]
    OBVIOUS
  <2>2. After(ws, f)
    BY <2>1 DEF After
  <2> QED
    BY <2>2
<1>2. ASSUME NEW n \in Nat, n \in G PROVE n + 1 \in G
  <2> SUFFICES ASSUME NEW ws \in Seq(Procs), Len(ws) = n + 1 PROVE \E f : After(ws, f)
    OBVIOUS
  <2> DEFINE vs == SubSeq(ws, 1, n)
  <2>1. vs \in Seq(Procs) /\ Len(vs) = n /\ ws[n + 1] \in Procs
    OBVIOUS
  <2>2. ws = Append(vs, ws[n + 1])
    OBVIOUS
  <2>3. PICK f : After(vs, f)
    BY <1>2, <2>1
  <2> QED
    BY <2>1, <2>2, <2>3, AfterExists
<1>3. Nat \subseteq G
  <2> HIDE DEF G
  <2> QED
    BY <1>1, <1>2, EveryNatural
<1> QED
  BY <1>3

\* and only one.
LEMMA AfterUnique ==
  ASSUME NEW ws \in Seq(Procs), NEW f, NEW g, After(ws, f), After(ws, g)
  PROVE  f = g
<1> DEFINE m == Len(ws)
           G == {n \in Nat : n \in 0..m => f[n] = g[n]}
<1>1. /\ m \in Nat /\ f[0] = Initial /\ g[0] = Initial
      /\ \A n \in 1..m : f[n] = Edit[ws[n]][f[n - 1]] /\ g[n] = Edit[ws[n]][g[n - 1]]
  BY AfterSteps
<1>2. 0 \in G
  BY <1>1
<1>3. ASSUME NEW n \in Nat, n \in G PROVE n + 1 \in G
  <2> SUFFICES ASSUME n + 1 \in 0..m PROVE f[n + 1] = g[n + 1]
    OBVIOUS
  <2>1. f[n] = g[n] /\ n + 1 \in 1..m /\ (n + 1) - 1 = n
    BY <1>1, <1>3
  <2> QED
    BY <1>1, <2>1
<1>4. Nat \subseteq G
  <2> HIDE DEF G
  <2> QED
    BY <1>2, <1>3, EveryNatural
<1>5. \A n \in 0..m : f[n] = g[n]
  BY <1>1, <1>4
<1> DEFINE F(h) == [n \in 0..m |-> IF n = 0 THEN Initial ELSE Edit[ws[n]][h[n - 1]]]
<1>6. f = F(f) /\ g = F(g)
  BY DEF After
<1>7. F(f) = F(g)
  BY <1>1, <1>5
<1> QED
  BY <1>6, <1>7

\* Serial is what one of its f ends with.
LEMMA SerialIs ==
  ASSUME NEW ws \in Seq(Procs), NEW f, After(ws, f)
  PROVE  Serial(ws) = f[Len(ws)]
<1> DEFINE c == CHOOSE h : h = [n \in 0..Len(ws) |->
                     IF n = 0 THEN Initial ELSE Edit[ws[n]][h[n - 1]]]
<1>1. After(ws, c)
  BY DEF After
<1>2. c = f
  <2> HIDE DEF c
  <2> QED
    BY <1>1, AfterUnique
<1>3. Serial(ws) = c[Len(ws)]
  BY DEF Serial
<1> QED
  BY <1>2, <1>3

LEMMA SerialEmpty == Serial(<<>>) = Initial
<1>1. <<>> \in Seq(Procs) /\ Len(<<>>) = 0
  OBVIOUS
<1>2. PICK f : After(<<>>, f)
  BY <1>1, AfterTotal
<1>3. f[0] = Initial
  BY <1>1, <1>2, AfterSteps
<1> QED
  BY <1>1, <1>2, <1>3, SerialIs

\* One command more is its jq program on what the others made.
LEMMA SerialAppend ==
  ASSUME NEW ws \in Seq(Procs), NEW p \in Procs
  PROVE  Serial(Append(ws, p)) = Edit[p][Serial(ws)]
<1>1. PICK f : After(ws, f)
  BY AfterTotal
<1>2. PICK g : After(Append(ws, p), g) /\ g[Len(ws) + 1] = Edit[p][f[Len(ws)]]
  BY <1>1, AfterExists
<1>3. Append(ws, p) \in Seq(Procs) /\ Len(Append(ws, p)) = Len(ws) + 1
  OBVIOUS
<1>4. Serial(Append(ws, p)) = g[Len(ws) + 1]
  BY <1>2, <1>3, SerialIs
<1> QED
  BY <1>1, <1>2, <1>4, SerialIs

(* The commands lose nothing unless one reads before another renames *)

\* The strengthening: a process that is about to rename over what is still the
\* latest version holds that version, and a process that renamed reads no more.
SerialInv ==
  /\ ValidInv
  /\ wrote \in Seq(Procs)
  /\ seen \in [Procs -> Nat]
  /\ \A i \in DOMAIN wrote : pc[wrote[i]] \in {"answer", "done", "killed"}
  /\ \A p \in Procs : pc[p] = "rename" => /\ seen[p] <= Len(wrote)
                                          /\ seen[p] = Len(wrote) => buf[p] = file
  /\ SerialWithoutRivals

LEMMA SerialStep == SerialInv /\ [Next]_vars => SerialInv'
<1> SUFFICES ASSUME SerialInv, [Next]_vars PROVE SerialInv'
  OBVIOUS
<1> USE DEF Labels, Ended, Running
<1>0. ValidInv'
  BY ValidStep DEF SerialInv
<1>a. wrote \in Seq(Procs) /\ Len(wrote) \in Nat /\ DOMAIN wrote = 1..Len(wrote)
  BY DEF SerialInv
<1>1. ASSUME NEW p \in Procs, Begin(p) \/ Check(p) \/ Refuse(p) \/ Answer(p)
      PROVE  SerialInv'
  <2>1. UNCHANGED <<file, buf, wrote, seen>>
    BY <1>1 DEF Begin, Check, Refuse, Answer, files, history
  <2>2. Serial(wrote)' = Serial(wrote)
    BY <2>1 DEF Serial
  <2>3. SerialWithoutRivals'
    BY <2>1, <2>2 DEF SerialInv, SerialWithoutRivals
  <2>4. \A q \in Procs : /\ pc'[q] = "rename" => pc[q] = "rename"
                         /\ pc[q] \in {"answer", "done", "killed"}
                              => pc'[q] \in {"answer", "done", "killed"}
    BY <1>1 DEF SerialInv, ValidInv, Begin, Check, Refuse, Answer, Step
  <2>5. \A i \in DOMAIN wrote : wrote[i] \in Procs
    BY <1>a
  <2> QED
    BY <1>0, <2>1, <2>3, <2>4, <2>5 DEF SerialInv
<1>2. ASSUME NEW p \in Procs, InitOpen(p) \/ InitFill(p) PROVE FALSE
  BY <1>2 DEF SerialInv, ValidInv, InitOpen, InitFill, Step
<1>3. ASSUME NEW p \in Procs, Read(p) PROVE SerialInv'
  <2>1. \A i \in DOMAIN wrote : wrote[i] # p
    BY <1>3 DEF SerialInv, ValidInv, Read, Step
  <2> QED
    BY <1>0, <1>a, <1>3, <2>1
       DEF SerialInv, ValidInv, SerialWithoutRivals, Read, Step, files
<1>4. ASSUME NEW p \in Procs, Rename(p) PROVE SerialInv'
  <2>1. /\ wrote' = Append(wrote, p) /\ seen' = seen /\ buf' = buf
        /\ pc[p] = "rename" /\ pc' = [pc EXCEPT ![p] = "answer"]
        /\ file' = Edit[p][buf[p]]
    BY <1>4 DEF Rename, Step, SerialInv, ValidInv
  <2>2. /\ wrote' \in Seq(Procs) /\ Len(wrote') = Len(wrote) + 1
        /\ wrote'[Len(wrote) + 1] = p /\ \A i \in DOMAIN wrote : wrote'[i] = wrote[i]
        /\ DOMAIN wrote' = 1..Len(wrote) + 1
    BY <1>a, <2>1
  <2>3. \A i \in DOMAIN wrote' : pc'[wrote'[i]] \in {"answer", "done", "killed"}
    BY <1>a, <2>1, <2>2 DEF SerialInv, ValidInv
  <2>4. \A q \in Procs : pc'[q] = "rename" => seen'[q] < Len(wrote')
    BY <1>a, <2>1, <2>2 DEF SerialInv, ValidInv
  <2>5. SerialWithoutRivals'
    <3> SUFFICES ASSUME \A i \in DOMAIN wrote' : seen'[wrote'[i]] = i - 1
                 PROVE  file' = Serial(wrote)'
      BY DEF SerialWithoutRivals
    <3>1. seen[p] = Len(wrote)
      BY <1>a, <2>1, <2>2
    <3>2. \A i \in DOMAIN wrote : seen[wrote[i]] = i - 1
      BY <1>a, <2>1, <2>2
    <3>3. file = Serial(wrote)
      BY <3>2 DEF SerialInv, SerialWithoutRivals
    <3>4. file' = Edit[p][Serial(wrote)]
      BY <2>1, <3>1, <3>3 DEF SerialInv
    <3>5. Serial(Append(wrote, p)) = Edit[p][Serial(wrote)]
      BY <1>a, SerialAppend
    <3>6. Serial(wrote)' = Serial(Append(wrote, p))
      BY <2>1 DEF Serial
    <3> QED
      BY <3>4, <3>5, <3>6
  <2>6. seen' \in [Procs -> Nat]
    BY <2>1 DEF SerialInv
  <2> QED
    BY <1>0, <1>a, <2>2, <2>3, <2>4, <2>5, <2>6 DEF SerialInv
<1>5. CASE Restart
  <2>1. \A p \in Procs : pc'[p] # "rename"
    BY <1>5 DEF Restart
  <2>2. \A p \in Procs : pc[p] \in {"answer", "done", "killed"}
                         => pc'[p] \in {"answer", "done", "killed"}
    BY <1>5 DEF Restart, SerialInv, ValidInv
  <2>3. CASE Entrypoint = "reset"
    <3>1. wrote' = <<>> /\ file' = Initial /\ seen' = seen
      BY <1>5, <2>3 DEF Restart
    <3>2. Serial(wrote)' = Serial(<<>>)
      BY <3>1 DEF Serial
    <3> QED
      BY <1>0, <2>1, <3>1, <3>2, SerialEmpty DEF SerialInv, SerialWithoutRivals
  <2>4. CASE Entrypoint # "reset"
    <3>1. wrote' = wrote /\ file' = file /\ seen' = seen
      BY <1>5, <2>4 DEF Restart, SerialInv, ValidInv
    <3>2. Serial(wrote)' = Serial(wrote)
      BY <3>1 DEF Serial
    <3> QED
      BY <1>0, <2>1, <2>2, <3>1, <3>2 DEF SerialInv, SerialWithoutRivals
  <2> QED
    BY <2>3, <2>4
<1>6. CASE UNCHANGED vars
  BY <1>0, <1>6 DEF vars, SerialInv, SerialWithoutRivals, Serial
<1> QED
  BY <1>1, <1>2, <1>3, <1>4, <1>5, <1>6 DEF Next

\* Whatever overlaps and whenever the container restarts: as long as no command
\* read before another's rename and renamed after it, the file is what the
\* commands make one by one, in the order of their renames.
THEOREM LostOnlyToRivals == ASSUME Start \in Contents PROVE Spec => []SerialWithoutRivals
<1>1. Init => SerialInv
  <2> SUFFICES ASSUME Init PROVE SerialInv
    OBVIOUS
  <2>1. ValidInv
    BY DEF Init, ValidInv, Labels, Ended
  <2>2. file = Serial(wrote)
    BY SerialEmpty, ContentsAssumption DEF Init
  <2> QED
    BY <2>1, <2>2 DEF Init, SerialInv, SerialWithoutRivals
<1>2. SerialInv => SerialWithoutRivals
  BY DEF SerialInv
<1> QED
  BY <1>1, <1>2, SerialStep, PTL DEF Spec

-----------------------------------------------------------------------------
(* Processes that do not overlap *)

LEMMA AloneInit == Init => AloneInv
BY ContentsAssumption DEF Init, AloneInv, Labels, Ended, Running

LEMMA AloneStep == ASSUME Alone PROVE AloneInv /\ [Next]_vars => AloneInv'
<1> SUFFICES ASSUME AloneInv, [Next]_vars PROVE AloneInv'
  OBVIOUS
<1> USE DEF AloneInv, Labels, Ended, Running
<1>1. ASSUME NEW p \in Procs, Begin(p) PROVE AloneInv'
  BY <1>1 DEF Begin, Step, files, history
<1>2. ASSUME NEW p \in Procs, Check(p) PROVE AloneInv'
  BY <1>2 DEF Check, Step, files, history
<1>3. ASSUME NEW p \in Procs, InitOpen(p) PROVE AloneInv'
  BY <1>3, ContentsAssumption DEF InitOpen, Step
<1>4. ASSUME NEW p \in Procs, InitFill(p) PROVE AloneInv'
  BY <1>4, ContentsAssumption DEF InitFill, Step
<1>5. ASSUME NEW p \in Procs, Refuse(p) \/ Answer(p) PROVE AloneInv'
  BY <1>5 DEF Refuse, Answer, Step, files, history
<1>6. ASSUME NEW p \in Procs, Read(p) PROVE AloneInv'
  BY <1>6 DEF Read, Step, files
<1>7. ASSUME NEW p \in Procs, Rename(p) PROVE AloneInv'
  <2>1. file' \in Contents
    BY <1>7, EditAssumption DEF Rename, Step
  <2>2. pc[p] = "rename" /\ pc' = [pc EXCEPT ![p] = "answer"] /\ UNCHANGED buf
    BY <1>7 DEF Rename, Step
  <2>3. \A q \in Procs \ {p} : pc[q] \in Ended /\ pc'[q] = pc[q]
    BY <2>2
  <2> QED
    BY <2>1, <2>2, <2>3
<1>8. CASE Restart
  BY <1>8, ContentsAssumption DEF Restart
<1>9. CASE UNCHANGED vars
  BY <1>9 DEF vars, files, history
<1> QED
  BY <1>1, <1>2, <1>3, <1>4, <1>5, <1>6, <1>7, <1>8, <1>9 DEF Next

\* Processes that do not overlap initialise only a file that is not valid, and
\* rename over the very content they read.
THEOREM AloneInvariant == ASSUME Alone PROVE Spec => []AloneInv
BY AloneInit, AloneStep, PTL DEF Spec

(* They implement the atomic store *)

LEMMA InitRefines == Init => Atomic!Init
BY ContentsAssumption DEF Init, Atomic!Init, Held, Phase, Ended

\* A step of a process before it renames, and its wait for the answer, change
\* nothing that the atomic store shows.
LEMMA Stutters ==
  ASSUME AloneInv, NEW p \in Procs,
         Begin(p) \/ Check(p) \/ InitOpen(p) \/ InitFill(p) \/ (Read(p) /\ p \in Writers)
  PROVE  UNCHANGED <<Held, Phase>>
<1> USE DEF AloneInv, Labels, Ended
<1>1. UNCHANGED Held
  BY ContentsAssumption DEF Held, Begin, Check, InitOpen, InitFill, Read, Step, files
<1>2. \A from, to \in {"new", "check", "open", "fill", "read", "rename"} :
        Step(p, from, to) => UNCHANGED Phase
  BY DEF Step, Phase
<1>3. UNCHANGED Phase
  BY <1>2 DEF Begin, Check, InitOpen, InitFill, Read
<1> QED
  BY <1>1, <1>3

LEMMA ReadRefines ==
  ASSUME AloneInv, NEW p \in Procs, Read(p), p \notin Writers PROVE Atomic!Apply(p)
<1> USE DEF AloneInv, Labels, Ended
<1>1. Held' = Held
  BY DEF Held, Read, files
<1>2. Phase[p] = "new" /\ Phase' = [Phase EXCEPT ![p] = "applied"]
  BY DEF Phase, Read, Step
<1> QED
  BY <1>1, <1>2 DEF Atomic!Apply

LEMMA RenameRefines ==
  ASSUME AloneInv, NEW p \in Procs, Rename(p) PROVE Atomic!Apply(p)
<1> USE DEF AloneInv, Labels, Ended
<1>1. p \in Writers /\ Held' = Edit[p][Held]
  BY EditAssumption DEF Held, Rename, Step
<1>2. Phase[p] = "new" /\ Phase' = [Phase EXCEPT ![p] = "applied"]
  BY DEF Phase, Rename, Step
<1> QED
  BY <1>1, <1>2 DEF Atomic!Apply

LEMMA EndRefines ==
  ASSUME AloneInv, NEW p \in Procs, Refuse(p) \/ Answer(p)
  PROVE  Atomic!Refuse(p) \/ Atomic!Answer(p)
<1> USE DEF AloneInv, Labels, Ended
<1>1. Held' = Held
  BY DEF Held, Refuse, Answer, files
<1>2. CASE Refuse(p)
  <2>1. Phase[p] = "new" /\ Phase' = [Phase EXCEPT ![p] = "failed"]
    BY <1>2 DEF Phase, Refuse, Step
  <2> QED
    BY <1>1, <2>1 DEF Atomic!Refuse
<1>3. CASE Answer(p)
  <2>1. Phase[p] = "applied" /\ Phase' = [Phase EXCEPT ![p] = "done"]
    BY <1>3 DEF Phase, Answer, Step
  <2> QED
    BY <1>1, <2>1 DEF Atomic!Answer
<1> QED
  BY <1>2, <1>3

LEMMA RestartRefines == ASSUME AloneInv, Restart PROVE Atomic!Crash(Running)
<1> USE DEF AloneInv, Labels, Ended, Running
<1>1. Held' = IF Entrypoint = "reset" THEN Initial ELSE Held
  BY ContentsAssumption DEF Held, Restart
<1>2. \A p \in Running : Phase[p] \in {"new", "applied"}
  BY DEF Phase
<1>3. Phase' = [p \in Procs |-> IF p \in Running THEN "killed" ELSE Phase[p]]
  BY DEF Phase, Restart
<1> QED
  BY <1>1, <1>2, <1>3 DEF Atomic!Crash

LEMMA StepRefines ==
  AloneInv /\ [Next]_vars => [Atomic!Next]_<<Held, Phase>>
<1> SUFFICES ASSUME AloneInv, [Next]_vars PROVE Atomic!Next \/ UNCHANGED <<Held, Phase>>
  OBVIOUS
<1>1. ASSUME NEW p \in Procs,
             Begin(p) \/ Check(p) \/ InitOpen(p) \/ InitFill(p) \/ (Read(p) /\ p \in Writers)
      PROVE  UNCHANGED <<Held, Phase>>
  BY <1>1, Stutters
<1>2. ASSUME NEW p \in Procs, Read(p), p \notin Writers PROVE Atomic!Next
  BY <1>2, ReadRefines DEF Atomic!Next
<1>3. ASSUME NEW p \in Procs, Rename(p) PROVE Atomic!Next
  BY <1>3, RenameRefines DEF Atomic!Next
<1>4. ASSUME NEW p \in Procs, Refuse(p) \/ Answer(p) PROVE Atomic!Next
  BY <1>4, EndRefines DEF Atomic!Next
<1>5. CASE Restart
  <2>1. Running \in SUBSET Procs
    BY DEF Running
  <2> QED
    BY <1>5, <2>1, RestartRefines DEF Atomic!Next
<1>6. CASE UNCHANGED vars
  BY <1>6 DEF vars, Held, Phase
<1> QED
  BY <1>1, <1>2, <1>3, <1>4, <1>5, <1>6 DEF Next

\* Processes that do not overlap implement the atomic store, for any number of
\* them, any jq programs, any entry point and any number of restarts.
THEOREM ImplementsAtomicStore == ASSUME Alone PROVE Spec => ActsAtomically
BY InitRefines, StepRefines, AloneInvariant, PTL DEF Spec, ActsAtomically, Atomic!Spec
=============================================================================
