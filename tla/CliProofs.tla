------------------------------- MODULE CliProofs -------------------------------
(***************************************************************************)
(* The license gate holds and the exit codes are true for any number of    *)
(* processes, any commands and documents, and files, clocks and logs that  *)
(* change at any time.                                                     *)
(***************************************************************************)
EXTENDS Cli, TLAPS

-----------------------------------------------------------------------------
(* Types. *)

Labels == {"idle", "gate", "home", "project", "read", "parse", "verify", "input",
           "tail", "append", "load", "done"}
Sources == {None, "inline", "custom", "home", "project"}
Results == LicenseCodes \union
  {"running", "ok", "community", "licensed", "INVALID_EVENT_FORMAT",
   "SEQUENCE_COLLISION", "NAMESPACE_BREACH", "TICK_REGRESSION"}
LogEntry == [by: Procs \union {Nobody}, ns: Namespaces, tick: Nat]

WorldType ==
  /\ clock \in Nat
  /\ files \in [Places -> Contents]
  /\ log \in Seq(LogEntry)

GivenType ==
  /\ cmd \in [Procs -> Commands \union {IdleCommand}]
  /\ inline \in [Procs -> Contents]
  /\ custom \in [Procs -> BOOLEAN]
  /\ began \in [Procs -> Nat]
  /\ steady \in [Procs -> SUBSET {"home", "project"}]

ProcessType ==
  /\ pc \in [Procs -> Labels]
  /\ source \in [Procs -> Sources]
  /\ text \in [Procs -> Contents]
  /\ base \in [Procs -> Nat]
  /\ code \in [Procs -> Results]

TypeOK == WorldType /\ GivenType /\ ProcessType

\* A process at a label has a command that goes there.
CommandFits(p) ==
  LET c == cmd[p]
  IN  /\ pc[p] # "idle" => c \in Commands
      /\ pc[p] \in {"gate", "home", "project", "read", "parse", "verify"} => Asks(c)
      /\ pc[p] = "input" => c.kind = "batch"
      /\ pc[p] \in {"tail", "append"} => c.kind \in {"write", "batch"}
      /\ pc[p] = "load" => c.kind \in {"verify", "report", "show"}
      /\ pc[p] = "read" => source[p] \in Places

Typed == TypeOK /\ \A p \in Procs : CommandFits(p)

LEMMA Documents ==
  ASSUME NEW c \in Contents, ContentsFault(c) = "ok"
  PROVE  c \in Document
BY DEF ContentsFault, Contents

LEMMA FaultType == \A c \in Contents : ContentsFault(c) \in {"ok"} \union LicenseCodes
BY DEF ContentsFault, LicenseCodes

\* The label behind the gate fits the command.
LEMMA AfterGateFits ==
  ASSUME NEW c \in Commands
  PROVE  /\ AfterGate(c) \in {"input", "tail", "load", "done"}
         /\ AfterGate(c) = "input" => c.kind = "batch"
         /\ AfterGate(c) = "tail" => c.kind \in {"write", "batch"}
         /\ AfterGate(c) = "load" => c.kind \in {"verify", "report", "show"}
         /\ AfterGate(c) = "done" => c.kind = "mode"
BY CommandAssumption DEF AfterGate, Command, Kinds

\* The events of a batch are entries of the log, by the process that appends.
LEMMA EventsType ==
  ASSUME NEW p \in Procs, NEW c \in Commands
  PROVE  [k \in DOMAIN c.ops |-> EventOf(p, c, c.ops[k])]
           \in Seq({e \in LogEntry : e.by = p})
<1>1. c \in Command
  BY CommandAssumption
<1>2. c.ops \in Seq(Operation) /\ c.ns \in Namespaces
  BY <1>1 DEF Command
<1>3. \A k \in DOMAIN c.ops : EventOf(p, c, c.ops[k]) \in {e \in LogEntry : e.by = p}
  <2> SUFFICES ASSUME NEW k \in DOMAIN c.ops
                PROVE  EventOf(p, c, c.ops[k]) \in {e \in LogEntry : e.by = p}
    OBVIOUS
  <2>1. c.ops[k] \in Operation
    BY <1>2
  <2>2. c.ops[k].tick \in Nat
    BY <2>1 DEF Operation
  <2> QED
    BY <1>2, <2>2 DEF EventOf, LogEntry
<1>4. DOMAIN c.ops = 1..Len(c.ops) /\ Len(c.ops) \in Nat
  BY <1>2
<1> QED
  BY <1>3, <1>4

LEMMA WiderSeq == ASSUME NEW S, NEW T, S \subseteq T, NEW s \in Seq(S) PROVE s \in Seq(T)
OBVIOUS

LEMMA InitTyped == Init => Typed
<1> SUFFICES ASSUME Init PROVE Typed
  OBVIOUS
<1>1. files \in [Places -> Contents]
  BY FilesAssumption DEF Init
<1>2. log \in Seq(LogEntry)
  <2>1. log \in Seq([by: {Nobody}, ns: Namespaces, tick: Nat])
    BY EarlierAssumption DEF Init
  <2>2. [by: {Nobody}, ns: Namespaces, tick: Nat] \subseteq LogEntry
    BY DEF LogEntry
  <2> QED
    BY <2>1, <2>2, WiderSeq
<1>3. WorldType
  BY <1>1, <1>2 DEF Init, WorldType
<1>4. GivenType
  <2>1. cmd \in [Procs -> Commands \union {IdleCommand}]
    BY DEF Init
  <2>2. custom \in [Procs -> BOOLEAN]
    BY DEF Init
  <2>3. inline \in [Procs -> Contents]
    BY DEF Init, Contents
  <2>4. began \in [Procs -> Nat] /\ steady \in [Procs -> SUBSET {"home", "project"}]
    BY DEF Init
  <2> QED
    BY <2>1, <2>2, <2>3, <2>4 DEF GivenType
<1>5. ProcessType
  BY DEF Init, ProcessType, Labels, Sources, Contents, Results
<1>6. \A p \in Procs : CommandFits(p)
  BY DEF Init, CommandFits
<1> QED
  BY <1>3, <1>4, <1>5, <1>6 DEF Typed, TypeOK

\* What a step of the command itself leaves alone.
LEMMA StepFrame ==
  ASSUME NEW p \in Procs, Step(p)
  PROVE  UNCHANGED world /\ UNCHANGED given
BY DEF Step, LookInline, LookFile, ReadFile, ParseDocument, VerifyDocument,
       ReadInput, BuildOnTail, AppendEvents, LoadAndJudge

\* A step of a process changes the fields of no other.
LEMMA OthersKept ==
  ASSUME ProcessType, NEW p \in Procs, Step(p), NEW q \in Procs, q # p
  PROVE  /\ pc'[q] = pc[q] /\ source'[q] = source[q] /\ text'[q] = text[q]
         /\ base'[q] = base[q] /\ code'[q] = code[q]
<1> USE DEF ProcessType, Finish, Goto
<1>1. CASE LookInline(p)
  BY <1>1 DEF LookInline
<1>2. CASE LookFile(p)
  BY <1>2 DEF LookFile, NoLicense
<1>3. CASE ReadFile(p)
  BY <1>3 DEF ReadFile
<1>4. CASE ParseDocument(p)
  BY <1>4 DEF ParseDocument
<1>5. CASE VerifyDocument(p)
  BY <1>5 DEF VerifyDocument
<1>6. CASE ReadInput(p)
  BY <1>6 DEF ReadInput
<1>7. CASE BuildOnTail(p)
  BY <1>7 DEF BuildOnTail
<1>8. CASE AppendEvents(p)
  BY <1>8 DEF AppendEvents
<1>9. CASE LoadAndJudge(p)
  BY <1>9 DEF LoadAndJudge
<1> QED
  BY <1>1, <1>2, <1>3, <1>4, <1>5, <1>6, <1>7, <1>8, <1>9 DEF Step

\* The log a step of a process leaves: what it was, or with the events of the
\* batch behind it, if that was the append.
LEMMA LogAfterStep ==
  ASSUME Typed, NEW p \in Procs, Step(p)
  PROVE  \/ log' = log
         \/ /\ pc[p] = "append" /\ AppendFault(p) = "ok"
            /\ log' = log \o [k \in DOMAIN cmd[p].ops |-> EventOf(p, cmd[p], cmd[p].ops[k])]
BY DEF Step, LookInline, LookFile, ReadFile, ParseDocument, VerifyDocument,
       ReadInput, BuildOnTail, AppendEvents, LoadAndJudge

\* No event of another process comes with it.
LEMMA LogKept ==
  ASSUME Typed, NEW p \in Procs, Step(p)
  PROVE  /\ log' \in Seq(LogEntry)
         /\ Len(log) <= Len(log')
         /\ \A i \in 1..Len(log) : log'[i] = log[i]
         /\ \A i \in Len(log) + 1..Len(log') : log'[i].by = p
         /\ \A q \in Procs \ {p} : Mine(q)' = Mine(q)
<1>1. log \in Seq(LogEntry)
  BY DEF Typed, TypeOK, WorldType
<1>2. CASE log' = log
  BY <1>1, <1>2 DEF Mine
<1>3. CASE /\ pc[p] = "append"
           /\ log' = log \o [k \in DOMAIN cmd[p].ops |-> EventOf(p, cmd[p], cmd[p].ops[k])]
  <2> DEFINE new == [k \in DOMAIN cmd[p].ops |-> EventOf(p, cmd[p], cmd[p].ops[k])]
  <2>1. cmd[p] \in Commands
    BY <1>3 DEF Typed, CommandFits
  <2>2. new \in Seq({e \in LogEntry : e.by = p})
    BY <2>1, EventsType
  <2>3. new \in Seq(LogEntry) /\ \A i \in 1..Len(new) : new[i].by = p
    BY <2>2
  <2>4. log' = log \o new
    BY <1>3
  <2> HIDE DEF new
  <2>5. /\ log' \in Seq(LogEntry)
        /\ Len(log') = Len(log) + Len(new)
        /\ \A i \in 1..Len(log) : log'[i] = log[i]
        /\ \A i \in Len(log) + 1..Len(log') : log'[i] = new[i - Len(log)]
    BY <1>1, <2>3, <2>4
  <2>6. \A i \in Len(log) + 1..Len(log') : log'[i].by = p
    BY <1>1, <2>3, <2>5
  <2>7. \A q \in Procs \ {p} : Mine(q)' = Mine(q)
    BY <1>1, <2>3, <2>5, <2>6, SMTT(30) DEF Mine
  <2> QED
    BY <1>1, <2>3, <2>5, <2>6, <2>7
<1> QED
  BY <1>2, <1>3, LogAfterStep

\* The process of a step stays typed, and gets where its command belongs.
LEMMA StepTyped ==
  ASSUME Typed, NEW p \in Procs, Step(p)
  PROVE  ProcessType' /\ CommandFits(p)'
<1> USE DEF ProcessType, Finish, Goto
<1>1. /\ ProcessType /\ files \in [Places -> Contents] /\ inline[p] \in Contents
      /\ log \in Seq(LogEntry) /\ CommandFits(p)
  BY DEF Typed, TypeOK, WorldType, GivenType
<1>2. cmd' = cmd
  BY StepFrame DEF given
<1>3. cmd[p] \in Commands
  BY <1>1 DEF Step, LookInline, LookFile, ReadFile, ParseDocument, VerifyDocument,
              ReadInput, BuildOnTail, AppendEvents, LoadAndJudge, CommandFits
<1>4. LicenseCodes \subseteq Results /\ "ok" \in Results
  BY DEF Results
<1>5. CASE LookInline(p)
  <2>1. ContentsFault(inline[p]) # "ok" => ContentsFault(inline[p]) \in Results
    BY <1>1, <1>4, FaultType
  <2>2. ProcessType'
    BY <1>1, <1>5, <2>1, ZenonT(40) DEF LookInline, Labels, Sources
  <2>3. CommandFits(p)'
    BY <1>1, <1>2, <1>3, <1>5 DEF LookInline, CommandFits, Places
  <2> QED
    BY <2>2, <2>3
<1>6. CASE LookFile(p)
  <2>1. ProcessType'
    BY <1>1, <1>6, ZenonT(40) DEF LookFile, NoLicense, Labels, Sources, Results, LicenseCodes
  <2>2. CommandFits(p)'
    BY <1>1, <1>2, <1>3, <1>6 DEF LookFile, NoLicense, CommandFits, Places
  <2> QED
    BY <2>1, <2>2
<1>7. CASE ReadFile(p)
  <2>1. files[source[p]] \in Contents
    BY <1>1, <1>7 DEF ReadFile, CommandFits
  <2>2. ContentsFault(files[source[p]]) # "ok" => ContentsFault(files[source[p]]) \in Results
    BY <1>4, <2>1, FaultType
  <2>3. ProcessType'
    BY <1>1, <1>7, <2>1, <2>2 DEF ReadFile, Labels
  <2>4. CommandFits(p)'
    BY <1>1, <1>2, <1>3, <1>7 DEF ReadFile, CommandFits
  <2> QED
    BY <2>3, <2>4
<1>8. CASE ParseDocument(p)
  <2>1. ProcessType'
    BY <1>1, <1>8 DEF ParseDocument, Labels, Results, LicenseCodes
  <2>2. CommandFits(p)'
    BY <1>1, <1>2, <1>3, <1>8 DEF ParseDocument, CommandFits
  <2> QED
    BY <2>1, <2>2
<1>9. CASE VerifyDocument(p)
  <2>1. ProcessType'
    BY <1>1, <1>3, <1>9, AfterGateFits DEF VerifyDocument, Labels, Results, LicenseCodes
  <2>2. CommandFits(p)'
    BY <1>1, <1>2, <1>3, <1>9, AfterGateFits DEF VerifyDocument, CommandFits
  <2> QED
    BY <2>1, <2>2
<1>10. CASE ReadInput(p)
  <2>1. ProcessType'
    BY <1>1, <1>10 DEF ReadInput, Labels, Results
  <2>2. CommandFits(p)'
    BY <1>1, <1>2, <1>3, <1>10 DEF ReadInput, CommandFits
  <2> QED
    BY <2>1, <2>2
<1>11. CASE BuildOnTail(p)
  <2>1. ProcessType'
    <3>1. /\ base' = [base EXCEPT ![p] = Len(log)] /\ UNCHANGED <<source, text>>
          /\ (Goto(p, "append") /\ code' = code) \/ Finish(p, "INVALID_EVENT_FORMAT")
      BY <1>11 DEF BuildOnTail
    <3>2. Len(log) \in Nat
      BY <1>1
    <3> QED
      BY <1>1, <3>1, <3>2 DEF Labels, Results
  <2>2. CommandFits(p)'
    BY <1>1, <1>2, <1>3, <1>11 DEF BuildOnTail, CommandFits
  <2> QED
    BY <2>1, <2>2
<1>12. CASE AppendEvents(p)
  <2>1. AppendFault(p) \in Results
    BY DEF AppendFault, Results
  <2>2. ProcessType'
    BY <1>1, <1>12, <2>1 DEF AppendEvents, Labels
  <2>3. CommandFits(p)'
    BY <1>1, <1>2, <1>3, <1>12 DEF AppendEvents, CommandFits
  <2> QED
    BY <2>2, <2>3
<1>13. CASE LoadAndJudge(p)
  <2>1. ProcessType'
    BY <1>1, <1>13 DEF LoadAndJudge, Labels, Results
  <2>2. CommandFits(p)'
    BY <1>1, <1>2, <1>3, <1>13 DEF LoadAndJudge, CommandFits
  <2> QED
    BY <2>1, <2>2
<1> QED
  BY <1>5, <1>6, <1>7, <1>8, <1>9, <1>10, <1>11, <1>12, <1>13 DEF Step

LEMMA NextTyped == Typed /\ [Next]_vars => Typed'
<1> SUFFICES ASSUME Typed, [Next]_vars PROVE Typed'
  OBVIOUS
<1>1. ASSUME NEW p \in Procs, Step(p) PROVE Typed'
  <2>1. WorldType'
    BY <1>1, StepFrame, LogKept DEF Typed, TypeOK, WorldType, world
  <2>2. GivenType'
    <3>1. UNCHANGED <<cmd, inline, custom, began, steady>>
      BY <1>1, StepFrame DEF given
    <3>2. GivenType
      BY DEF Typed, TypeOK
    <3> QED
      BY <3>1, <3>2 DEF GivenType
  <2>3. ProcessType' /\ CommandFits(p)'
    BY <1>1, StepTyped
  <2>4. ASSUME NEW q \in Procs, q # p PROVE CommandFits(q)'
    <3>1. ProcessType /\ CommandFits(q)
      BY DEF Typed, TypeOK
    <3>2. cmd' = cmd
      BY <1>1, StepFrame DEF given
    <3> QED
      BY <1>1, <2>4, <3>1, <3>2, OthersKept DEF CommandFits
  <2> QED
    BY <2>1, <2>2, <2>3, <2>4 DEF Typed, TypeOK
<1>2. ASSUME NEW p \in Procs, NEW c \in Commands, NEW doc \in Inlines, NEW set \in BOOLEAN,
             Start(p, c, doc, set)
      PROVE  Typed'
  <2>1. GivenType /\ ProcessType /\ WorldType /\ \A q \in Procs : CommandFits(q)
    BY DEF Typed, TypeOK
  <2>2. GivenType'
    <3>1. doc \in Contents
      BY FilesAssumption
    <3>2. cmd' \in [Procs -> Commands \union {IdleCommand}] /\ inline' \in [Procs -> Contents]
      BY <1>2, <2>1, <3>1 DEF Start, GivenType
    <3>3. custom' \in [Procs -> BOOLEAN]
      BY <1>2, <2>1 DEF Start, GivenType
    <3>4. began' \in [Procs -> Nat] /\ steady' \in [Procs -> SUBSET {"home", "project"}]
      BY <1>2, <2>1 DEF Start, GivenType, WorldType, Present
    <3> QED
      BY <3>2, <3>3, <3>4 DEF GivenType
  <2>3. ProcessType'
    BY <1>2, <2>1, AfterGateFits DEF Start, ProcessType, Goto, Labels
  <2>4. WorldType'
    BY <1>2, <2>1 DEF Start, WorldType, world
  <2>5. ASSUME NEW q \in Procs PROVE CommandFits(q)'
    BY <1>2, <2>1, AfterGateFits DEF Start, CommandFits, GivenType, ProcessType, Goto
  <2> QED
    BY <2>2, <2>3, <2>4, <2>5 DEF Typed, TypeOK
<1>3. CASE TimePasses
  BY <1>3 DEF TimePasses, given, Typed, TypeOK, WorldType, GivenType, ProcessType, CommandFits
<1>4. ASSUME NEW place \in Places, NEW content \in Stored, EditLicense(place, content)
      PROVE  Typed'
  <2>1. GivenType /\ ProcessType /\ WorldType /\ \A q \in Procs : CommandFits(q)
    BY DEF Typed, TypeOK
  <2>2. WorldType'
    BY <1>4, <2>1, FilesAssumption DEF EditLicense, WorldType
  <2>3. GivenType'
    BY <1>4, <2>1 DEF EditLicense, GivenType
  <2>4. ProcessType' /\ \A q \in Procs : CommandFits(q)'
    BY <1>4, <2>1 DEF EditLicense, ProcessType, CommandFits
  <2> QED
    BY <2>2, <2>3, <2>4 DEF Typed, TypeOK
<1>5. CASE UNCHANGED vars
  BY <1>5 DEF vars, Typed, TypeOK, WorldType, GivenType, ProcessType, CommandFits
<1> QED
  BY <1>1, <1>2, <1>3, <1>4, <1>5 DEF Next

-----------------------------------------------------------------------------
(* The gate. *)

\* A genuine document that grants what the command asks for was in force at
\* some time since the process started.
Granted(p) ==
  /\ text[p] \in Document
  /\ text[p].genuine /\ Wanted(cmd[p]) \in text[p].features
  /\ \E t \in began[p]..clock :
       t >= text[p].issued /\ (text[p].expires = None \/ t <= text[p].expires)

\* Past the gate, or done with what is behind it.
Behind(p) ==
  \/ pc[p] \in {"input", "tail", "append", "load"}
  \/ Mine(p) # {}
  \/ pc[p] = "done" /\ code[p] = "ok"

\* Nothing behind the gate is done without a grant, and only by commands that
\* write, which are then over.
GateKept(p) ==
  /\ began[p] <= clock
  /\ pc[p] \in {"parse", "verify"} => text[p] \in Document
  /\ pc[p] = "verify" => text[p].issued <= clock
  /\ Behind(p) /\ Wanted(cmd[p]) # None => Granted(p)
  /\ Mine(p) # {} => pc[p] = "done" /\ cmd[p].kind \in {"write", "batch"}
  /\ pc[p] # "done" => code[p] = "running"

\* A grant lasts: time only passes.
LEMMA GrantedKept ==
  ASSUME Typed, NEW p \in Procs, Granted(p), text'[p] = text[p], cmd'[p] = cmd[p],
         began'[p] = began[p], clock' \in Nat, clock <= clock'
  PROVE  Granted(p)'
<1>1. clock \in Nat /\ began[p] \in Nat
  BY DEF Typed, TypeOK, WorldType, GivenType
<1>2. PICK t \in began[p]..clock :
        t >= text[p].issued /\ (text[p].expires = None \/ t <= text[p].expires)
  BY DEF Granted
<1>3. t \in began[p]..clock'
  BY <1>1
<1>4. /\ text'[p] \in Document
      /\ text'[p].genuine /\ Wanted(cmd'[p]) \in text'[p].features
  BY DEF Granted
<1>5. \E u \in began'[p]..clock' :
        u >= text'[p].issued /\ (text'[p].expires = None \/ u <= text'[p].expires)
  BY <1>2, <1>3
<1> QED
  BY <1>4, <1>5 DEF Granted

\* Only the append adds to what a process has in the log.
LEMMA MineAfterStep ==
  ASSUME Typed, NEW p \in Procs, Step(p), pc[p] # "append"
  PROVE  log' = log /\ Mine(p)' = Mine(p)
BY LogAfterStep DEF Mine

LEMMA GateStep ==
  ASSUME Typed, NEW p \in Procs, GateKept(p), Step(p)
  PROVE  GateKept(p)'
<1> USE DEF Finish, Goto
<1>1. /\ ProcessType /\ CommandFits(p) /\ clock \in Nat /\ began[p] \in Nat
      /\ files \in [Places -> Contents] /\ inline[p] \in Contents
  BY DEF Typed, TypeOK, WorldType, GivenType
<1>2. cmd' = cmd /\ began' = began /\ clock' = clock
  BY StepFrame DEF given, world
<1>3. began'[p] <= clock'
  BY <1>2 DEF GateKept
<1>4. ASSUME pc[p] \in {"gate", "home", "project", "read", "parse"},
             pc'[p] \in {"read", "home", "project", "parse", "verify"}
                \/ (pc'[p] = "done" /\ code'[p] # "ok"),
             pc'[p] # "done" => code'[p] = code[p],
             pc'[p] \in {"parse", "verify"} => text'[p] \in Document,
             pc'[p] = "verify" => text'[p].issued <= clock
      PROVE  GateKept(p)'
  <2>1. Mine(p) = {}
    BY <1>4 DEF GateKept
  <2>2. Mine(p)' = {}
    BY <1>4, <2>1, MineAfterStep
  <2>3. ~Behind(p)'
    BY <1>4, <2>2 DEF Behind
  <2> QED
    BY <1>2, <1>3, <1>4, <2>2, <2>3 DEF GateKept
<1>5. CASE LookInline(p)
  <2>1. ContentsFault(inline[p]) = "ok" => inline[p] \in Document
    BY <1>1, Documents
  <2> QED
    BY <1>1, <1>4, <1>5, <2>1 DEF LookInline, ProcessType
<1>6. CASE LookFile(p)
  BY <1>1, <1>4, <1>6 DEF LookFile, NoLicense, ProcessType
<1>7. CASE ReadFile(p)
  <2>1. files[source[p]] \in Contents
    BY <1>1, <1>7 DEF ReadFile, CommandFits
  <2>2. ContentsFault(files[source[p]]) = "ok" => files[source[p]] \in Document
    BY <2>1, Documents
  <2> QED
    BY <1>1, <1>4, <1>7, <2>2 DEF ReadFile, ProcessType
<1>8. CASE ParseDocument(p)
  BY <1>1, <1>4, <1>8 DEF ParseDocument, ProcessType, GateKept, Parses
<1>9. CASE VerifyDocument(p)
  <2>1. Mine(p)' = {}
    BY <1>9, MineAfterStep DEF VerifyDocument, GateKept
  <2>2. text' = text
    BY <1>9 DEF VerifyDocument
  <2>3. CASE Verifies(text[p], Wanted(cmd[p]), clock)
    <3>1. text[p] \in Document /\ text[p].issued <= clock
      BY <1>9 DEF VerifyDocument, GateKept
    <3>2. clock \in began[p]..clock
      BY <1>1 DEF GateKept
    <3>3. text[p].issued \in Nat
      BY <3>1 DEF Document
    <3>4. Wanted(cmd[p]) # None => Granted(p)
      <4>1. clock >= text[p].issued
        BY <1>1, <3>1, <3>3
      <4> QED
        BY <2>3, <3>1, <3>2, <4>1 DEF Verifies, Granted
    <3>5. Wanted(cmd[p]) # None => Granted(p)'
      BY <1>1, <1>2, <2>2, <3>4, GrantedKept
    <3>6. pc'[p] \notin {"parse", "verify"} /\ (pc'[p] # "done" => code'[p] = code[p])
      <4>1. cmd[p] \in Commands
        BY <1>1, <1>9 DEF VerifyDocument, CommandFits
      <4> QED
        BY <1>1, <1>9, <4>1, AfterGateFits DEF VerifyDocument, ProcessType
    <3>7. pc[p] # "done"
      BY <1>9 DEF VerifyDocument
    <3> QED
      BY <1>2, <1>3, <2>1, <3>5, <3>6, <3>7 DEF GateKept
  <2>4. CASE ~Verifies(text[p], Wanted(cmd[p]), clock)
    <3>1. pc'[p] = "done" /\ code'[p] # "ok"
      BY <1>1, <1>9, <2>4 DEF VerifyDocument, ProcessType
    <3> QED
      BY <1>2, <1>3, <2>1, <3>1 DEF GateKept, Behind
  <2> QED
    BY <2>3, <2>4
<1>10. ASSUME pc[p] \in {"input", "tail", "append", "load"},
              pc'[p] \in {"tail", "append", "done"}, text' = text,
              pc'[p] # "done" => code'[p] = code[p],
              Mine(p)' # {} => pc'[p] = "done" /\ cmd[p].kind \in {"write", "batch"}
       PROVE  GateKept(p)'
  <2>1. Wanted(cmd[p]) # None => Granted(p)
    BY <1>10 DEF GateKept, Behind
  <2>2. Wanted(cmd[p]) # None => Granted(p)'
    BY <1>1, <1>2, <1>10, <2>1, GrantedKept
  <2> QED
    BY <1>2, <1>3, <1>10, <2>2 DEF GateKept
<1>11. pc[p] \in {"input", "tail", "load"} => Mine(p)' = {}
  BY MineAfterStep DEF GateKept
<1>12. CASE ReadInput(p)
  BY <1>1, <1>10, <1>11, <1>12 DEF ReadInput, ProcessType
<1>13. CASE BuildOnTail(p)
  <2>1. /\ pc[p] = "tail" /\ text' = text /\ pc'[p] \in {"append", "done"}
        /\ pc'[p] # "done" => code'[p] = code[p]
    <3>1. /\ pc[p] = "tail" /\ text' = text
          /\ (Goto(p, "append") /\ code' = code) \/ Finish(p, "INVALID_EVENT_FORMAT")
      BY <1>13 DEF BuildOnTail
    <3> QED
      BY <1>1, <3>1 DEF ProcessType
  <2> QED
    BY <1>10, <1>11, <2>1
<1>14. CASE AppendEvents(p)
  BY <1>1, <1>10, <1>14 DEF AppendEvents, ProcessType, CommandFits
<1>15. CASE LoadAndJudge(p)
  BY <1>1, <1>10, <1>11, <1>15 DEF LoadAndJudge, ProcessType
<1> QED
  BY <1>5, <1>6, <1>7, <1>8, <1>9, <1>12, <1>13, <1>14, <1>15 DEF Step

LEMMA InitGate == Init => \A p \in Procs : GateKept(p)
<1> SUFFICES ASSUME Init, NEW p \in Procs PROVE GateKept(p)
  OBVIOUS
<1>1. Mine(p) = {}
  <2> DEFINE E == [by: {Nobody}, ns: Namespaces, tick: Nat]
  <2>1. log \in Seq(E)
    BY EarlierAssumption DEF Init
  <2>2. \A e \in E : e.by = Nobody
    OBVIOUS
  <2> HIDE DEF E
  <2>3. \A i \in DOMAIN log : log[i].by = Nobody
    BY <2>1, <2>2
  <2> QED
    BY <2>3, EarlierAssumption DEF Mine
<1> QED
  BY <1>1 DEF Init, GateKept, Behind

LEMMA NextGate ==
  Typed /\ (\A p \in Procs : GateKept(p)) /\ [Next]_vars => \A p \in Procs : GateKept(p)'
<1> SUFFICES ASSUME Typed, \A p \in Procs : GateKept(p), [Next]_vars, NEW p \in Procs
             PROVE  GateKept(p)'
  OBVIOUS
<1>1. GateKept(p) /\ ProcessType /\ GivenType /\ clock \in Nat /\ Typed'
  BY NextTyped DEF Typed, TypeOK, WorldType
<1> DEFINE Frame == /\ pc'[p] = pc[p] /\ text'[p] = text[p] /\ code'[p] = code[p]
                    /\ cmd'[p] = cmd[p] /\ began'[p] = began[p] /\ Mine(p)' = Mine(p)
                    /\ clock <= clock'
<1>2. ASSUME Frame PROVE GateKept(p)'
  <2>1. clock' \in Nat /\ began[p] \in Nat
    BY <1>1 DEF Typed, TypeOK, WorldType, GivenType
  <2>2. Granted(p) => Granted(p)'
    BY <1>2, <2>1, GrantedKept
  <2>3. pc'[p] = "verify" => text'[p].issued <= clock'
    <3>1. pc[p] = "verify" => text[p].issued \in Nat
      BY <1>1 DEF GateKept, Document
    <3> QED
      BY <1>1, <1>2, <2>1, <3>1 DEF GateKept
  <2>4. Behind(p)' = Behind(p)
    BY <1>2 DEF Behind
  <2>5. began'[p] <= clock'
    BY <1>1, <1>2, <2>1 DEF GateKept
  <2> QED
    BY <1>1, <1>2, <2>2, <2>3, <2>4, <2>5 DEF GateKept
<1> HIDE DEF Frame
<1>3. ASSUME NEW q \in Procs, Step(q) PROVE GateKept(p)'
  <2>1. CASE q = p
    BY <1>1, <1>3, <2>1, GateStep
  <2>2. CASE q # p
    <3>1. cmd' = cmd /\ began' = began /\ clock' = clock
      BY <1>3, StepFrame DEF given, world
    <3>2. Mine(p)' = Mine(p)
      BY <1>3, <2>2, LogKept
    <3> QED
      BY <1>1, <1>2, <1>3, <2>2, <3>1, <3>2, OthersKept DEF Frame
  <2> QED
    BY <2>1, <2>2
<1>4. ASSUME NEW q \in Procs, NEW c \in Commands, NEW doc \in Inlines, NEW set \in BOOLEAN,
             Start(q, c, doc, set)
      PROVE  GateKept(p)'
  <2>1. Mine(p)' = Mine(p) /\ clock' = clock /\ code' = code
    BY <1>4 DEF Start, Mine, world
  <2>2. CASE q = p
    <3>1. pc[p] = "idle" /\ Mine(p) = {}
      BY <1>1, <1>4, <2>2 DEF Start, GateKept
    <3>2. cmd'[p] = c /\ began'[p] = clock
          /\ pc'[p] = IF Asks(c) THEN "gate" ELSE AfterGate(c)
      BY <1>1, <1>4, <2>2 DEF Start, GivenType, ProcessType, Goto
    <3>3. ~Asks(c) => Wanted(c) = None
      BY DEF Asks
    <3>4. Behind(p)' => ~Asks(c)
      <4>1. CASE Asks(c)
        BY <2>1, <3>1, <3>2, <4>1 DEF Behind
      <4> QED
        BY <4>1
    <3>5. pc'[p] \notin {"parse", "verify"}
      BY <3>2, AfterGateFits
    <3> QED
      BY <1>1, <2>1, <3>1, <3>2, <3>3, <3>4, <3>5 DEF GateKept
  <2>3. CASE q # p
    BY <1>1, <1>2, <1>4, <2>1, <2>3 DEF Start, GivenType, ProcessType, Goto, Frame
  <2> QED
    BY <2>2, <2>3
<1>5. CASE TimePasses
  BY <1>1, <1>2, <1>5 DEF TimePasses, given, Mine, Frame
<1>6. ASSUME NEW place \in Places, NEW content \in Stored, EditLicense(place, content)
      PROVE  GateKept(p)'
  BY <1>1, <1>2, <1>6 DEF EditLicense, Mine, Frame
<1>7. CASE UNCHANGED vars
  BY <1>1, <1>2, <1>7 DEF vars, Mine, Frame
<1> QED
  BY <1>3, <1>4, <1>5, <1>6, <1>7 DEF Next

LEMMA GateInvariant == Spec => [](Typed /\ \A p \in Procs : GateKept(p))
<1> DEFINE Inv == Typed /\ \A p \in Procs : GateKept(p)
<1>1. Init => Inv
  BY InitTyped, InitGate
<1>2. Inv /\ [Next]_vars => Inv'
  BY NextTyped, NextGate
<1> QED
  BY <1>1, <1>2, PTL DEF Spec

\* Whatever commands run, however many, and whatever happens to files and clock
\* between any two of their steps: no event of a production command is in the
\* log, and no report is out, without a genuine document that grants it and was
\* in force while the command ran (require_enterprise_detailed).
THEOREM GateHolds == Spec => []LicensedEffects
<1>1. Typed /\ (\A p \in Procs : GateKept(p)) => LicensedEffects
  <2> SUFFICES ASSUME Typed, NEW p \in Procs, GateKept(p),
                      cmd[p].production \/ cmd[p].kind = "report",
                      Mine(p) # {} \/ (cmd[p].kind = "report" /\ code[p] = "ok")
               PROVE  /\ Granted(p)
                      /\ Wanted(cmd[p]) = IF cmd[p].kind = "report"
                                          THEN "compliance-reporting"
                                          ELSE "commercial-production"
    BY Zenon DEF LicensedEffects, Granted
  <2>1. Wanted(cmd[p]) = IF cmd[p].kind = "report" THEN "compliance-reporting"
                                                   ELSE "commercial-production"
    <3>1. CASE cmd[p].kind = "report"
      BY <3>1 DEF Wanted
    <3>2. CASE cmd[p].kind # "report"
      <4>1. cmd[p].kind \in {"write", "batch"}
        BY <3>2 DEF GateKept
      <4> QED
        BY <3>2, <4>1 DEF Wanted
    <3> QED
      BY <3>1, <3>2
  <2>2. Wanted(cmd[p]) # None
    BY <2>1, NoneAssumption DEF Capability
  <2>3. Behind(p)
    BY DEF Behind, GateKept
  <2> QED
    BY <2>1, <2>2, <2>3 DEF GateKept
<1> QED
  BY <1>1, GateInvariant, PTL

-----------------------------------------------------------------------------
(* Which license is looked at. *)

\* The sources that were there all the time.
There(p) ==
  (IF inline[p] # Missing THEN {"inline"} ELSE {})
    \union (IF custom[p] THEN {"custom"} ELSE {}) \union steady[p]

\* A place that was passed by had nothing in it at that moment.
SourceKept(p) ==
  /\ \A s \in steady[p] : files[s] # Missing
  /\ pc[p] \in {"idle", "gate", "home", "project"} => source[p] = None
  /\ pc[p] \in {"home", "project"} => inline[p] = Missing /\ ~custom[p]
  /\ pc[p] = "project" => "home" \notin steady[p]
  /\ pc[p] # "done" => code[p] = "running"
  /\ source[p] # None => \A s \in There(p) : Rank[source[p]] <= Rank[s]
  /\ code[p] \in {"community", "LICENSE_REQUIRED"} => There(p) = {}

LEMMA InitSource == Init => \A p \in Procs : SourceKept(p)
BY DEF Init, SourceKept

\* A step that decides on no source and comes to no verdict about there being
\* none.
LEMMA SourceSame ==
  ASSUME Typed, NEW p \in Procs, SourceKept(p), files' = files, UNCHANGED given,
         source'[p] = source[p],
         pc'[p] \notin {"idle", "gate", "home", "project"},
         code'[p] \in {"community", "LICENSE_REQUIRED"} => code'[p] = code[p],
         pc'[p] # "done" => code'[p] = code[p] /\ pc[p] # "done"
  PROVE  SourceKept(p)'
<1>1. There(p)' = There(p)
  BY DEF There, given
<1> QED
  BY <1>1 DEF SourceKept, given

\* ContentsFault never says that no license was found.
LEMMA FaultsFound == \A c : ContentsFault(c) \notin {"community", "LICENSE_REQUIRED"}
BY DEF ContentsFault

LEMMA SourceStep ==
  ASSUME Typed, NEW p \in Procs, SourceKept(p), Step(p)
  PROVE  SourceKept(p)'
<1> USE DEF Finish, Goto
<1>1. ProcessType /\ CommandFits(p) /\ steady[p] \subseteq {"home", "project"}
  BY DEF Typed, TypeOK, GivenType
<1>2. UNCHANGED given /\ files' = files
  BY StepFrame DEF world
<1>3. There(p)' = There(p) /\ steady' = steady /\ inline' = inline /\ custom' = custom
  BY <1>2 DEF There, given
<1>4. CASE LookInline(p)
  <2>1. CASE inline[p] # Missing
    <3>1. /\ source'[p] = "inline" /\ pc'[p] \in {"parse", "done"}
          /\ code'[p] \notin {"community", "LICENSE_REQUIRED"}
          /\ pc'[p] # "done" => code'[p] = code[p]
      BY <1>1, <1>4, <2>1, FaultsFound DEF LookInline, ProcessType, SourceKept
    <3>2. \A s \in There(p) : Rank["inline"] <= Rank[s]
      BY <1>1 DEF There, Rank
    <3> QED
      BY <1>1, <1>2, <1>3, <1>4, <3>1, <3>2 DEF SourceKept, LookInline
  <2>2. CASE inline[p] = Missing /\ custom[p]
    <3>1. source'[p] = "custom" /\ pc'[p] = "read" /\ code' = code /\ pc[p] = "gate"
      BY <1>1, <1>4, <2>2 DEF LookInline, ProcessType
    <3>2. \A s \in There(p) : Rank["custom"] <= Rank[s]
      BY <1>1, <2>2 DEF There, Rank
    <3> QED
      BY <1>2, <1>3, <3>1, <3>2 DEF SourceKept
  <2>3. CASE inline[p] = Missing /\ ~custom[p]
    <3>1. source' = source /\ pc'[p] = "home" /\ code' = code /\ pc[p] = "gate"
      BY <1>1, <1>4, <2>3 DEF LookInline, ProcessType
    <3> QED
      BY <1>2, <1>3, <2>3, <3>1 DEF SourceKept
  <2> QED
    BY <2>1, <2>2, <2>3
<1>5. CASE LookFile(p)
  <2>1. PICK s \in {"home", "project"} :
          /\ pc[p] = s
          /\ IF files[s] # Missing
             THEN source' = [source EXCEPT ![p] = s] /\ Goto(p, "read") /\ UNCHANGED code
             ELSE /\ UNCHANGED source
                  /\ IF s = "home" THEN Goto(p, "project") /\ UNCHANGED code ELSE NoLicense(p)
    BY <1>5 DEF LookFile
  <2>2. There(p) = steady[p]
    BY <2>1 DEF SourceKept, There
  <2>3. CASE files[s] # Missing
    <3>1. source'[p] = s /\ pc'[p] = "read" /\ code' = code
      BY <1>1, <2>1, <2>3 DEF ProcessType
    <3>2. \A r \in There(p) : Rank[s] <= Rank[r]
      BY <1>1, <2>1, <2>2 DEF SourceKept, Rank
    <3> QED
      BY <1>2, <1>3, <2>1, <3>1, <3>2 DEF SourceKept
  <2>4. CASE files[s] = Missing /\ s = "home"
    <3>1. source' = source /\ pc'[p] = "project" /\ code' = code
      BY <1>1, <2>1, <2>4 DEF ProcessType
    <3>2. "home" \notin steady[p]
      BY <2>4 DEF SourceKept
    <3> QED
      BY <1>2, <1>3, <2>1, <2>4, <3>1, <3>2 DEF SourceKept
  <2>5. CASE files[s] = Missing /\ s = "project"
    <3>1. source' = source /\ pc'[p] = "done"
      BY <1>1, <2>1, <2>5 DEF ProcessType, NoLicense
    <3>2. There(p) = {}
      BY <1>1, <2>1, <2>2, <2>5 DEF SourceKept
    <3> QED
      BY <1>2, <1>3, <2>1, <3>1, <3>2 DEF SourceKept
  <2> QED
    BY <2>1, <2>3, <2>4, <2>5
<1>6. ASSUME pc[p] \in {"read", "parse", "verify", "input", "tail", "append", "load"},
             source' = source,
             pc'[p] \in {"parse", "verify", "input", "tail", "append", "load", "done"},
             code'[p] \notin {"community", "LICENSE_REQUIRED"} \/ code'[p] = code[p],
             pc'[p] # "done" => code'[p] = code[p]
      PROVE  SourceKept(p)'
  BY <1>2, <1>6, SourceSame
<1>7. CASE ReadFile(p)
  BY <1>1, <1>6, <1>7, FaultsFound DEF ReadFile, ProcessType
<1>8. CASE ParseDocument(p)
  BY <1>1, <1>6, <1>8 DEF ParseDocument, ProcessType
<1>9. CASE VerifyDocument(p)
  <2>1. cmd[p] \in Commands
    BY <1>1, <1>9 DEF VerifyDocument, CommandFits
  <2> QED
    BY <1>1, <1>6, <1>9, <2>1, AfterGateFits DEF VerifyDocument, ProcessType
<1>10. CASE ReadInput(p)
  BY <1>1, <1>6, <1>10 DEF ReadInput, ProcessType
<1>11. CASE BuildOnTail(p)
  <2>1. /\ pc[p] = "tail" /\ source' = source
        /\ (Goto(p, "append") /\ code' = code) \/ Finish(p, "INVALID_EVENT_FORMAT")
    BY <1>11 DEF BuildOnTail
  <2> QED
    BY <1>1, <1>6, <2>1 DEF ProcessType
<1>12. CASE AppendEvents(p)
  <2>1. AppendFault(p) \notin {"community", "LICENSE_REQUIRED"}
    BY DEF AppendFault
  <2> QED
    BY <1>1, <1>6, <1>12, <2>1 DEF AppendEvents, ProcessType
<1>13. CASE LoadAndJudge(p)
  BY <1>1, <1>6, <1>13 DEF LoadAndJudge, ProcessType
<1> QED
  BY <1>4, <1>5, <1>7, <1>8, <1>9, <1>10, <1>11, <1>12, <1>13 DEF Step

LEMMA NextSource ==
  Typed /\ (\A p \in Procs : SourceKept(p)) /\ [Next]_vars => \A p \in Procs : SourceKept(p)'
<1> SUFFICES ASSUME Typed, \A p \in Procs : SourceKept(p), [Next]_vars, NEW p \in Procs
             PROVE  SourceKept(p)'
  OBVIOUS
<1>1. SourceKept(p) /\ ProcessType /\ GivenType /\ files \in [Places -> Contents]
  BY DEF Typed, TypeOK, WorldType
<1>2. ASSUME NEW q \in Procs, Step(q) PROVE SourceKept(p)'
  <2>1. CASE q = p
    BY <1>1, <1>2, <2>1, SourceStep
  <2>2. CASE q # p
    <3>1. /\ files' = files /\ steady' = steady /\ inline' = inline /\ There(p)' = There(p)
          /\ custom' = custom
      BY <1>2, StepFrame DEF given, world, There
    <3> QED
      BY <1>1, <1>2, <2>2, <3>1, OthersKept DEF SourceKept
  <2> QED
    BY <2>1, <2>2
<1>3. ASSUME NEW q \in Procs, NEW c \in Commands, NEW doc \in Inlines, NEW set \in BOOLEAN,
             Start(q, c, doc, set)
      PROVE  SourceKept(p)'
  <2>1. files' = files /\ source' = source /\ code' = code
    BY <1>3 DEF Start, world
  <2>2. CASE q = p
    <3>1. /\ pc[p] = "idle" /\ source[p] = None /\ code[p] = "running"
          /\ steady'[p] = Present(files) /\ pc'[p] \notin {"home", "project", "idle"}
      BY <1>1, <1>3, <2>2, AfterGateFits DEF Start, SourceKept, GivenType, ProcessType, Goto
    <3> QED
      BY <2>1, <3>1 DEF SourceKept, Present
  <2>3. CASE q # p
    <3>1. /\ pc'[p] = pc[p] /\ steady'[p] = steady[p] /\ inline'[p] = inline[p]
      BY <1>1, <1>3, <2>3 DEF Start, GivenType, ProcessType, Goto
    <3>2. custom'[p] = custom[p]
      BY <1>1, <1>3, <2>3 DEF Start, GivenType
    <3>3. There(p)' = There(p)
      BY <3>1, <3>2 DEF There
    <3> QED
      BY <1>1, <2>1, <3>1, <3>2, <3>3 DEF SourceKept
  <2> QED
    BY <2>2, <2>3
<1>4. CASE TimePasses
  BY <1>1, <1>4 DEF TimePasses, given, SourceKept, There
<1>5. ASSUME NEW place \in Places, NEW content \in Stored, EditLicense(place, content)
      PROVE  SourceKept(p)'
  <2>1. /\ UNCHANGED <<inline, custom, pc, source, code>>
        /\ steady'[p] = IF content = Missing THEN steady[p] \ {place} ELSE steady[p]
        /\ \A s \in steady[p] : files'[s] = IF s = place THEN content ELSE files[s]
    BY <1>1, <1>5 DEF EditLicense, GivenType, Places
  <2>2. There(p)' \subseteq There(p) /\ steady'[p] \subseteq steady[p]
    BY <2>1 DEF There
  <2>3. \A s \in steady'[p] : files'[s] # Missing
    BY <1>1, <2>1 DEF SourceKept
  <2> QED
    BY <1>1, <2>1, <2>2, <2>3 DEF SourceKept
<1>6. CASE UNCHANGED vars
  BY <1>1, <1>6 DEF vars, SourceKept, There
<1> QED
  BY <1>2, <1>3, <1>4, <1>5, <1>6 DEF Next

\* However files come and go, the source decided on is the first in the
\* documented order among those that were there all along
\* (load_license_source, resolve_license_file_path).
THEOREM SourcesInOrder == Spec => []FirstSourceWins
<1> DEFINE Inv == Typed /\ \A p \in Procs : SourceKept(p)
<1>1. Init => Inv
  BY InitTyped, InitSource
<1>2. Inv /\ [Next]_vars => Inv'
  BY NextTyped, NextSource
<1>3. Inv => FirstSourceWins
  BY DEF SourceKept, FirstSourceWins, There
<1> QED
  BY <1>1, <1>2, <1>3, PTL DEF Spec

-----------------------------------------------------------------------------
(* Exit codes. *)

Succeeded(p) == code[p] \in {"ok", "community", "licensed"}

\* The events of the command are in the log, side by side behind the tail.
Written(p) ==
  /\ Mine(p) = base[p] + 1 .. base[p] + Len(cmd[p].ops)
  /\ \A k \in DOMAIN cmd[p].ops : log[base[p] + k] = EventOf(p, cmd[p], cmd[p].ops[k])

TruthKept(p) ==
  /\ base[p] <= Len(log)
  /\ Succeeded(p) => pc[p] = "done"
  /\ Mine(p) # {} => Succeeded(p) /\ cmd[p].kind \in {"write", "batch"}
  /\ Succeeded(p) /\ cmd[p].kind \in {"write", "batch"} => Written(p)
  /\ Succeeded(p) /\ cmd[p].kind \in {"verify", "report"} => Replays(SubSeq(log, 1, base[p]))

LEMMA Exits == \A c : ExitCode(c) = 0 <=> c \in {"ok", "community", "licensed"}
BY DEF ExitCode, LicenseCodes

\* What a longer log keeps of a process that has no part in what is new.
LEMMA TruthGrows ==
  ASSUME Typed, NEW p \in Procs, TruthKept(p),
         log' \in Seq(LogEntry), Len(log) <= Len(log'), \A i \in 1..Len(log) : log'[i] = log[i],
         Mine(p)' = Mine(p), base'[p] = base[p], cmd'[p] = cmd[p],
         Succeeded(p)' => Succeeded(p) /\ pc'[p] = pc[p],
         Mine(p) # {} => Succeeded(p)'
  PROVE  TruthKept(p)'
<1>1. log \in Seq(LogEntry) /\ base[p] \in Nat /\ base[p] <= Len(log)
  BY DEF Typed, TypeOK, WorldType, ProcessType, TruthKept
<1>2. base'[p] <= Len(log')
  BY <1>1
<1>3. SubSeq(log', 1, base'[p]) = SubSeq(log, 1, base[p])
  BY <1>1
<1>4. ASSUME Succeeded(p), cmd[p].kind \in {"write", "batch"}, pc[p] = "done" PROVE Written(p)'
  <2>1. Written(p)
    BY <1>4 DEF TruthKept
  <2>2. cmd[p].ops \in Seq(Operation)
    <3>1. cmd[p] \in Commands
      BY <1>4 DEF Typed, CommandFits
    <3> QED
      BY <3>1, CommandAssumption DEF Command
  <2>3. ASSUME NEW k \in DOMAIN cmd[p].ops PROVE log'[base[p] + k] = log[base[p] + k]
    <3>1. base[p] + k \in Mine(p)
      BY <1>1, <2>1, <2>2 DEF Written
    <3>2. base[p] + k \in 1..Len(log)
      BY <1>1, <3>1 DEF Mine
    <3> QED
      BY <3>2
  <2> QED
    BY <2>1, <2>3 DEF Written
<1> QED
  BY <1>2, <1>3, <1>4 DEF TruthKept

LEMMA TruthStep ==
  ASSUME Typed, NEW p \in Procs, GateKept(p), TruthKept(p), Step(p)
  PROVE  TruthKept(p)'
<1> USE DEF Finish, Goto
<1>1. ProcessType /\ CommandFits(p) /\ log \in Seq(LogEntry) /\ base[p] \in Nat
  BY DEF Typed, TypeOK, WorldType, ProcessType
<1>2. cmd' = cmd
  BY StepFrame DEF given
<1>3. pc[p] # "done" /\ cmd[p] \in Commands
  BY <1>1 DEF Step, LookInline, LookFile, ReadFile, ParseDocument, VerifyDocument,
              ReadInput, BuildOnTail, AppendEvents, LoadAndJudge, CommandFits
<1>4. Mine(p) = {} /\ ~Succeeded(p)
  BY <1>3 DEF GateKept, TruthKept
<1>5. ASSUME pc[p] # "append", base'[p] \in {base[p], Len(log)},
             Succeeded(p)' => /\ pc'[p] = "done"
                              /\ cmd[p].kind \notin {"write", "batch"}
                              /\ cmd[p].kind \in {"verify", "report"}
                                   => Replays(SubSeq(log, 1, base'[p]))
      PROVE  TruthKept(p)'
  <2>1. log' = log /\ Mine(p)' = {}
    BY <1>4, <1>5, MineAfterStep
  <2>2. base'[p] <= Len(log)
    BY <1>1, <1>5 DEF TruthKept
  <2> QED
    BY <1>2, <1>5, <2>1, <2>2 DEF TruthKept
<1>6. CASE LookInline(p)
  <2>1. ContentsFault(inline[p]) \notin {"community", "licensed"}
    BY DEF ContentsFault
  <2> QED
    BY <1>1, <1>4, <1>5, <1>6, <2>1 DEF LookInline, ProcessType, Succeeded
<1>7. CASE LookFile(p)
  <2>1. /\ pc[p] \in {"home", "project"} /\ base' = base
        /\ code'[p] \in {code[p], "LICENSE_REQUIRED"}
             \/ (code'[p] = "community" /\ pc'[p] = "done" /\ Wanted(cmd[p]) = None)
    BY <1>1, <1>7 DEF LookFile, NoLicense, ProcessType
  <2>2. Wanted(cmd[p]) = None => cmd[p].kind = "mode"
    BY <1>1, <2>1 DEF CommandFits, Asks
  <2> QED
    BY <1>4, <1>5, <2>1, <2>2 DEF Succeeded
<1>8. CASE ReadFile(p)
  <2>1. ContentsFault(files[source[p]]) \notin {"community", "licensed"}
    BY DEF ContentsFault
  <2> QED
    BY <1>1, <1>4, <1>5, <1>8, <2>1 DEF ReadFile, ProcessType, Succeeded
<1>9. CASE ParseDocument(p)
  BY <1>1, <1>4, <1>5, <1>9 DEF ParseDocument, ProcessType, Succeeded
<1>10. CASE VerifyDocument(p)
  BY <1>1, <1>4, <1>5, <1>10 DEF VerifyDocument, ProcessType, Succeeded
<1>11. CASE ReadInput(p)
  BY <1>1, <1>4, <1>5, <1>11 DEF ReadInput, ProcessType, Succeeded
<1>12. CASE BuildOnTail(p)
  <2>1. /\ pc[p] = "tail" /\ base' = [base EXCEPT ![p] = Len(log)]
        /\ (Goto(p, "append") /\ code' = code) \/ Finish(p, "INVALID_EVENT_FORMAT")
    BY <1>12 DEF BuildOnTail
  <2> QED
    BY <1>1, <1>4, <1>5, <2>1 DEF ProcessType, Succeeded
<1>13. CASE LoadAndJudge(p)
  <2>1. /\ pc[p] = "load" /\ pc'[p] = "done" /\ base'[p] = Len(log)
        /\ code'[p] = IF cmd[p].kind # "show" /\ ~Replays(log) THEN "TICK_REGRESSION" ELSE "ok"
    BY <1>1, <1>13 DEF LoadAndJudge, ProcessType
  <2>2. SubSeq(log, 1, base'[p]) = log
    BY <1>1, <2>1
  <2>3. cmd[p].kind \in {"verify", "report", "show"}
    BY <1>1, <2>1 DEF CommandFits
  <2> QED
    BY <1>5, <2>1, <2>2, <2>3 DEF Succeeded
<1>14. CASE AppendEvents(p)
  <2>1. /\ base' = base /\ code'[p] = AppendFault(p) /\ pc'[p] = "done"
        /\ cmd[p].kind \in {"write", "batch"}
    BY <1>1, <1>14 DEF AppendEvents, ProcessType, CommandFits
  <2>2. CASE AppendFault(p) = "ok"
    <3> DEFINE new == [k \in DOMAIN cmd[p].ops |-> EventOf(p, cmd[p], cmd[p].ops[k])]
    <3>1. log' = log \o new
      BY <1>14, <2>2 DEF AppendEvents
    <3>2. base[p] = Len(log)
      BY <1>1, <2>2 DEF AppendFault, TruthKept
    <3>3. new \in Seq({e \in LogEntry : e.by = p})
      BY <1>3, EventsType
    <3>4. cmd[p].ops \in Seq(Operation)
      BY <1>3, CommandAssumption DEF Command
    <3>5. /\ Len(new) = Len(cmd[p].ops) /\ DOMAIN cmd[p].ops = 1..Len(cmd[p].ops)
          /\ \A k \in DOMAIN cmd[p].ops : new[k] = EventOf(p, cmd[p], cmd[p].ops[k])
      <4>1. DOMAIN new = 1..Len(cmd[p].ops) /\ Len(cmd[p].ops) \in Nat
        BY <3>4
      <4> QED
        BY <3>3, <3>4, <4>1
    <3>6. \A k \in 1..Len(new) : new[k].by = p
      BY <3>3
    <3>7. new \in Seq(LogEntry)
      BY <3>3
    <3> HIDE DEF new
    <3>8. /\ Len(log') = Len(log) + Len(new) /\ DOMAIN log' = 1..Len(log')
          /\ \A i \in 1..Len(log) : log'[i] = log[i]
          /\ \A k \in 1..Len(new) : log'[Len(log) + k] = new[k]
      BY <1>1, <3>1, <3>7
    <3>9. Mine(p)' = base[p] + 1 .. base[p] + Len(cmd[p].ops)
      <4>1. \A i \in 1..Len(log) : log'[i].by # p
        BY <1>1, <1>4, <3>8 DEF Mine
      <4>2. \A i \in Len(log) + 1..Len(log) + Len(new) : log'[i].by = p
        <5> TAKE i \in Len(log) + 1..Len(log) + Len(new)
        <5>1. i - Len(log) \in 1..Len(new) /\ i = Len(log) + (i - Len(log))
          BY <1>1, <3>7
        <5> QED
          BY <3>6, <3>8, <5>1
      <4> QED
        BY <1>1, <3>2, <3>5, <3>7, <3>8, <4>1, <4>2 DEF Mine
    <3>10. Written(p)'
      BY <1>2, <2>1, <3>2, <3>5, <3>8, <3>9 DEF Written
    <3>11. base'[p] <= Len(log')
      BY <1>1, <2>1, <3>2, <3>7, <3>8
    <3> QED
      BY <1>2, <2>1, <2>2, <3>10, <3>11 DEF TruthKept, Succeeded
  <2>3. CASE AppendFault(p) # "ok"
    <3>1. log' = log /\ Mine(p)' = {}
      BY <1>4, <1>14, <2>3 DEF AppendEvents, Mine
    <3>2. ~Succeeded(p)'
      BY <2>1, <2>3 DEF Succeeded, AppendFault
    <3> QED
      BY <2>1, <3>1, <3>2 DEF TruthKept
  <2> QED
    BY <2>2, <2>3
<1> QED
  BY <1>6, <1>7, <1>8, <1>9, <1>10, <1>11, <1>12, <1>13, <1>14 DEF Step

LEMMA InitTruth == Init => \A p \in Procs : TruthKept(p)
<1> SUFFICES ASSUME Init, NEW p \in Procs PROVE TruthKept(p)
  OBVIOUS
<1>1. Mine(p) = {} /\ log \in Seq(LogEntry)
  BY InitGate, InitTyped DEF Init, GateKept, Typed, TypeOK, WorldType
<1> QED
  BY <1>1 DEF Init, TruthKept, Succeeded

LEMMA NextTruth ==
  Typed /\ (\A p \in Procs : GateKept(p) /\ TruthKept(p)) /\ [Next]_vars
    => \A p \in Procs : TruthKept(p)'
<1> SUFFICES ASSUME Typed, \A p \in Procs : GateKept(p) /\ TruthKept(p), [Next]_vars,
                    NEW p \in Procs
             PROVE  TruthKept(p)'
  OBVIOUS
<1>1. GateKept(p) /\ TruthKept(p) /\ ProcessType /\ GivenType /\ log \in Seq(LogEntry)
  BY DEF Typed, TypeOK, WorldType
<1>2. ASSUME NEW q \in Procs, Step(q) PROVE TruthKept(p)'
  <2>1. CASE q = p
    BY <1>1, <1>2, <2>1, TruthStep
  <2>2. CASE q # p
    <3>1. cmd' = cmd
      BY <1>2, StepFrame DEF given
    <3>2. pc'[p] = pc[p] /\ base'[p] = base[p] /\ Succeeded(p)' = Succeeded(p)
      BY <1>1, <1>2, <2>2, OthersKept DEF Succeeded
    <3>3. Mine(p)' = Mine(p)
      BY <1>2, <2>2, LogKept
    <3>4. Mine(p) # {} => Succeeded(p)'
      BY <1>1, <3>2 DEF TruthKept
    <3> QED
      BY <1>1, <1>2, <3>1, <3>2, <3>3, <3>4, LogKept, TruthGrows
  <2> QED
    BY <2>1, <2>2
<1>3. ASSUME NEW q \in Procs, NEW c \in Commands, NEW doc \in Inlines, NEW set \in BOOLEAN,
             Start(q, c, doc, set)
      PROVE  TruthKept(p)'
  <2>1. /\ log' = log /\ base' = base /\ code' = code /\ Mine(p)' = Mine(p)
        /\ Succeeded(p)' = Succeeded(p)
    BY <1>3 DEF Start, Mine, Succeeded
  <2>2. CASE q = p
    <3>1. ~Succeeded(p) /\ Mine(p) = {}
      BY <1>1, <1>3, <2>2 DEF Start, TruthKept
    <3> QED
      BY <1>1, <2>1, <3>1 DEF TruthKept
  <2>3. CASE q # p
    <3>1. pc'[p] = pc[p] /\ cmd'[p] = cmd[p]
      BY <1>1, <1>3, <2>3 DEF Start, GivenType, ProcessType, Goto
    <3> QED
      BY <1>1, <2>1, <3>1 DEF TruthKept, Written
  <2> QED
    BY <2>2, <2>3
<1>4. ASSUME UNCHANGED <<log, base, code, pc, cmd>> PROVE TruthKept(p)'
  BY <1>1, <1>4 DEF TruthKept, Written, Succeeded, Mine
<1>5. CASE TimePasses
  BY <1>4, <1>5 DEF TimePasses, given
<1>6. ASSUME NEW place \in Places, NEW content \in Stored, EditLicense(place, content)
      PROVE  TruthKept(p)'
  BY <1>4, <1>6 DEF EditLicense
<1>7. CASE UNCHANGED vars
  BY <1>4, <1>7 DEF vars
<1> QED
  BY <1>2, <1>3, <1>5, <1>6, <1>7 DEF Next

\* For any number of processes: a command that exits 0 has put all its events
\* into the log, side by side, or judged a log that replays; one that exits
\* with another code has left nothing in it (main.rs, exit_code).
THEOREM ExitCodesTrue == Spec => []ExitTellsTruth
<1> DEFINE Inv == Typed /\ \A p \in Procs : GateKept(p) /\ TruthKept(p)
<1>1. Init => Inv
  BY InitTyped, InitGate, InitTruth
<1>2. Inv /\ [Next]_vars => Inv'
  BY NextTyped, NextGate, NextTruth
<1>3. Inv => ExitTellsTruth
  <2> SUFFICES ASSUME Inv, NEW p \in Procs, pc[p] = "done"
               PROVE  LET c == cmd[p]
                          writes == c.kind \in {"write", "batch"}
                      IN  /\ writes /\ Succeeded(p) =>
                               /\ Mine(p) = base[p] + 1 .. base[p] + Len(c.ops)
                               /\ \A k \in DOMAIN c.ops :
                                    log[base[p] + k] = EventOf(p, c, c.ops[k])
                          /\ ~writes \/ ~Succeeded(p) => Mine(p) = {}
                          /\ c.kind \in {"verify", "report"} =>
                               (Succeeded(p) => Replays(SubSeq(log, 1, base[p])))
    BY Exits DEF ExitTellsTruth, Succeeded
  <2> QED
    BY DEF TruthKept, Written
<1> QED
  BY <1>1, <1>2, <1>3, PTL DEF Spec
=============================================================================
