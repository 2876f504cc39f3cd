--------------------------------- MODULE Cli ---------------------------------
(***************************************************************************)
(* The tri-sync command line (main.rs): each process runs one command      *)
(* against one log, behind the license gate where the command asks for it. *)
(* License files come and go, time passes and other processes append while *)
(* a command runs.  The log is the sequence that DurableLog shows the      *)
(* files to implement; an append or a load is one step here.               *)
(***************************************************************************)
EXTENDS License, Sequences, FiniteSets

CONSTANTS
  Procs,         \* the processes, each of which runs one command
  Namespaces,    \* the tenants, and the default of commands that ask for none
  Commands,      \* the commands they may be given
  Inlines,       \* what TRISYNC_LICENSE may hold: contents, or Missing (unset)
  Stored,        \* what a license file may hold, or Missing
  EarlierFiles,  \* the license files there may be at the start
  EarlierLogs,   \* what the log may hold at the start
  Nobody,        \* the writer of those events
  MaxTime,       \* bound: the clock stops here
  MaxEdits       \* bound: changes of license files

Kinds == {"write", "batch", "verify", "report", "show", "mode"}

\* An operation: its tick, and whether its key passes validate_key.
Operation == [tick: Nat, valid: BOOLEAN]
Command == [kind: Kinds, production: BOOLEAN, ns: Namespaces, ops: Seq(Operation)]

ASSUME CommandAssumption ==
  /\ Commands \subseteq Command
  /\ \A c \in Commands : c.kind = "write" => Len(c.ops) = 1

\* Which process appended an event, and what replay looks at.
EventOf(p, c, op) == [by |-> p, ns |-> c.ns, tick |-> op.tick]

ASSUME EarlierAssumption ==
  /\ Nobody \notin Procs
  /\ EarlierLogs \subseteq Seq([by: {Nobody}, ns: Namespaces, tick: Nat])

\* In the order of resolve_license_file_path, after the variable that holds a
\* document.
Places == {"custom", "home", "project"}
ASSUME FilesAssumption ==
  /\ Inlines \union Stored \subseteq Contents
  /\ EarlierFiles \subseteq [Places -> Contents]

Rank == [inline |-> 1, custom |-> 2, home |-> 3, project |-> 4]

VARIABLES
  clock,    \* seconds since the epoch
  files,    \* the license files
  log,      \* the event log
  cmd,      \* the command of each process
  inline,   \* TRISYNC_LICENSE of each process
  custom,   \* whether its TRISYNC_LICENSE_FILE is set
  pc,       \* where each process is
  source,   \* where it looks for a license; None before it has decided
  text,     \* what it has read there
  base,     \* the length of the log when it read the tail
  code,     \* its result
  began,    \* history: the clock when it started
  steady,   \* history: the license files that were there ever since it started
  edits     \* bound

vars == <<clock, files, log, cmd, inline, custom, pc, source, text, base, code,
          began, steady, edits>>
world == <<clock, files, edits>>
given == <<cmd, inline, custom, began, steady>>

IdleCommand == [kind |-> "show", production |-> FALSE, ns |-> "none", ops |-> << >>]

Present(f) == {s \in {"home", "project"} : f[s] # Missing}

Init ==
  /\ clock = 0
  /\ files \in EarlierFiles
  /\ log \in EarlierLogs
  /\ cmd = [p \in Procs |-> IdleCommand]
  /\ inline = [p \in Procs |-> Missing]
  /\ custom = [p \in Procs |-> FALSE]
  /\ pc = [p \in Procs |-> "idle"]
  /\ source = [p \in Procs |-> None]
  /\ text = [p \in Procs |-> Missing]
  /\ base = [p \in Procs |-> 0]
  /\ code = [p \in Procs |-> "running"]
  /\ began = [p \in Procs |-> 0]
  /\ steady = [p \in Procs |-> {}]
  /\ edits = 0

-----------------------------------------------------------------------------
(* Which commands are gated, and what comes after the gate. *)

\* Production only for apply-batch: a gate that forgets apply and delete.
Wanted_BatchOnly(c) ==
  IF c.kind = "report" THEN "compliance-reporting"
  ELSE IF c.kind = "batch" /\ c.production THEN "commercial-production"
  ELSE None

\* required_license_feature of the feature a command asks for.
Wanted(c) ==
  IF c.kind = "report" THEN "compliance-reporting"
  ELSE IF c.kind \in {"write", "batch"} /\ c.production THEN "commercial-production"
  ELSE None

\* current_mode looks for a license too, but may do without.
Asks(c) == Wanted(c) # None \/ c.kind = "mode"

AfterGate(c) ==
  CASE c.kind = "batch" -> "input"
    [] c.kind = "write" -> "tail"
    [] c.kind \in {"verify", "report", "show"} -> "load"
    [] OTHER -> "done"

Goto(p, label) == pc' = [pc EXCEPT ![p] = label]

Finish(p, result) ==
  /\ code' = [code EXCEPT ![p] = result]
  /\ Goto(p, "done")

\* A command starts, in the environment it was given, which only a command that
\* asks for a license looks at.
Start(p, c, doc, set) ==
  /\ pc[p] = "idle"
  /\ ~Asks(c) => doc = Missing /\ ~set
  /\ cmd' = [cmd EXCEPT ![p] = c]
  /\ inline' = [inline EXCEPT ![p] = doc]
  /\ custom' = [custom EXCEPT ![p] = set]
  /\ began' = [began EXCEPT ![p] = clock]
  /\ steady' = [steady EXCEPT ![p] = Present(files)]
  /\ Goto(p, IF Asks(c) THEN "gate" ELSE AfterGate(c))
  /\ UNCHANGED <<world, log, source, text, base, code>>

-----------------------------------------------------------------------------
(* require_enterprise_detailed, current_mode and check_detailed: the lookup  *)
(* and the two checks, each of which reads the clock.                        *)

\* load_license_source up to the file: the environment decides alone.
LookInline(p) ==
  /\ pc[p] = "gate"
  /\ IF inline[p] # Missing
     THEN /\ source' = [source EXCEPT ![p] = "inline"]
          /\ IF ContentsFault(inline[p]) # "ok"
             THEN Finish(p, ContentsFault(inline[p])) /\ UNCHANGED text
             ELSE /\ text' = [text EXCEPT ![p] = inline[p]]
                  /\ Goto(p, "parse")
                  /\ UNCHANGED code
     ELSE /\ IF custom[p]
             THEN source' = [source EXCEPT ![p] = "custom"] /\ Goto(p, "read")
             ELSE Goto(p, "home") /\ UNCHANGED source
          /\ UNCHANGED <<text, code>>
  /\ UNCHANGED <<world, given, log, base>>

\* Nothing was found: community mode, unless a feature was asked for.
NoLicense(p) ==
  IF Wanted(cmd[p]) = None THEN Finish(p, "community") ELSE Finish(p, "LICENSE_REQUIRED")

\* The project's file looked for first.
LookFile_ProjectFirst(p) ==
  \E s \in {"home", "project"} :
    /\ pc[p] = s
    /\ LET other == IF s = "home" THEN "project" ELSE "home" IN
       IF files[other] # Missing
       THEN source' = [source EXCEPT ![p] = other] /\ Goto(p, "read") /\ UNCHANGED code
       ELSE /\ UNCHANGED source
            /\ IF s = "home" THEN Goto(p, "project") /\ UNCHANGED code ELSE NoLicense(p)
    /\ UNCHANGED <<world, given, log, text, base>>

\* exists() of the candidate in the home directory, then of the project's.
LookFile(p) ==
  \E s \in {"home", "project"} :
    /\ pc[p] = s
    /\ IF files[s] # Missing
       THEN source' = [source EXCEPT ![p] = s] /\ Goto(p, "read") /\ UNCHANGED code
       ELSE /\ UNCHANGED source
            /\ IF s = "home" THEN Goto(p, "project") /\ UNCHANGED code ELSE NoLicense(p)
    /\ UNCHANGED <<world, given, log, text, base>>

\* read_to_string of the file decided on: it may be gone by now.
ReadFile(p) ==
  /\ pc[p] = "read"
  /\ text' = [text EXCEPT ![p] = files[source[p]]]
  /\ IF ContentsFault(files[source[p]]) # "ok"
     THEN Finish(p, ContentsFault(files[source[p]]))
     ELSE Goto(p, "parse") /\ UNCHANGED code
  /\ UNCHANGED <<world, given, log, source, base>>

ParseDocument(p) ==
  /\ pc[p] = "parse"
  /\ IF Parses(text[p], clock)
     THEN Goto(p, "verify") /\ UNCHANGED code
     ELSE Finish(p, "LICENSE_INVALID")
  /\ UNCHANGED <<world, given, log, source, text, base>>

VerifyDocument(p) ==
  /\ pc[p] = "verify"
  /\ IF ~Verifies(text[p], Wanted(cmd[p]), clock) THEN Finish(p, "LICENSE_INVALID")
     ELSE IF cmd[p].kind = "mode" THEN Finish(p, "licensed")
     ELSE Goto(p, AfterGate(cmd[p])) /\ UNCHANGED code
  /\ UNCHANGED <<world, given, log, source, text, base>>

-----------------------------------------------------------------------------
(* The commands behind the gate. *)

\* read_batch_operations; no operation at all stands for unreadable input too.
ReadInput(p) ==
  /\ pc[p] = "input"
  /\ IF cmd[p].ops = << >>
     THEN Finish(p, "INVALID_EVENT_FORMAT")
     ELSE Goto(p, "tail") /\ UNCHANGED code
  /\ UNCHANGED <<world, given, log, source, text, base>>

\* Keys that are validated only when their turn comes.
BuildOnTail_Lazy(p) ==
  /\ pc[p] = "tail"
  /\ base' = [base EXCEPT ![p] = Len(log)]
  /\ LET ops == cmd[p].ops
         first == CHOOSE n \in 0..Len(ops) :
                    /\ \A k \in 1..n : ops[k].valid
                    /\ n < Len(ops) => ~ops[n + 1].valid
     IN  IF first = Len(ops) THEN Goto(p, "append") /\ UNCHANGED <<code, log>>
         ELSE /\ log' = log \o [k \in 1..first |-> EventOf(p, cmd[p], ops[k])]
              /\ Finish(p, "INVALID_EVENT_FORMAT")
  /\ UNCHANGED <<world, given, source, text>>

\* tail_metadata, and the events built on it: every key is validated.
BuildOnTail(p) ==
  /\ pc[p] = "tail"
  /\ base' = [base EXCEPT ![p] = Len(log)]
  /\ IF \A k \in DOMAIN cmd[p].ops : cmd[p].ops[k].valid
     THEN Goto(p, "append") /\ UNCHANGED code
     ELSE Finish(p, "INVALID_EVENT_FORMAT")
  /\ UNCHANGED <<world, given, log, source, text>>

\* The guards of append_batch, met by a batch built on the tail that was read.
AppendFault(p) ==
  IF base[p] < Len(log) THEN "SEQUENCE_COLLISION"
  ELSE IF log # << >> /\ log[1].ns # cmd[p].ns THEN "NAMESPACE_BREACH"
  ELSE "ok"

AppendEvents(p) ==
  /\ pc[p] = "append"
  /\ log' = IF AppendFault(p) = "ok"
            THEN log \o [k \in DOMAIN cmd[p].ops |-> EventOf(p, cmd[p], cmd[p].ops[k])]
            ELSE log
  /\ Finish(p, AppendFault(p))
  /\ UNCHANGED <<world, given, source, text, base>>

\* Replay of events the program wrote itself: byte values of one type, deletes
\* that are idempotent, one chain.  Only their ticks can be wrong, since no
\* command looks at the ticks in the log before it appends.
Replays(events) ==
  \A i, j \in DOMAIN events :
    i < j /\ events[j].tick > 0 => events[i].tick <= events[j].tick

\* verify, replay and report fail with the replay; status, inspect and export
\* do not.
LoadAndJudge(p) ==
  /\ pc[p] = "load"
  /\ Finish(p, IF cmd[p].kind # "show" /\ ~Replays(log) THEN "TICK_REGRESSION" ELSE "ok")
  /\ base' = [base EXCEPT ![p] = Len(log)]
  /\ UNCHANGED <<world, given, log, source, text>>

-----------------------------------------------------------------------------
(* The world around. *)

TimePasses ==
  /\ clock < MaxTime
  /\ clock' = clock + 1
  /\ UNCHANGED <<files, edits, given, log, pc, source, text, base, code>>

\* A license file is installed, replaced or removed.
EditLicense(place, content) ==
  /\ edits < MaxEdits
  /\ files[place] # content
  /\ files' = [files EXCEPT ![place] = content]
  /\ edits' = edits + 1
  /\ steady' = [p \in Procs |-> IF content = Missing THEN steady[p] \ {place} ELSE steady[p]]
  /\ UNCHANGED <<clock, cmd, inline, custom, began, log, pc, source, text, base, code>>

Step(p) ==
  \/ LookInline(p) \/ LookFile(p) \/ ReadFile(p)
  \/ ParseDocument(p) \/ VerifyDocument(p)
  \/ ReadInput(p) \/ BuildOnTail(p) \/ AppendEvents(p) \/ LoadAndJudge(p)

Next ==
  \/ \E p \in Procs : Step(p)
  \/ \E p \in Procs, c \in Commands, doc \in Inlines, set \in BOOLEAN : Start(p, c, doc, set)
  \/ TimePasses
  \/ \E place \in Places, content \in Stored : EditLicense(place, content)

Spec == Init /\ [][Next]_vars

-----------------------------------------------------------------------------
(* Properties. *)

Mine(p) == {i \in DOMAIN log : log[i].by = p}

\* ProtocolViolationError::exit_code and LicenseError::exit_code.
ExitCode(c) ==
  CASE c \in {"ok", "community", "licensed"} -> 0
    [] c \in LicenseCodes -> 3
    [] c = "INVALID_EVENT_FORMAT" -> 4
    [] c \in {"SEQUENCE_COLLISION", "NAMESPACE_BREACH"} -> 5
    [] OTHER -> 6

\* What a production command put into the log, and what a report gave out, was
\* covered by a genuine document that grants it, in force at some time while the
\* command ran: whatever happened to the files and the clock meanwhile.
LicensedEffects ==
  \A p \in Procs :
    LET c == cmd[p]
        needs == IF c.kind = "report" THEN "compliance-reporting" ELSE "commercial-production"
    IN  /\ c.production \/ c.kind = "report"
        /\ Mine(p) # {} \/ (c.kind = "report" /\ code[p] = "ok")
        => /\ text[p] \in Document
           /\ text[p].genuine /\ needs \in text[p].features
           /\ \E t \in began[p]..clock :
                t >= text[p].issued /\ (text[p].expires = None \/ t <= text[p].expires)

\* The license decided on is the first in the documented order: no source that
\* was there all the time since the command started is passed over, not for a
\* later one and not for community mode, even if what it holds is of no use.
FirstSourceWins ==
  \A p \in Procs :
    LET there == (IF inline[p] # Missing THEN {"inline"} ELSE {})
                   \union (IF custom[p] THEN {"custom"} ELSE {}) \union steady[p]
    IN  /\ source[p] # None => \A s \in there : Rank[source[p]] <= Rank[s]
        /\ code[p] \in {"community", "LICENSE_REQUIRED"} => there = {}

\* The exit code says what happened to the log: success means that all the
\* events of the command are in it, in order and side by side, or that what was
\* judged replays; any other code, that the command left nothing in it.
ExitTellsTruth ==
  \A p \in Procs : pc[p] = "done" =>
    LET c == cmd[p]
        writes == c.kind \in {"write", "batch"}
    IN  /\ writes /\ ExitCode(code[p]) = 0 =>
             /\ Mine(p) = base[p] + 1 .. base[p] + Len(c.ops)
             /\ \A k \in DOMAIN c.ops : log[base[p] + k] = EventOf(p, c, c.ops[k])
        /\ ~writes \/ ExitCode(code[p]) # 0 => Mine(p) = {}
        /\ c.kind \in {"verify", "report"} =>
             (ExitCode(code[p]) = 0 => Replays(SubSeq(log, 1, base[p])))
=============================================================================
