-------------------------------- MODULE Program --------------------------------
(***************************************************************************)
(* main and its StatusReporter: the command line, the stages of a run with    *)
(* the operations the solvers open inside them, an exception thrown anywhere,  *)
(* and what is reported of it all.                                           *)
(*                                                                         *)
(* What a stage does to the solver is in the other modules; here it succeeds  *)
(* or throws.  Elapsed times and wording are left out.  The JSON library is   *)
(* external: it refuses to write a message that is not UTF-8.                *)
(***************************************************************************)
EXTENDS Naturals, Sequences

CONSTANTS
  ArgLists,   \* command lines, without the program's name
  Ranks,      \* the MPI world sizes to start with
  Inner,      \* the operations solvers open inside stages, in turn; bounded
  MaxDepth,   \* bound on how deep they nest
  MaxPrints   \* bound on what solvers print

Values == {"0", "1", "2"}
Verbosity(value) == CASE value = "0" -> 0 [] value = "1" -> 1 [] value = "2" -> 2

\* What may stand on a command line; -h is --help, any other name config.json.
Words == {"--help", "--version", "--output-directory", "--verbosity", "--machine-readable",
          "--other", "config.json"} \cup Values

\* The steps of main behind the argument loop, in order; operation is the name of
\* the one reported, or none where a step runs outside of any.  The solver may open
\* operations in a step that runs it, and report and print in one that calls it.
Step(operation, solver) == [operation |-> operation, solver |-> solver]
Unreported == "unreported"
Stages == <<
  Step("configuration loading", "idle"),
  Step(Unreported, "idle"),                 \* the command line's output directory
  Step("configuration validation", "idle"),
  Step(Unreported, "idle"),                 \* decoding
  Step(Unreported, "idle"),                 \* the mesh file exists
  Step("mesh loading", "idle"),
  Step("configuration validation", "idle"),
  Step("solver creation", "idle"),
  Step("solver setup", "runs"),
  Step("solution process", "runs"),
  Step("analysis result writing", "called")>>
Decoding == 4

ASSUME WordsAssumption == ArgLists \subseteq Seq(Words) /\ Ranks \subseteq Nat

ASSUME BoundsAssumption == MaxDepth \in Nat /\ MaxPrints \in Nat

\* No solver calls an operation what main calls a stage.
ASSUME InnerAssumption ==
  /\ Inner \in Seq(STRING)
  /\ \A i \in DOMAIN Inner : \A s \in DOMAIN Stages : Inner[i] # Stages[s].operation

VARIABLES
  args, ranks,      \* the input
  pc,
  next,             \* i of the argument loop
  machine,          \* machine_readable_requested
  explicit,         \* verbosity_explicit
  cli_verbosity,
  format, verbosity,  \* the reporter's
  stage,
  operations,       \* the Operation objects alive: [name, exception_count]
  uncaught,         \* std::uncaught_exceptions()
  thrown,           \* what is in flight
  line,             \* MessageBuffer's line_ holds text
  events,           \* what was written
  exit,
  nested, prints    \* counters for the bounds

options == <<machine, explicit, cli_verbosity>>
reporter == <<format, verbosity, line>>
bounds == <<nested, prints>>
pvars == <<args, ranks, pc, next, options, reporter, stage, operations, uncaught, thrown,
           events, exit, bounds>>

\* An exception: std tells whether it derives from std::exception, utf8 whether its
\* message can be written as JSON.
Exceptions == {[std |-> TRUE, utf8 |-> TRUE], [std |-> TRUE, utf8 |-> FALSE],
               [std |-> FALSE, utf8 |-> TRUE]}
StdException == [std |-> TRUE, utf8 |-> TRUE]

\* An operation's event has its name; what a message says is left out.
Message == "message"
Event(kind, name) == [kind |-> kind, name |-> name, format |-> format]
Write(kind, name) == events' = Append(events, Event(kind, name))

Throw(e) ==
  /\ uncaught' = 1
  /\ thrown' = e
  /\ pc' = "unwinding"

-----------------------------------------------------------------------------
(* The command line.                                                       *)

Flagged(list) == \E i \in DOMAIN list : list[i] = "--machine-readable"
Prescanned == Flagged(args)

Prescan ==
  /\ pc = "start"
  /\ machine' = Prescanned
  /\ format' = IF Prescanned THEN "json" ELSE "text"
  /\ IF ranks > 1 THEN Throw(StdException) ELSE pc' = "arguments" /\ UNCHANGED <<uncaught, thrown>>
  /\ UNCHANGED <<args, ranks, next, explicit, cli_verbosity, verbosity, line, stage, operations,
                 events, exit, bounds>>

Arg == args[next]
HasValue == next < Len(args)

Argument ==
  /\ pc = "arguments" /\ next <= Len(args)
  /\ \/ /\ Arg \in {"--help", "--version"}
        /\ IF Arg = "--version" THEN events' = Append(events, [kind |-> "version", name |-> Message,
                                                               format |-> "text"])
                                ELSE UNCHANGED events
        /\ exit' = "0" /\ pc' = "ended"
        /\ UNCHANGED <<next, options, format, uncaught, thrown>>
     \/ /\ Arg = "--output-directory" /\ HasValue
        /\ next' = next + 2
        /\ UNCHANGED <<pc, options, format, uncaught, thrown, events, exit>>
     \/ /\ Arg = "--verbosity" /\ HasValue /\ args[next + 1] \in Values
        /\ cli_verbosity' = Verbosity(args[next + 1])
        /\ explicit' = TRUE
        /\ next' = next + 2
        /\ UNCHANGED <<pc, machine, format, uncaught, thrown, events, exit>>
     \/ /\ \/ Arg \in {"--output-directory", "--verbosity"} /\ ~HasValue
           \/ Arg = "--verbosity" /\ HasValue /\ args[next + 1] \notin Values
           \/ Arg = "--other"
        /\ \E e \in {x \in Exceptions : x.std} : Throw(e)
        /\ UNCHANGED <<next, options, format, events, exit>>
     \/ /\ Arg = "--machine-readable"
        /\ machine' = TRUE
        /\ next' = next + 1
        /\ UNCHANGED <<pc, explicit, cli_verbosity, format, uncaught, thrown, events, exit>>
     \/ /\ Arg \in Values \cup {"config.json"}
        /\ next' = next + 1
        /\ UNCHANGED <<pc, options, format, uncaught, thrown, events, exit>>
  /\ UNCHANGED <<args, ranks, verbosity, line, stage, operations, bounds>>

Level == IF machine /\ ~explicit THEN 1 ELSE cli_verbosity

\* The build identity is reported first.
ArgumentsDone ==
  /\ pc = "arguments" /\ next > Len(args)
  /\ verbosity' = Level
  /\ Write("status", Message)
  /\ stage' = 1
  /\ pc' = "diagnostic"
  /\ UNCHANGED <<args, ranks, next, options, format, line, operations, uncaught, thrown,
                 exit, bounds>>

DiagnosticsEnabled == verbosity >= 2

\* StatusReporter::Diagnostic
Diagnostic == IF DiagnosticsEnabled THEN Write("diagnostic", Message) ELSE UNCHANGED events

\* Diagnostic("Config file: ..."); the path may not resolve, a file name may be any bytes.
ConfigDiagnostic ==
  /\ pc = "diagnostic"
  /\ \/ Diagnostic /\ pc' = "stage" /\ UNCHANGED <<uncaught, thrown>>
     \/ (\E e \in {x \in Exceptions : x.std} : Throw(e)) /\ UNCHANGED events
  /\ UNCHANGED <<args, ranks, next, options, reporter, stage, operations, exit, bounds>>

-----------------------------------------------------------------------------
(* Stages and operations.                                                  *)

Operation(name) == Append(operations, [name |-> name, exception_count |-> uncaught])

\* Faulty: an operation fails only if another one did.
Outcome_OffByOne(o) == IF uncaught > o.exception_count + 1 THEN "failed" ELSE "completed"

Outcome(o) == IF uncaught > o.exception_count THEN "failed" ELSE "completed"

\* Objects are destroyed in the reverse order of their construction.
Ending == operations[Len(operations)]

\* ~Operation
EndOperation ==
  /\ Write(Outcome(Ending), Ending.name)
  /\ operations' = SubSeq(operations, 1, Len(operations) - 1)

Current == Stages[stage]
Running == pc = "stage" /\ stage <= Len(Stages)
InStage == Running /\ operations # <<>>

StartStage ==
  /\ Running /\ operations = <<>> /\ Current.operation # Unreported
  /\ Write("started", Current.operation)
  /\ operations' = Operation(Current.operation)
  /\ UNCHANGED <<args, ranks, pc, next, options, reporter, stage, uncaught, thrown, exit, bounds>>

\* Behind the decoding, Diagnostic("Mesh file: ...").
FinishStage ==
  /\ Running
  /\ \/ /\ Current.operation = Unreported
        /\ IF stage = Decoding THEN Diagnostic ELSE UNCHANGED events
        /\ UNCHANGED operations
     \/ Current.operation # Unreported /\ Len(operations) = 1 /\ EndOperation
  /\ stage' = stage + 1
  /\ UNCHANGED <<args, ranks, pc, next, options, reporter, uncaught, thrown, exit, bounds>>

\* A solver opens an operation: a scenario, a factorization, a linear solve.
StartNested ==
  /\ InStage /\ Current.solver = "runs"
  /\ nested < Len(Inner) /\ Len(operations) <= MaxDepth
  /\ LET name == Inner[nested + 1] IN
     /\ Write("started", name)
     /\ operations' = Operation(name)
  /\ nested' = nested + 1
  /\ UNCHANGED <<args, ranks, pc, next, options, reporter, stage, uncaught, thrown, exit, prints>>

FinishNested ==
  /\ InStage /\ Len(operations) > 1
  /\ EndOperation
  /\ UNCHANGED <<args, ranks, pc, next, options, reporter, stage, uncaught, thrown, exit, bounds>>

SolverOutputEnabled == verbosity >= 1

Messages == InStage /\ Current.solver # "idle" /\ prints < MaxPrints

\* A solver reports: by Status or Warning, or by Diagnostic.
SolverReports ==
  /\ Messages
  /\ Write("status", Message) \/ Diagnostic
  /\ prints' = prints + 1
  /\ UNCHANGED <<args, ranks, pc, next, options, reporter, stage, operations, uncaught, thrown,
                 exit, nested>>

\* A solve whose load is zero warns on mfem::out whatever the verbosity is, in a line of
\* its own or behind what the line holds.
PrintedWarning == "warning"
SolverWarns ==
  /\ Messages /\ Current.solver = "runs"
  /\ events' = Append(events, [kind |-> "solver", name |-> PrintedWarning,
                              format |-> IF machine THEN "json" ELSE "text"])
  /\ line' = FALSE
  /\ prints' = prints + 1
  /\ UNCHANGED <<args, ranks, pc, next, options, format, verbosity, stage, operations, uncaught,
                 thrown, exit, nested>>

\* A solver prints text, a part of a line or the end of one.  mfem::out goes to the
\* reporter's buffer in a machine-readable run, which drops empty lines.
SolverPrints ==
  /\ Messages /\ SolverOutputEnabled
  /\ \E newline \in BOOLEAN :
       \/ /\ machine /\ ~newline /\ line' = TRUE /\ UNCHANGED events
       \/ /\ machine /\ newline /\ line' = FALSE
          /\ IF line THEN Write("solver", Message) ELSE UNCHANGED events
       \/ /\ ~machine /\ newline
          /\ events' = Append(events, [kind |-> "solver", name |-> Message, format |-> "text"])
          /\ UNCHANGED line
  /\ prints' = prints + 1
  /\ UNCHANGED <<args, ranks, pc, next, options, format, verbosity, stage, operations, uncaught,
                 thrown, exit, nested>>

\* Anything a step calls may throw, while operations are open or not.  The mesh
\* loading replaces an MFEM error by one of its own, inside its operation.
Fail ==
  /\ Running
  /\ operations # <<>> \/ Current.operation = Unreported
  /\ \E e \in Exceptions : Throw(e)
  /\ UNCHANGED <<args, ranks, next, options, reporter, stage, operations, events, exit, bounds>>

\* return 0
Return ==
  /\ pc = "stage" /\ stage > Len(Stages)
  /\ exit' = "0" /\ pc' = "ended"
  /\ UNCHANGED <<args, ranks, next, options, reporter, stage, operations, uncaught, thrown,
                 events, bounds>>

Unwind ==
  /\ pc = "unwinding" /\ operations # <<>>
  /\ EndOperation
  /\ UNCHANGED <<args, ranks, pc, next, options, reporter, stage, uncaught, thrown, exit, bounds>>

ExitCode == IF thrown.std THEN "1" ELSE "2"

\* The handlers report an error and return 1 or 2.  The JSON library throws out of
\* the handler, and so out of main, on a message that is not UTF-8.
Catch ==
  /\ pc = "unwinding" /\ operations = <<>>
  /\ IF format = "json" /\ ~thrown.utf8
     THEN exit' = "terminated" /\ uncaught' = 1 /\ UNCHANGED events
     ELSE exit' = ExitCode /\ uncaught' = 0 /\ Write("error", Message)
  /\ pc' = "ended"
  /\ UNCHANGED <<args, ranks, next, options, reporter, stage, operations, thrown, bounds>>

PInit ==
  /\ args \in ArgLists /\ ranks \in Ranks
  /\ pc = "start" /\ next = 1
  /\ machine = FALSE /\ explicit = FALSE /\ cli_verbosity = 0
  /\ format = "text" /\ verbosity = 0 /\ line = FALSE
  /\ stage = 0 /\ operations = <<>> /\ uncaught = 0 /\ thrown = StdException
  /\ events = <<>> /\ exit = "none" /\ nested = 0 /\ prints = 0

PNext ==
  \/ Prescan \/ Argument \/ ArgumentsDone \/ ConfigDiagnostic
  \/ StartStage \/ FinishStage \/ StartNested \/ FinishNested
  \/ SolverReports \/ SolverWarns \/ SolverPrints \/ Fail \/ Return
  \/ Unwind \/ Catch

PSpec == PInit /\ [][PNext]_pvars

-----------------------------------------------------------------------------
(* Properties.                                                             *)

Kinds == {"started", "completed", "failed", "status", "diagnostic", "solver", "error", "version"}
StageNames == {Stages[s].operation : s \in DOMAIN Stages}
InnerNames == {Inner[i] : i \in DOMAIN Inner}
EventNames == StageNames \cup InnerNames \cup {Message, PrintedWarning}
Events == [kind : Kinds, name : EventNames, format : {"text", "json"}]
Operations == [name : EventNames, exception_count : {0}]

\* The type of every variable.
PTypeOK ==
  /\ args \in ArgLists /\ ranks \in Ranks
  /\ pc \in {"start", "arguments", "diagnostic", "stage", "unwinding", "ended"}
  /\ next \in 1 .. Len(args) + 1 /\ stage \in 0 .. Len(Stages) + 1
  /\ machine \in BOOLEAN /\ explicit \in BOOLEAN /\ line \in BOOLEAN
  /\ cli_verbosity \in 0..2 /\ verbosity \in 0..2 /\ format \in {"text", "json"}
  /\ operations \in Seq(Operations) /\ events \in Seq(Events)
  /\ uncaught \in {0, 1} /\ thrown \in Exceptions
  /\ exit \in {"none", "terminated", "0", "1", "2"} /\ (exit = "none" <=> pc # "ended")
  /\ nested \in 0..Len(Inner) /\ prints \in 0..MaxPrints

\* Progress is all in the format asked for, from an error in the first argument on:
\* solvers' own output is no exception.
OneFormat ==
  \A i \in DOMAIN events :
    events[i].kind # "version" => events[i].format = IF Prescanned THEN "json" ELSE "text"

\* What a reader has in mind behind an event who keeps the operations begun and not yet
\* ended, <<"?">> after an end that is not the innermost one's.
ReadEvent(open, e) ==
  CASE e.kind = "started" -> Append(open, e.name)
    [] e.kind \in {"completed", "failed"} ->
         IF open # <<>> /\ open[Len(open)] = e.name THEN SubSeq(open, 1, Len(open) - 1)
         ELSE <<"?">>
    [] OTHER -> open

\* The operations open behind the first n of the events read.
OpenAfter(read, n) ==
  LET open[k \in Nat] ==
        IF k = 0 THEN <<>> ELSE LET before == open[k - 1] IN ReadEvent(before, read[k])
  IN open[n]

\* Whoever reads the events sees operations properly nested, each ended by its own
\* event, whether they return or unwind, and none left open at the end.
OperationsNest ==
  /\ OpenAfter(events, Len(events)) = [i \in DOMAIN operations |-> operations[i].name]
  /\ pc = "ended" => operations = <<>>

\* The names of the first n steps or events that are in M, in order.
NamesUpTo(name, M, n) ==
  LET listed[k \in Nat] ==
        IF k = 0 THEN <<>>
        ELSE IF k \in M THEN Append(listed[k - 1], name[k]) ELSE listed[k - 1]
  IN listed[n]

Reported == {s \in DOMAIN Stages : Stages[s].operation # Unreported}
CompletedStages ==
  {i \in DOMAIN events : /\ events[i].kind = "completed"
                         /\ \E s \in Reported : Stages[s].operation = events[i].name}

LeftBehind == IF stage = 0 THEN 0 ELSE stage - 1

\* The stages called completed are those main has left behind, in order: neither one
\* that an exception cut short nor, after a success, fewer than all.
StagesAreReported ==
  /\ NamesUpTo([i \in DOMAIN events |-> events[i].name], CompletedStages, Len(events))
       = NamesUpTo([s \in DOMAIN Stages |-> Stages[s].operation], Reported, LeftBehind)
  /\ pc = "ended" /\ exit = "0" /\ stage > 0 => stage > Len(Stages)

Failures == {i \in DOMAIN events : events[i].kind \in {"failed", "error"}}

\* A run fails or succeeds as a whole.  What was open when it was cut short, behind
\* event cut, is reported failed, innermost first and nothing else after that; a success
\* has neither a failed operation nor an error, a failure one error, last.
FailureIsNamed ==
  /\ \A i \in DOMAIN events : events[i].kind = "failed" =>
       \A j \in i .. Len(events) : j \in Failures
  /\ pc = "ended" =>
       \E cut \in 0 .. Len(events) :
         LET open == OpenAfter(events, cut)
             failed == Len(open) IN
         /\ \A i \in Failures : i > cut
         /\ \A i \in 1..failed : /\ cut + i <= Len(events)
                                 /\ events[cut + i].kind = "failed"
                                 /\ events[cut + i].name = open[failed + 1 - i]
         /\ exit = "0" => cut = Len(events)
         /\ exit = "terminated" => cut + failed = Len(events)
         /\ exit \in {"1", "2"} => /\ cut + failed + 1 = Len(events)
                                   /\ events[Len(events)].kind = "error"

\* The arguments main reads as such: not those that are the value of the one before.
IsRead(list, i) ==
  LET read[k \in Nat] ==
        IF k <= 1 THEN TRUE
        ELSE ~(read[k - 1] /\ list[k - 1] \in {"--output-directory", "--verbosity"})
  IN read[i]

VerbositiesGiven(list) == {i \in 1 .. Len(list) : IsRead(list, i) /\ list[i] = "--verbosity"}

\* The verbosity a command line asks for: the last one given counts.
AskedBy(list) ==
  LET last == CHOOSE i \in VerbositiesGiven(list) : \A j \in VerbositiesGiven(list) : j <= i IN
  IF VerbositiesGiven(list) # {} THEN Verbosity(list[last + 1]) ELSE IF Flagged(list) THEN 1 ELSE 0
Asked == AskedBy(args)

\* README.md: 0 is status only, 1 adds solver output, 2 diagnostics; the flag implies
\* 1 unless a verbosity is given, wherever the two stand on the command line.  Only
\* a warning that is printed heeds no verbosity.
VerbosityAsAsked ==
  stage > 0 =>
    /\ verbosity = Asked
    /\ \A i \in DOMAIN events :
         /\ events[i].kind = "solver" /\ events[i].name # PrintedWarning => Asked >= 1
         /\ events[i].kind = "diagnostic" => Asked = 2

\* What the program reports of a run is true of it, whatever is thrown and wherever:
\* nesting, stages, outcome, format and verbosity.
StatusIsTrue ==
  /\ PTypeOK /\ OneFormat /\ OperationsNest /\ StagesAreReported /\ FailureIsNamed
  /\ VerbosityAsAsked
===============================================================================
