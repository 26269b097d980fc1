------------------------------ MODULE Sidecar ------------------------------
(***************************************************************************)
(* The commands of the GUI and the backend process that serves them        *)
(* (lib.rs, sidecar_server.py).  A command is sent to the process; if that *)
(* fails or takes too long the process is stopped, started again and asked *)
(* once more, and at last the command runs in a process of its own.  One   *)
(* mutex guards the handle of the process, a flag outside of it says       *)
(* whether the process is ready; threads of each process read its output   *)
(* and write its input, and outlive it.                                    *)
(*                                                                         *)
(* A command whose handler raises is answered like any other.  The backend *)
(* is one operating system process.                                        *)
(***************************************************************************)
EXTENDS Naturals, FiniteSets

CONSTANTS
  Command,     \* commands, each issued once
  Launch,      \* the threads that start the sidecar with the GUI: one, or none
  None,        \* nobody
  MaxStarts,   \* bound: processes started
  MaxCrashes   \* bound: processes that end by themselves

SidecarAssumption ==
  /\ Launch \cap Command = {} /\ None \notin Command \cup Launch
  /\ MaxStarts \in Nat \ {0} /\ MaxCrashes \in Nat

Caller == Command \cup Launch
Process == 1 .. MaxStarts

VARIABLES
  current,   \* SIDECAR_PROCESS, 0 when there is none
  holder,    \* who holds its lock over several steps
  isReady,   \* SIDECAR_READY
  started,   \* processes started so far
  process,
  step,      \* where a caller is
  attempt,   \* 1, or 2 from the restart on
  target,    \* the process that a caller asks or kills
  died,
  late       \* history: commands whose second attempt timed out

vars == <<current, holder, isReady, started, process, step, attempt, target, died, late>>

Steps == {"idle", "check", "send", "await", "mark", "take", "kill", "start", "wait", "subprocess", "done"}

Processes == [state : {"none", "starting", "serving", "dead"},
              reader : BOOLEAN, writer : BOOLEAN,   \* its threads
              queued : SUBSET Command,              \* requests on their way in
              running : SUBSET Command,             \* handlers in progress
              out : SUBSET (Command \cup {None})]   \* lines on their way out, None is the ready line

TypeOK ==
  /\ current \in 0 .. MaxStarts /\ started \in 0 .. MaxStarts /\ died \in 0 .. MaxCrashes
  /\ holder \in Caller \cup {None} /\ isReady \in BOOLEAN
  /\ process \in [Process -> Processes]
  /\ step \in [Caller -> Steps] /\ attempt \in [Caller -> {1, 2}]
  /\ target \in [Caller -> 0 .. MaxStarts] /\ late \subseteq Command
  /\ \A c \in Caller : target[c] # 0 <=> step[c] \in {"await", "kill"}
  /\ \A c \in Caller : holder = c <=> step[c] = "kill"

Unborn == [state |-> "none", reader |-> FALSE, writer |-> FALSE, queued |-> {}, running |-> {}, out |-> {}]

Alive(g) == process[g].state \in {"starting", "serving"}

\* The launch thread begins with start_sidecar.
Init ==
  /\ current = 0 /\ holder = None /\ isReady = FALSE /\ started = 0 /\ died = 0 /\ late = {}
  /\ process = [g \in Process |-> Unborn]
  /\ step = [c \in Caller |-> IF c \in Launch THEN "start" ELSE "idle"]
  /\ attempt = [c \in Caller |-> IF c \in Launch THEN 2 ELSE 1]
  /\ target = [c \in Caller |-> 0]

Goto(c, s) == step' = [step EXCEPT ![c] = s]

\* Where a caller goes that gives up the sidecar.
Elsewhere(c) == IF c \in Launch THEN "done" ELSE "subprocess"

\* Where it goes when a request fails: the first time it stops the sidecar.
Failed(c) == IF attempt[c] = 1 THEN "mark" ELSE "subprocess"

-----------------------------------------------------------------------------
(* sidecar_execute *)

\* A command is issued, or asks again after the restart.
Check(c) ==
  /\ step[c] \in {"idle", "check"}
  /\ Goto(c, IF isReady THEN "send" ELSE Failed(c))
  /\ UNCHANGED <<current, holder, isReady, started, process, attempt, target, died, late>>

\* The request goes to the process of the moment, if its writer still runs.
Send(c) ==
  /\ step[c] = "send" /\ holder = None
  /\ IF current \in {g \in Process : process[g].writer}
     THEN /\ process' = [process EXCEPT ![current].queued = @ \cup {c}]
          /\ target' = [target EXCEPT ![c] = current] /\ Goto(c, "await")
     ELSE Goto(c, Failed(c)) /\ UNCHANGED <<process, target>>
  /\ UNCHANGED <<current, holder, isReady, started, attempt, died, late>>

\* Mutant of Timeout: the answer is awaited for ever.
TimeoutNever(c) == FALSE /\ UNCHANGED vars

Timeout(c) ==
  /\ step[c] = "await" /\ holder = None
  /\ Goto(c, Failed(c)) /\ target' = [target EXCEPT ![c] = 0]
  /\ late' = IF attempt[c] = 2 THEN late \cup {c} ELSE late
  /\ UNCHANGED <<current, holder, isReady, started, process, attempt, died>>

-----------------------------------------------------------------------------
(* stop_sidecar *)

Mark(c) ==
  /\ step[c] = "mark" /\ Goto(c, "take")
  /\ isReady' = FALSE
  /\ UNCHANGED <<current, holder, started, process, attempt, target, died, late>>

\* Where a caller goes that has stopped the sidecar: it starts it again, or had done so.
Stopped(c) == IF attempt[c] = 1 THEN "start" ELSE Elsewhere(c)

\* Mutant of Take: the lock is released before the process has ended.
TakeUnlocked(c) ==
  /\ step[c] = "take" /\ holder = None
  /\ IF current = 0
     THEN Goto(c, Stopped(c)) /\ UNCHANGED target
     ELSE Goto(c, "kill") /\ target' = [target EXCEPT ![c] = current]
  /\ current' = 0
  /\ UNCHANGED <<holder, isReady, started, process, attempt, died, late>>

\* The process of the moment is taken, whoever started it.
Take(c) ==
  /\ step[c] = "take" /\ holder = None
  /\ IF current = 0
     THEN Goto(c, Stopped(c)) /\ UNCHANGED <<holder, target>>
     ELSE Goto(c, "kill") /\ holder' = c /\ target' = [target EXCEPT ![c] = current]
  /\ current' = 0
  /\ UNCHANGED <<isReady, started, process, attempt, died, late>>

\* Mutant of Kill: the process is told to shut down and left alone.
Abandon(c) ==
  /\ step[c] = "kill" /\ Goto(c, Stopped(c))
  /\ holder' = None /\ target' = [target EXCEPT ![c] = 0]
  /\ UNCHANGED <<current, isReady, started, process, attempt, died, late>>

Dead(g) == process' = [process EXCEPT ![g].state = "dead", ![g].running = {}]

Kill(c) ==
  /\ step[c] = "kill" /\ Goto(c, Stopped(c))
  /\ holder' = None /\ target' = [target EXCEPT ![c] = 0]
  /\ Dead(target[c])
  /\ UNCHANGED <<current, isReady, started, attempt, died, late>>

-----------------------------------------------------------------------------
(* start_sidecar *)

\* A process that somebody else has started is taken as it is.
StartNothing(c) ==
  /\ step[c] = "start" /\ holder = None /\ current # 0
  /\ Goto(c, IF c \in Launch THEN "done" ELSE "check")
  /\ attempt' = [attempt EXCEPT ![c] = 2]
  /\ UNCHANGED <<current, holder, isReady, started, process, target, died, late>>

Start(c) ==
  LET g == started + 1 IN
  /\ step[c] = "start" /\ holder = None /\ current = 0 /\ started < MaxStarts
  /\ Goto(c, "wait") /\ attempt' = [attempt EXCEPT ![c] = 2]
  /\ process' = [process EXCEPT ![g].state = "starting", ![g].reader = TRUE, ![g].writer = TRUE]
  /\ current' = g /\ started' = g
  /\ UNCHANGED <<holder, isReady, target, died, late>>

StartFails(c) ==
  /\ step[c] = "start" /\ holder = None /\ current = 0
  /\ Goto(c, Elsewhere(c))
  /\ UNCHANGED <<current, holder, isReady, started, process, attempt, target, died, late>>

\* The flag is set, by the process that was started or by an older one.
Started(c) ==
  /\ step[c] = "wait" /\ isReady
  /\ Goto(c, IF c \in Launch THEN "done" ELSE "check")
  /\ UNCHANGED <<current, holder, isReady, started, process, attempt, target, died, late>>

StartTimeout(c) ==
  /\ step[c] = "wait" /\ ~isReady
  /\ Goto(c, "mark")
  /\ UNCHANGED <<current, holder, isReady, started, process, attempt, target, died, late>>

\* fallback_subprocess_execute ends.
SubprocessEnds(c) ==
  /\ step[c] = "subprocess" /\ Goto(c, "done")
  /\ UNCHANGED <<current, holder, isReady, started, process, attempt, target, died, late>>

-----------------------------------------------------------------------------
(* The threads of a process *)

ReadReady(g) ==
  /\ process[g].reader /\ None \in process[g].out
  /\ process' = [process EXCEPT ![g].out = @ \ {None}]
  /\ isReady' = TRUE
  /\ UNCHANGED <<current, holder, started, step, attempt, target, died, late>>

\* A response is dropped if its command has given up meanwhile.
ReadResponse(g, c) ==
  /\ process[g].reader /\ None \notin process[g].out /\ c \in process[g].out
  /\ process' = [process EXCEPT ![g].out = @ \ {c}]
  /\ step' = IF step[c] = "await" /\ target[c] = g THEN [step EXCEPT ![c] = "done"] ELSE step
  /\ target' = IF step[c] = "await" /\ target[c] = g THEN [target EXCEPT ![c] = 0] ELSE target
  /\ UNCHANGED <<current, holder, isReady, started, attempt, died, late>>

\* At the end of the output the flag is cleared, whichever process is the current
\* one by now, and the requests that are pending fail.
ReaderEnds(g) ==
  LET waiting == {c \in Caller : step[c] = "await" /\ target[c] = g} IN
  /\ process[g].state = "dead" /\ process[g].reader /\ process[g].out = {}
  /\ process' = [process EXCEPT ![g].reader = FALSE]
  /\ isReady' = FALSE
  /\ step' = [c \in Caller |-> IF c \in waiting THEN Failed(c) ELSE step[c]]
  /\ target' = [c \in Caller |-> IF c \in waiting THEN 0 ELSE target[c]]
  /\ UNCHANGED <<current, holder, started, attempt, died, late>>

\* The writer ends when a write fails, or when nobody can send any more.
WriterEnds(g) ==
  /\ process[g].state = "dead" /\ process[g].writer
  /\ process[g].queued # {} \/ (g \notin {current} \cup {target[c] : c \in Caller})
  /\ process' = [process EXCEPT ![g].writer = FALSE, ![g].queued = {}]
  /\ isReady' = FALSE
  /\ UNCHANGED <<current, holder, started, step, attempt, target, died, late>>

-----------------------------------------------------------------------------
(* The backend *)

Announce(g) ==
  /\ process[g].state = "starting"
  /\ process' = [process EXCEPT ![g].state = "serving", ![g].out = @ \cup {None}]
  /\ UNCHANGED <<current, holder, isReady, started, step, attempt, target, died, late>>

\* Requests are handled concurrently.
Serve(g, c) ==
  /\ process[g].state = "serving" /\ process[g].writer /\ c \in process[g].queued
  /\ process' = [process EXCEPT ![g].queued = @ \ {c}, ![g].running = @ \cup {c}]
  /\ UNCHANGED <<current, holder, isReady, started, step, attempt, target, died, late>>

\* A response to a command that does not wait for it any more is left out.
Respond(g, c) ==
  LET awaited == step[c] = "await" /\ target[c] = g IN
  /\ c \in process[g].running
  /\ process' = [process EXCEPT ![g].running = @ \ {c}, ![g].out = IF awaited THEN @ \cup {c} ELSE @]
  /\ UNCHANGED <<current, holder, isReady, started, step, attempt, target, died, late>>

Die(g) ==
  /\ Alive(g) /\ died < MaxCrashes
  /\ Dead(g) /\ died' = died + 1
  /\ UNCHANGED <<current, holder, isReady, started, step, attempt, target, late>>

-----------------------------------------------------------------------------
Progress(c) ==
  \/ (step[c] = "check" /\ Check(c)) \/ Send(c) \/ Mark(c) \/ Take(c) \/ Kill(c)
  \/ StartNothing(c) \/ Start(c) \/ StartFails(c) \/ Started(c) \/ StartTimeout(c)
  \/ SubprocessEnds(c)

Threads(g) ==
  ReadReady(g) \/ (\E c \in Command : ReadResponse(g, c)) \/ ReaderEnds(g) \/ WriterEnds(g)

Next ==
  \/ \E c \in Command : Check(c) \/ Timeout(c)
  \/ \E c \in Caller : Progress(c)
  \/ \E g \in Process :
       \/ Threads(g) \/ Announce(g) \/ Die(g)
       \/ \E c \in Command : Serve(g, c) \/ Respond(g, c)

\* The GUI, its timers and its threads run, and a process that is started for one
\* command ends.  The sidecar may crash or hang, and so may each of its handlers.
Fairness ==
  /\ \A c \in Caller : WF_vars(Progress(c))
  /\ \A c \in Command : WF_vars(Timeout(c))
  /\ \A g \in Process : WF_vars(Threads(g))

Spec == Init /\ [][Next]_vars /\ Fairness

-----------------------------------------------------------------------------
(* Properties *)

\* A command that is tried again never runs beside its earlier attempt, whoever
\* stops and starts the process meanwhile: but for one whose second attempt takes
\* too long, which goes on in the sidecar while the same command runs in a process
\* of its own.
NoOverlap ==
  \A c \in Command \ late :
    LET places == {g \in Process : c \in process[g].running} IN
    /\ Cardinality(places) <= 1
    /\ step[c] = "subprocess" => places = {}

\* Every command of the GUI is answered, even if its handler hangs, the process
\* cannot be started or other commands stop it again and again.  (It stays answered, so
\* that it is enough to look again and again.)
Answered == []<>(\A c \in Command : step[c] \in {"idle", "done"})

=============================================================================
