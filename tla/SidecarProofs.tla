----------------------------- MODULE SidecarProofs -----------------------------
(***************************************************************************)
(* Proofs about Sidecar, Speech and GroupChat in the specification of      *)
(* MCSidecar, for every value of its constants.                            *)
(***************************************************************************)
EXTENDS MCSidecar, SequenceTheorems, FiniteSetTheorems, TLAPS

-----------------------------------------------------------------------------
(* Sidecar: the inductive invariant *)

\* Process g is given command c, or runs it.
Has(g, c) == c \in process[g].queued \cup process[g].running

\* Where no process that is alive has the command: before a request, and from the moment
\* that the process of the first one was stopped.
Withdrawn(c) ==
  \/ step[c] \in {"idle", "check", "send", "start", "wait", "subprocess"}
  \/ attempt[c] = 2 /\ step[c] \in {"mark", "take", "kill"}

\* At most one process is alive, which is the current one or is being stopped; handlers run
\* in it only.
OneAlive ==
  /\ \A g \in B!Process : B!Alive(g) => g = IF holder = None THEN current ELSE target[holder]
  /\ holder # None => current = 0
  /\ current <= started /\ \A c \in B!Caller : target[c] <= started
  /\ \A g \in B!Process : g > started => process[g] = B!Unborn
  /\ \A g \in B!Process : process[g].running # {} => B!Alive(g)

\* Only the process that is asked for an answer has the command.
AskedOnce ==
  \A c \in Command \ late, g \in B!Process : B!Alive(g) /\ Has(g, c) =>
    ~Withdrawn(c) /\ (step[c] = "await" => g = target[c])

\* The thread that starts the sidecar with the GUI asks for nothing.
LaunchOnly ==
  \A c \in Launch : step[c] \in {"start", "wait", "mark", "take", "kill", "done"} /\ attempt[c] = 2

SidecarInv ==
  /\ B!TypeOK
  /\ LaunchOnly
  /\ OneAlive
  /\ AskedOnce

LEMMA SidecarConstants ==
  /\ Launch \cap Command = {} /\ None \notin B!Caller
  /\ MaxStarts \in Nat \ {0} /\ MaxCrashes \in Nat
BY SidecarAssumptions DEF B!SidecarAssumption, B!Caller

LEMMA SidecarInit ==
  ASSUME B!Init
  PROVE  SidecarInv
<1>1. B!TypeOK
  <2>1. \A c \in B!Caller : step[c] \in {"idle", "start"} /\ target[c] = 0 /\ holder # c
    BY SidecarConstants DEF B!Init
  <2>2. 0 \in 0 .. MaxStarts /\ 0 \in 0 .. MaxCrashes
    BY SidecarConstants
  <2>3. /\ step \in [B!Caller -> B!Steps] /\ attempt \in [B!Caller -> {1, 2}]
        /\ target \in [B!Caller -> 0 .. MaxStarts]
    BY <2>2 DEF B!Init, B!Steps
  <2>4. process \in [B!Process -> B!Processes]
    BY DEF B!Init, B!Unborn, B!Processes
  <2>5. current = 0 /\ holder = None /\ isReady = FALSE /\ started = 0 /\ died = 0 /\ late = {}
    BY DEF B!Init
  <2> QED BY <2>1, <2>2, <2>3, <2>4, <2>5 DEF B!TypeOK
<1>2. \A g \in B!Process : process[g] = B!Unborn /\ ~B!Alive(g)
  BY DEF B!Init, B!Unborn, B!Alive
<1>3. LaunchOnly
  BY DEF B!Init, LaunchOnly, B!Caller
<1> QED BY <1>1, <1>2, <1>3 DEF B!Init, SidecarInv, OneAlive, AskedOnce, B!Unborn

\* Steps of one caller that leave the processes alone: the command goes on from a place
\* where it is withdrawn, or to one where it need not be.
LEMMA CallerMoves ==
  ASSUME SidecarInv, NEW c \in B!Caller, NEW s \in B!Steps, B!Goto(c, s),
         step[c] # "kill", s # "kill", s # "await",
         UNCHANGED <<current, holder, started, process, died>>,
         isReady' \in BOOLEAN, late' \in {late, late \cup {c}}, late' \subseteq Command,
         attempt' \in [B!Caller -> {1, 2}], \A d \in B!Caller : d # c => attempt'[d] = attempt[d],
         target' = [target EXCEPT ![c] = 0],
         c \in Launch => s \in {"wait", "mark", "take", "done"} /\ attempt'[c] = 2,
         \/ Withdrawn(c)
         \/ c \in late'
         \/ attempt'[c] = 1 /\ s \in {"mark", "take"}
         \/ \A g \in B!Process : ~B!Alive(g)
         \/ s = "done"
  PROVE  SidecarInv'
<1>1. B!TypeOK /\ OneAlive /\ AskedOnce /\ LaunchOnly
  BY DEF SidecarInv
<1>2. /\ step' \in [B!Caller -> B!Steps] /\ step'[c] = s /\ target'[c] = 0
      /\ \A d \in B!Caller : d # c => step'[d] = step[d] /\ target'[d] = target[d]
      /\ target' \in [B!Caller -> 0 .. MaxStarts]
  BY <1>1, SidecarConstants DEF B!TypeOK, B!Goto
<1>3. holder # c
  BY <1>1 DEF B!TypeOK
<1>4. B!TypeOK'
  <2>1. \A d \in B!Caller : (target'[d] # 0 <=> step'[d] \in {"await", "kill"}) /\ (holder = d <=> step'[d] = "kill")
    BY <1>1, <1>2 DEF B!TypeOK
  <2> QED BY <1>1, <1>2, <2>1 DEF B!TypeOK
<1>5. OneAlive'
  <2>1. holder # None => target'[holder] = target[holder]
    BY <1>1, <1>2, <1>3 DEF B!TypeOK
  <2>2. holder' = holder /\ current' = current /\ started' = started /\ process' = process
    OBVIOUS
  <2>3. \A d \in B!Caller : target'[d] <= started
    BY <1>1, <1>2, SidecarConstants DEF OneAlive, B!TypeOK
  <2> QED BY <1>1, <2>1, <2>2, <2>3 DEF OneAlive, B!Alive
<1>6. AskedOnce'
  <2> SUFFICES ASSUME NEW d \in Command \ late', NEW g \in B!Process, B!Alive(g), Has(g, d)
               PROVE  ~Withdrawn(d)' /\ (step'[d] = "await" => g = target'[d])
    BY DEF AskedOnce, B!Alive, Has
  <2>1. d \in Command \ late /\ d \in B!Caller
    BY DEF B!Caller
  <2>2. ~Withdrawn(d) /\ (step[d] = "await" => g = target[d])
    BY <1>1, <2>1 DEF AskedOnce
  <2>3. CASE d # c
    BY <1>2, <2>1, <2>2, <2>3 DEF Withdrawn
  <2>4. CASE d = c
    BY <1>2, <2>1, <2>2, <2>4 DEF Withdrawn
  <2> QED BY <2>3, <2>4
<1>7. LaunchOnly'
  <2> SUFFICES ASSUME NEW d \in Launch
               PROVE  step'[d] \in {"start", "wait", "mark", "take", "kill", "done"} /\ attempt'[d] = 2
    BY DEF LaunchOnly
  <2> QED BY <1>1, <1>2 DEF LaunchOnly, B!Caller
<1> QED BY <1>4, <1>5, <1>6, <1>7 DEF SidecarInv

\* Steps that leave the callers alone, and start no process and give none a command.
LEMMA ProcessesMove ==
  ASSUME SidecarInv, UNCHANGED <<current, holder, started, step, attempt, target, late>>,
         isReady' \in BOOLEAN, died' \in 0 .. MaxCrashes, process' \in [B!Process -> B!Processes],
         \A g \in B!Process :
           /\ B!Alive(g)' => B!Alive(g) /\ \A c \in Command : Has(g, c)' => Has(g, c)
           /\ process'[g].running # {} => B!Alive(g)'
           /\ process[g] = B!Unborn => process'[g] = B!Unborn
  PROVE  SidecarInv'
<1>1. B!TypeOK /\ OneAlive /\ AskedOnce /\ LaunchOnly
  BY DEF SidecarInv
<1>2. B!TypeOK'
  BY <1>1 DEF B!TypeOK
<1>3. OneAlive'
  <2>1. \A g \in B!Process : B!Alive(g)' => g = IF holder' = None THEN current' ELSE target'[holder']
    BY <1>1 DEF OneAlive
  <2>2. \A g \in B!Process : g > started' => process'[g] = B!Unborn
    BY <1>1 DEF OneAlive
  <2> QED BY <1>1, <2>1, <2>2 DEF OneAlive
<1>4. AskedOnce'
  <2> SUFFICES ASSUME NEW c \in Command \ late', NEW g \in B!Process, B!Alive(g)', Has(g, c)'
               PROVE  ~Withdrawn(c)' /\ (step'[c] = "await" => g = target'[c])
    BY DEF AskedOnce
  <2>1. B!Alive(g) /\ Has(g, c)
    OBVIOUS
  <2> QED BY <1>1, <2>1 DEF AskedOnce, Withdrawn
<1>5. LaunchOnly'
  BY <1>1 DEF LaunchOnly
<1> QED BY <1>2, <1>3, <1>4, <1>5 DEF SidecarInv

\* Where a caller is.
LEMMA CallerIs ==
  ASSUME SidecarInv, NEW c \in B!Caller
  PROVE  /\ c # None /\ step[c] \in B!Steps /\ attempt[c] \in {1, 2}
         /\ step[c] \notin {"await", "kill"} => target[c] = 0 /\ target = [target EXCEPT ![c] = 0]
         /\ step[c] \in {"idle", "check", "send", "await", "subprocess"} => c \in Command
         /\ holder = c <=> step[c] = "kill"
         /\ c \notin Launch => c \in Command
         /\ c \in Launch => attempt[c] = 2
BY SidecarConstants DEF SidecarInv, B!TypeOK, LaunchOnly, B!Caller

\* Steps of a caller that touch nothing but where it is.
LEMMA CallerSteps ==
  ASSUME SidecarInv, NEW c \in B!Caller,
         B!Check(c) \/ B!Mark(c) \/ B!StartNothing(c) \/ B!StartFails(c) \/ B!Started(c)
           \/ B!StartTimeout(c) \/ B!SubprocessEnds(c) \/ B!Timeout(c)
  PROVE  SidecarInv'
<1>1. B!TypeOK
  BY DEF SidecarInv
<1>2. isReady \in BOOLEAN /\ late \subseteq Command /\ attempt \in [B!Caller -> {1, 2}]
  BY <1>1 DEF B!TypeOK
<1>3. CASE B!Check(c)
  <2>1. PICK s \in {"send", "mark", "subprocess"} : B!Goto(c, s) /\ (s = "mark" => attempt[c] = 1)
    BY <1>3 DEF B!Check, B!Failed
  <2>2. s \in B!Steps /\ c \notin Launch /\ step[c] \in {"idle", "check"}
    BY <1>3, CallerIs, SidecarConstants DEF B!Check, B!Steps
  <2> QED BY <1>2, <1>3, <2>1, <2>2, CallerIs, CallerMoves DEF B!Check, Withdrawn
<1>4. CASE B!Mark(c)
  <2>1. "take" \in B!Steps
    BY DEF B!Steps
  <2> QED BY <1>2, <1>4, <2>1, CallerIs, CallerMoves DEF B!Mark, Withdrawn
<1>5. CASE B!StartNothing(c)
  <2>1. PICK s \in {"check", "done"} : B!Goto(c, s) /\ (c \in Launch => s = "done")
    BY <1>5 DEF B!StartNothing
  <2>2. s \in B!Steps
    BY DEF B!Steps
  <2>3. attempt' \in [B!Caller -> {1, 2}] /\ attempt'[c] = 2 /\ \A d \in B!Caller : d # c => attempt'[d] = attempt[d]
    BY <1>2, <1>5 DEF B!StartNothing
  <2> QED BY <1>2, <1>5, <2>1, <2>2, <2>3, CallerIs, CallerMoves DEF B!StartNothing, Withdrawn
<1>6. CASE B!StartFails(c)
  <2>1. PICK s \in {"subprocess", "done"} : B!Goto(c, s) /\ (c \in Launch => s = "done")
    BY <1>6 DEF B!StartFails, B!Elsewhere
  <2>2. s \in B!Steps
    BY DEF B!Steps
  <2> QED BY <1>2, <1>6, <2>1, <2>2, CallerIs, CallerMoves DEF B!StartFails, Withdrawn
<1>7. CASE B!Started(c)
  <2>1. PICK s \in {"check", "done"} : B!Goto(c, s) /\ (c \in Launch => s = "done")
    BY <1>7 DEF B!Started
  <2>2. s \in B!Steps
    BY DEF B!Steps
  <2> QED BY <1>2, <1>7, <2>1, <2>2, CallerIs, CallerMoves DEF B!Started, Withdrawn
<1>8. CASE B!StartTimeout(c)
  <2>1. "mark" \in B!Steps
    BY DEF B!Steps
  <2> QED BY <1>2, <1>8, <2>1, CallerIs, CallerMoves DEF B!StartTimeout, Withdrawn
<1>9. CASE B!SubprocessEnds(c)
  <2>1. "done" \in B!Steps
    BY DEF B!Steps
  <2> QED BY <1>2, <1>9, <2>1, CallerIs, CallerMoves DEF B!SubprocessEnds, Withdrawn
<1>10. CASE B!Timeout(c)
  <2>1. PICK s \in {"mark", "subprocess"} : /\ B!Goto(c, s) /\ (s = "mark" => attempt[c] = 1)
                                            /\ (s = "subprocess" => attempt[c] = 2)
    BY <1>10, CallerIs DEF B!Timeout, B!Failed
  <2>2. s \in B!Steps /\ c \in Command /\ c \notin Launch
    BY <1>10, CallerIs, SidecarConstants DEF B!Timeout, B!Steps
  <2>3. late' \in {late, late \cup {c}} /\ late' \subseteq Command /\ (attempt[c] = 2 => c \in late')
    BY <1>2, <1>10, <2>2 DEF B!Timeout
  <2> QED BY <1>2, <1>10, <2>1, <2>2, <2>3, CallerIs, CallerMoves DEF B!Timeout, Withdrawn
<1> QED BY <1>3, <1>4, <1>5, <1>6, <1>7, <1>8, <1>9, <1>10

LEMMA SidecarSend ==
  ASSUME SidecarInv, NEW c \in B!Caller, B!Send(c)
  PROVE  SidecarInv'
<1>1. B!TypeOK /\ OneAlive /\ AskedOnce /\ LaunchOnly
  BY DEF SidecarInv
<1>2. /\ step[c] = "send" /\ holder = None /\ c \in Command /\ c \notin Launch /\ attempt[c] \in {1, 2}
      /\ isReady \in BOOLEAN /\ late \subseteq Command /\ attempt \in [B!Caller -> {1, 2}]
      /\ Withdrawn(c)
  BY <1>1, CallerIs, SidecarConstants DEF B!Send, B!TypeOK, Withdrawn
<1>3. CASE current \notin {g \in B!Process : process[g].writer}
  <2>1. PICK s \in {"mark", "subprocess"} : B!Goto(c, s) /\ UNCHANGED <<process, target>>
    BY <1>2, <1>3 DEF B!Send, B!Failed
  <2>2. s \in B!Steps
    BY DEF B!Steps
  <2>3. UNCHANGED <<current, holder, isReady, started, attempt, died, late>>
    BY DEF B!Send
  <2> QED BY <1>2, <2>1, <2>2, <2>3, CallerIs, CallerMoves
<1>4. CASE current \in {g \in B!Process : process[g].writer}
  <2>1. /\ process' = [process EXCEPT ![current].queued = @ \cup {c}]
        /\ target' = [target EXCEPT ![c] = current] /\ B!Goto(c, "await")
        /\ UNCHANGED <<current, holder, isReady, started, attempt, died, late>>
    BY <1>4 DEF B!Send
  <2>2. /\ current \in B!Process /\ current # 0 /\ current \in 0 .. MaxStarts
        /\ process[current] \in B!Processes
    BY <1>1, <1>4, SidecarConstants DEF B!Process, B!TypeOK
  <2>3. /\ process' \in [B!Process -> B!Processes]
        /\ \A g \in B!Process : process'[g].state = process[g].state /\ process'[g].running = process[g].running
        /\ \A g \in B!Process : \A d : d # c => (d \in process'[g].queued <=> d \in process[g].queued)
        /\ \A g \in B!Process : g # current => process'[g] = process[g]
    BY <1>1, <1>2, <2>1, <2>2 DEF B!TypeOK, B!Processes
  <2>4. /\ step' \in [B!Caller -> B!Steps] /\ target' \in [B!Caller -> 0 .. MaxStarts]
        /\ step'[c] = "await" /\ target'[c] = current
        /\ \A d \in B!Caller : d # c => step'[d] = step[d] /\ target'[d] = target[d]
    BY <1>1, <2>1, <2>2 DEF B!TypeOK, B!Goto, B!Steps
  <2>5. B!TypeOK'
    <3>1. \A d \in B!Caller : /\ target'[d] # 0 <=> step'[d] \in {"await", "kill"}
                              /\ holder' = d <=> step'[d] = "kill"
      BY <1>1, <1>2, <2>1, <2>2, <2>4, CallerIs DEF B!TypeOK
    <3> QED BY <1>1, <2>1, <2>3, <2>4, <3>1 DEF B!TypeOK
  <2>6. \A g \in B!Process : B!Alive(g)' <=> B!Alive(g)
    BY <2>3 DEF B!Alive
  <2>7. OneAlive'
    <3>1. \A g \in B!Process : B!Alive(g)' => g = current
      BY <1>1, <1>2, <2>6 DEF OneAlive
    <3>2. \A g \in B!Process : g > started => g # current
      BY <1>1, <2>2 DEF OneAlive, B!TypeOK, B!Process
    <3>3. \A g \in B!Process : process'[g].running # {} => B!Alive(g)'
      BY <1>1, <2>3, <2>6 DEF OneAlive
    <3>4. \A d \in B!Caller : target'[d] <= started
      BY <1>1, <2>4 DEF OneAlive
    <3> QED BY <1>1, <1>2, <2>1, <2>3, <3>1, <3>2, <3>3, <3>4 DEF OneAlive
  <2>8. AskedOnce'
    <3> SUFFICES ASSUME NEW d \in Command \ late', NEW g \in B!Process, B!Alive(g), Has(g, d)'
                 PROVE  ~Withdrawn(d)' /\ (step'[d] = "await" => g = target'[d])
      BY <2>6 DEF AskedOnce
    <3>1. CASE d = c
      <4>1. g = current
        BY <1>1, <1>2 DEF OneAlive
      <4> QED BY <2>4, <3>1, <4>1 DEF Withdrawn
    <3>2. CASE d # c
      <4>1. Has(g, d) /\ d \in Command \ late /\ d \in B!Caller
        BY <2>1, <2>3, <3>2 DEF Has, B!Caller
      <4> QED BY <1>1, <2>1, <2>4, <3>2, <4>1 DEF AskedOnce, Withdrawn
    <3> QED BY <3>1, <3>2
  <2>9. LaunchOnly'
    BY <1>1, <1>2, <2>1, <2>4 DEF LaunchOnly, B!Caller
  <2> QED BY <2>5, <2>7, <2>8, <2>9 DEF SidecarInv
<1> QED BY <1>3, <1>4

LEMMA SidecarTake ==
  ASSUME SidecarInv, NEW c \in B!Caller, B!Take(c)
  PROVE  SidecarInv'
<1>1. B!TypeOK /\ OneAlive /\ AskedOnce /\ LaunchOnly
  BY DEF SidecarInv
<1>2. /\ step[c] = "take" /\ holder = None /\ current' = 0 /\ attempt[c] \in {1, 2}
      /\ c # None /\ target[c] = 0
      /\ UNCHANGED <<isReady, started, process, attempt, died, late>>
  BY CallerIs DEF B!Take
<1>3. PICK s \in {"start", "done", "subprocess", "kill"} :
        /\ B!Goto(c, s)
        /\ s = "start" => attempt[c] = 1
        /\ c \in Launch => s \in {"done", "kill"}
        /\ IF current = 0 THEN s # "kill" /\ UNCHANGED <<holder, target>>
                          ELSE s = "kill" /\ holder' = c /\ target' = [target EXCEPT ![c] = current]
  BY CallerIs DEF B!Take, B!Stopped, B!Elsewhere
<1>4. /\ step' \in [B!Caller -> B!Steps] /\ target' \in [B!Caller -> 0 .. MaxStarts] /\ step'[c] = s
      /\ \A d \in B!Caller : d # c => step'[d] = step[d] /\ target'[d] = target[d]
      /\ target'[c] = current
  BY <1>1, <1>2, <1>3 DEF B!TypeOK, B!Goto, B!Steps
<1>5. holder' = IF current = 0 THEN None ELSE c
  BY <1>2, <1>3
<1>6. B!TypeOK'
  <2>1. \A d \in B!Caller : /\ target'[d] # 0 <=> step'[d] \in {"await", "kill"}
                            /\ holder' = d <=> step'[d] = "kill"
    <3>1. \A d \in B!Caller : step[d] # "kill" /\ d # None
      BY <1>1, <1>2, SidecarConstants DEF B!TypeOK
    <3> SUFFICES ASSUME NEW d \in B!Caller
                 PROVE  /\ target'[d] # 0 <=> step'[d] \in {"await", "kill"}
                        /\ holder' = d <=> step'[d] = "kill"
      OBVIOUS
    <3>2. CASE d # c
      BY <1>1, <1>4, <1>5, <3>1, <3>2 DEF B!TypeOK
    <3>3. CASE d = c
      BY <1>2, <1>3, <1>4, <1>5, <3>3
    <3> QED BY <3>2, <3>3
  <2>2. current' \in 0 .. MaxStarts /\ holder' \in B!Caller \cup {None}
    BY <1>2, <1>5, SidecarConstants
  <2> QED BY <1>1, <1>2, <1>4, <2>1, <2>2 DEF B!TypeOK
<1>7. \A g \in B!Process : B!Alive(g)' <=> B!Alive(g)
  BY <1>2 DEF B!Alive
<1>8. \A g \in B!Process : B!Alive(g) => g = current /\ current # 0
  BY <1>1, <1>2, SidecarConstants DEF OneAlive, B!Process
<1>9. OneAlive'
  <2>1. \A g \in B!Process : B!Alive(g)' => g = IF holder' = None THEN current' ELSE target'[holder']
    BY <1>2, <1>4, <1>5, <1>7, <1>8
  <2>2. started \in Nat /\ current' <= started'
    BY <1>1, <1>2, SidecarConstants DEF B!TypeOK
  <2>3. /\ \A g \in B!Process : g > started' => process'[g] = B!Unborn
        /\ \A g \in B!Process : process'[g].running # {} => B!Alive(g)'
    BY <1>1, <1>2, <1>7 DEF OneAlive
  <2>4. \A d \in B!Caller : target'[d] <= started'
    BY <1>1, <1>2, <1>4 DEF OneAlive
  <2> QED BY <1>2, <2>1, <2>2, <2>3, <2>4 DEF OneAlive
<1>10. AskedOnce'
  <2> SUFFICES ASSUME NEW d \in Command \ late', NEW g \in B!Process, B!Alive(g), Has(g, d)'
               PROVE  ~Withdrawn(d)' /\ (step'[d] = "await" => g = target'[d])
    BY <1>7 DEF AskedOnce
  <2>1. Has(g, d) /\ d \in Command \ late /\ d \in B!Caller
    BY <1>2 DEF Has, B!Caller
  <2>2. ~Withdrawn(d) /\ (step[d] = "await" => g = target[d])
    BY <1>1, <2>1 DEF AskedOnce
  <2>3. CASE d # c
    BY <1>2, <1>4, <2>1, <2>2, <2>3 DEF Withdrawn
  <2>4. CASE d = c
    <3>1. s = "kill"
      BY <1>3, <1>8
    <3> QED BY <1>2, <1>4, <2>2, <2>4, <3>1 DEF Withdrawn
  <2> QED BY <2>3, <2>4
<1>11. LaunchOnly'
  BY <1>1, <1>2, <1>3, <1>4 DEF LaunchOnly, B!Caller
<1> QED BY <1>6, <1>9, <1>10, <1>11 DEF SidecarInv

LEMMA SidecarKill ==
  ASSUME SidecarInv, NEW c \in B!Caller, B!Kill(c)
  PROVE  SidecarInv'
<1>1. B!TypeOK /\ OneAlive /\ AskedOnce /\ LaunchOnly
  BY DEF SidecarInv
<1>2. PICK k : k = target[c]
  OBVIOUS
<1>3. /\ step[c] = "kill" /\ holder = c /\ c # None /\ current = 0 /\ holder' = None
      /\ target' = [target EXCEPT ![c] = 0]
      /\ process' = [process EXCEPT ![k].state = "dead", ![k].running = {}]
      /\ attempt[c] \in {1, 2}
      /\ UNCHANGED <<current, isReady, started, attempt, died, late>>
  BY <1>1, <1>2, CallerIs DEF B!Kill, B!Dead, OneAlive
<1>4. k \in B!Process /\ process[k] \in B!Processes
  BY <1>1, <1>2, <1>3, SidecarConstants DEF B!TypeOK, B!Process
<1>5. PICK s \in {"start", "done", "subprocess"} :
        B!Goto(c, s) /\ (c \in Launch => s = "done")
  BY CallerIs DEF B!Kill, B!Stopped, B!Elsewhere
<1>6. /\ step' \in [B!Caller -> B!Steps] /\ target' \in [B!Caller -> 0 .. MaxStarts] /\ step'[c] = s
      /\ \A d \in B!Caller : d # c => step'[d] = step[d] /\ target'[d] = target[d]
      /\ target'[c] = 0
  <2>1. 0 \in 0 .. MaxStarts
    BY SidecarConstants
  <2> QED BY <1>1, <1>3, <1>5, <2>1 DEF B!TypeOK, B!Goto, B!Steps
<1>7. /\ process' \in [B!Process -> B!Processes]
      /\ process'[k].state = "dead" /\ process'[k].running = {}
      /\ \A g \in B!Process : g # k => process'[g] = process[g]
  BY <1>1, <1>3, <1>4 DEF B!TypeOK, B!Processes
<1>8. B!TypeOK'
  <2>1. \A d \in B!Caller : /\ target'[d] # 0 <=> step'[d] \in {"await", "kill"}
                            /\ holder' = d <=> step'[d] = "kill"
    BY <1>1, <1>3, <1>5, <1>6, SidecarConstants DEF B!TypeOK
  <2> QED BY <1>1, <1>3, <1>6, <1>7, <2>1 DEF B!TypeOK
<1>9. \A g \in B!Process : ~B!Alive(g)'
  <2>1. \A g \in B!Process : g # k => ~B!Alive(g)
    BY <1>1, <1>2, <1>3 DEF OneAlive
  <2> QED BY <1>7, <2>1 DEF B!Alive
<1>10. OneAlive'
  <2>1. \A g \in B!Process : process'[g].running = {}
    BY <1>1, <1>2, <1>3, <1>7 DEF OneAlive
  <2>2. k <= started
    BY <1>1, <1>2 DEF OneAlive
  <2>3. \A g \in B!Process : g > started => process'[g] = B!Unborn
    <3>1. \A g \in B!Process : g > started => g # k
      BY <1>1, <1>4, <2>2, SidecarConstants DEF B!TypeOK, B!Process
    <3> QED BY <1>1, <1>7, <3>1 DEF OneAlive
  <2>4. \A d \in B!Caller : target'[d] <= started
    BY <1>1, <1>6, SidecarConstants DEF OneAlive, B!TypeOK
  <2> QED BY <1>1, <1>3, <1>9, <2>1, <2>3, <2>4 DEF OneAlive
<1>11. AskedOnce'
  BY <1>9 DEF AskedOnce
<1>12. LaunchOnly'
  BY <1>1, <1>3, <1>5, <1>6 DEF LaunchOnly, B!Caller
<1> QED BY <1>8, <1>10, <1>11, <1>12 DEF SidecarInv


LEMMA SidecarStart ==
  ASSUME SidecarInv, NEW c \in B!Caller, B!Start(c)
  PROVE  SidecarInv'
<1>1. B!TypeOK /\ OneAlive /\ AskedOnce /\ LaunchOnly
  BY DEF SidecarInv
<1>2. PICK n : n = started + 1
  OBVIOUS
<1>3. /\ step[c] = "start" /\ holder = None /\ current = 0 /\ B!Goto(c, "wait")
      /\ attempt' = [attempt EXCEPT ![c] = 2]
      /\ process' = [process EXCEPT ![n].state = "starting", ![n].reader = TRUE, ![n].writer = TRUE]
      /\ current' = n /\ started' = n /\ started < MaxStarts
      /\ UNCHANGED <<holder, isReady, target, died, late>>
  BY <1>2 DEF B!Start
<1>4. /\ n \in B!Process /\ n \in 0 .. MaxStarts /\ n > started /\ started \in Nat
      /\ process[n] = B!Unborn
  BY <1>1, <1>2, <1>3, SidecarConstants DEF B!TypeOK, B!Process, OneAlive
<1>5. /\ step' \in [B!Caller -> B!Steps] /\ step'[c] = "wait" /\ attempt'[c] = 2
      /\ attempt' \in [B!Caller -> {1, 2}]
      /\ \A d \in B!Caller : d # c => step'[d] = step[d] /\ attempt'[d] = attempt[d]
  BY <1>1, <1>3 DEF B!TypeOK, B!Goto, B!Steps
<1>6. /\ process' \in [B!Process -> B!Processes]
      /\ process'[n].queued = {} /\ process'[n].running = {}
      /\ \A g \in B!Process : g # n => process'[g] = process[g]
      /\ B!Alive(n)'
  BY <1>1, <1>3, <1>4 DEF B!TypeOK, B!Processes, B!Unborn, B!Alive
<1>7. \A g \in B!Process : g # n => ~B!Alive(g)'
  <2>1. \A g \in B!Process : ~B!Alive(g)
    BY <1>1, <1>3, SidecarConstants DEF OneAlive, B!Process
  <2> QED BY <1>6, <2>1 DEF B!Alive
<1>8. B!TypeOK'
  BY <1>1, <1>3, <1>4, <1>5, <1>6 DEF B!TypeOK
<1>9. OneAlive'
  <2>1. \A g \in B!Process : g > n => process'[g] = B!Unborn
    <3>1. \A g \in B!Process : g > n => g > started /\ g # n
      BY <1>4 DEF B!Process
    <3> QED BY <1>1, <1>6, <3>1 DEF OneAlive
  <2>2. \A g \in B!Process : process'[g].running # {} => B!Alive(g)'
    BY <1>1, <1>6 DEF OneAlive, B!Alive
  <2>3. \A d \in B!Caller : target'[d] <= n
    BY <1>1, <1>2, <1>3, <1>4 DEF OneAlive, B!TypeOK
  <2>4. n <= n
    BY <1>4 DEF B!Process
  <2> QED BY <1>3, <1>7, <2>1, <2>2, <2>3, <2>4 DEF OneAlive
<1>10. AskedOnce'
  <2> SUFFICES ASSUME NEW d \in Command \ late', NEW g \in B!Process, B!Alive(g)', Has(g, d)'
               PROVE  FALSE
    BY DEF AskedOnce
  <2> QED BY <1>6, <1>7 DEF Has
<1>11. LaunchOnly'
  BY <1>1, <1>3, <1>5 DEF LaunchOnly, B!Caller
<1> QED BY <1>8, <1>9, <1>10, <1>11 DEF SidecarInv

LEMMA SidecarReads ==
  ASSUME SidecarInv, NEW g \in B!Process, NEW c \in Command, B!ReadResponse(g, c)
  PROVE  SidecarInv'
<1>1. B!TypeOK /\ OneAlive /\ AskedOnce /\ LaunchOnly
  BY DEF SidecarInv
<1>2. /\ UNCHANGED <<current, holder, isReady, started, attempt, died, late>>
      /\ process' = [process EXCEPT ![g].out = @ \ {c}]
      /\ c \in B!Caller /\ c \notin Launch
  BY SidecarConstants DEF B!ReadResponse, B!Caller
<1>3. process[g] \in B!Processes
  BY <1>1 DEF B!TypeOK
<1>4. /\ process' \in [B!Process -> B!Processes]
      /\ \A h \in B!Process : /\ process'[h].state = process[h].state
                              /\ process'[h].running = process[h].running
                              /\ process'[h].queued = process[h].queued
      /\ \A h \in B!Process : process[h] = B!Unborn => process'[h] = B!Unborn
  <2>1. c \in process[g].out
    BY DEF B!ReadResponse
  <2>2. process[g] # B!Unborn
    BY <2>1 DEF B!Unborn
  <2> QED BY <1>1, <1>2, <1>3, <2>2 DEF B!TypeOK, B!Processes
<1>5. \A h \in B!Process : /\ B!Alive(h)' <=> B!Alive(h)
                          /\ \A d \in Command : Has(h, d)' <=> Has(h, d)
  BY <1>4 DEF B!Alive, Has
<1>6. CASE ~(step[c] = "await" /\ target[c] = g)
  <2>1. UNCHANGED <<step, target>>
    BY <1>6 DEF B!ReadResponse
  <2>2. isReady' \in BOOLEAN /\ died' \in 0 .. MaxCrashes
    BY <1>1, <1>2 DEF B!TypeOK
  <2>3. \A h \in B!Process : process'[h].running # {} => B!Alive(h)'
    BY <1>1, <1>4, <1>5 DEF OneAlive
  <2> QED BY <1>2, <1>4, <1>5, <2>1, <2>2, <2>3, ProcessesMove
<1>7. CASE step[c] = "await" /\ target[c] = g
  <2>1. /\ step' \in [B!Caller -> B!Steps] /\ target' \in [B!Caller -> 0 .. MaxStarts]
        /\ step'[c] = "done" /\ target'[c] = 0
        /\ \A d \in B!Caller : d # c => step'[d] = step[d] /\ target'[d] = target[d]
    <3>1. step' = [step EXCEPT ![c] = "done"] /\ target' = [target EXCEPT ![c] = 0]
      BY <1>7 DEF B!ReadResponse
    <3>2. "done" \in B!Steps /\ 0 \in 0 .. MaxStarts
      BY SidecarConstants DEF B!Steps
    <3> QED BY <1>1, <1>2, <3>1, <3>2 DEF B!TypeOK
  <2>2. holder # c
    BY <1>1, <1>2, <1>7 DEF B!TypeOK
  <2>3. B!TypeOK'
    <3>1. \A d \in B!Caller : /\ target'[d] # 0 <=> step'[d] \in {"await", "kill"}
                              /\ holder' = d <=> step'[d] = "kill"
      BY <1>1, <1>2, <2>1, <2>2 DEF B!TypeOK
    <3> QED BY <1>1, <1>2, <1>4, <2>1, <3>1 DEF B!TypeOK
  <2>4. OneAlive'
    <3>1. holder # None => target'[holder] = target[holder]
      BY <1>1, <2>1, <2>2 DEF B!TypeOK
    <3>2. \A d \in B!Caller : target'[d] <= started
      BY <1>1, <2>1, SidecarConstants DEF OneAlive, B!TypeOK
    <3>3. \A h \in B!Process : process'[h].running # {} => B!Alive(h)'
      BY <1>1, <1>4, <1>5 DEF OneAlive
    <3>4. \A h \in B!Process : h > started => process'[h] = B!Unborn
      BY <1>1, <1>4 DEF OneAlive
    <3>5. \A h \in B!Process : B!Alive(h)' => h = IF holder = None THEN current ELSE target'[holder]
      BY <1>1, <1>5, <3>1 DEF OneAlive
    <3> QED BY <1>1, <1>2, <3>2, <3>3, <3>4, <3>5 DEF OneAlive
  <2>5. AskedOnce'
    <3> SUFFICES ASSUME NEW d \in Command \ late', NEW h \in B!Process, B!Alive(h)', Has(h, d)'
                 PROVE  ~Withdrawn(d)' /\ (step'[d] = "await" => h = target'[d])
      BY DEF AskedOnce
    <3>1. B!Alive(h) /\ Has(h, d) /\ d \in Command \ late /\ d \in B!Caller
      BY <1>2, <1>5 DEF B!Caller
    <3>2. ~Withdrawn(d) /\ (step[d] = "await" => h = target[d])
      BY <1>1, <3>1 DEF AskedOnce
    <3>3. CASE d # c
      BY <1>2, <2>1, <3>1, <3>2, <3>3 DEF Withdrawn
    <3>4. CASE d = c
      BY <1>2, <2>1, <3>4 DEF Withdrawn
    <3> QED BY <3>3, <3>4
  <2>6. LaunchOnly'
    BY <1>1, <1>2, <2>1 DEF LaunchOnly, B!Caller
  <2> QED BY <2>3, <2>4, <2>5, <2>6 DEF SidecarInv
<1> QED BY <1>6, <1>7

\* The reader of a dead process: the requests that are pending fail together.
LEMMA SidecarReaderEnds ==
  ASSUME SidecarInv, NEW g \in B!Process, B!ReaderEnds(g)
  PROVE  SidecarInv'
<1>1. B!TypeOK /\ OneAlive /\ AskedOnce /\ LaunchOnly
  BY DEF SidecarInv
<1> DEFINE Waits(c) == step[c] = "await" /\ target[c] = g
<1>2. /\ UNCHANGED <<current, holder, started, attempt, died, late>> /\ isReady' = FALSE
      /\ process' = [process EXCEPT ![g].reader = FALSE]
      /\ process[g].state = "dead" /\ process[g].reader
  BY DEF B!ReaderEnds
<1>3. process[g] \in B!Processes /\ process[g] # B!Unborn /\ ~B!Alive(g)
  BY <1>1, <1>2 DEF B!TypeOK, B!Unborn, B!Alive
<1>4. /\ process' \in [B!Process -> B!Processes]
      /\ \A h \in B!Process : /\ process'[h].state = process[h].state
                              /\ process'[h].running = process[h].running
                              /\ process'[h].queued = process[h].queued
      /\ \A h \in B!Process : process[h] = B!Unborn => process'[h] = B!Unborn
  BY <1>1, <1>2, <1>3 DEF B!TypeOK, B!Processes
<1>5. \A h \in B!Process : /\ B!Alive(h)' <=> B!Alive(h)
                          /\ \A d \in Command : Has(h, d)' <=> Has(h, d)
  BY <1>4 DEF B!Alive, Has
<1>6. \A c \in B!Caller :
        /\ Waits(c) => step'[c] = B!Failed(c) /\ target'[c] = 0 /\ step'[c] \in {"mark", "subprocess"}
                       /\ (step'[c] = "mark" => attempt[c] = 1)
        /\ ~Waits(c) => step'[c] = step[c] /\ target'[c] = target[c]
  BY DEF B!ReaderEnds, B!Failed
<1>7. step' \in [B!Caller -> B!Steps] /\ target' \in [B!Caller -> 0 .. MaxStarts]
  <2>1. /\ step' = [c \in B!Caller |-> step'[c]] /\ target' = [c \in B!Caller |-> target'[c]]
    BY DEF B!ReaderEnds
  <2>2. \A c \in B!Caller : step'[c] \in B!Steps /\ target'[c] \in 0 .. MaxStarts
    BY <1>1, <1>6, SidecarConstants DEF B!TypeOK, B!Steps
  <2> QED BY <2>1, <2>2
<1>8. \A c \in B!Caller : Waits(c) => c \in Command /\ c \notin Launch /\ holder # c
  BY <1>1, CallerIs, SidecarConstants DEF B!TypeOK
<1>9. B!TypeOK'
  <2>1. \A d \in B!Caller : /\ target'[d] # 0 <=> step'[d] \in {"await", "kill"}
                            /\ holder' = d <=> step'[d] = "kill"
    BY <1>1, <1>2, <1>6, <1>8 DEF B!TypeOK
  <2> QED BY <1>1, <1>2, <1>4, <1>7, <2>1 DEF B!TypeOK
<1>10. OneAlive'
  <2>1. holder # None => target'[holder] = target[holder]
    BY <1>1, <1>6, <1>8 DEF B!TypeOK
  <2>2. \A d \in B!Caller : target'[d] <= started
    BY <1>1, <1>6, SidecarConstants DEF OneAlive, B!TypeOK
  <2>3. \A h \in B!Process : process'[h].running # {} => B!Alive(h)'
    BY <1>1, <1>4, <1>5 DEF OneAlive
  <2>4. \A h \in B!Process : h > started => process'[h] = B!Unborn
    BY <1>1, <1>4 DEF OneAlive
  <2>5. \A h \in B!Process : B!Alive(h)' => h = IF holder = None THEN current ELSE target'[holder]
    BY <1>1, <1>5, <2>1 DEF OneAlive
  <2> QED BY <1>1, <1>2, <2>2, <2>3, <2>4, <2>5 DEF OneAlive
<1>11. AskedOnce'
  <2> SUFFICES ASSUME NEW d \in Command \ late', NEW h \in B!Process, B!Alive(h)', Has(h, d)'
               PROVE  ~Withdrawn(d)' /\ (step'[d] = "await" => h = target'[d])
    BY DEF AskedOnce
  <2>1. B!Alive(h) /\ Has(h, d) /\ d \in Command \ late /\ d \in B!Caller
    BY <1>2, <1>5 DEF B!Caller
  <2>2. ~Withdrawn(d) /\ (step[d] = "await" => h = target[d])
    BY <1>1, <2>1 DEF AskedOnce
  <2>3. ~Waits(d)
    BY <1>3, <2>1, <2>2
  <2>4. step'[d] = step[d] /\ target'[d] = target[d] /\ attempt'[d] = attempt[d]
    BY <1>2, <1>6, <2>1, <2>3
  <2> QED BY <2>2, <2>4 DEF Withdrawn
<1>12. LaunchOnly'
  BY <1>1, <1>2, <1>6, <1>8 DEF LaunchOnly, B!Caller
<1> QED BY <1>9, <1>10, <1>11, <1>12 DEF SidecarInv

\* The steps of the threads of a process, and of the backend in it.
LEMMA SidecarProcesses ==
  ASSUME SidecarInv, NEW g \in B!Process,
         \/ B!ReadReady(g) \/ B!WriterEnds(g) \/ B!Announce(g) \/ B!Die(g)
         \/ \E c \in Command : B!Serve(g, c) \/ B!Respond(g, c)
  PROVE  SidecarInv'
<1>1. B!TypeOK /\ OneAlive
  BY DEF SidecarInv
<1>2. /\ process[g] \in B!Processes /\ isReady \in BOOLEAN /\ died \in 0 .. MaxCrashes
      /\ process \in [B!Process -> B!Processes]
  BY <1>1 DEF B!TypeOK
<1>3. process[g].running # {} => B!Alive(g)
  BY <1>1 DEF OneAlive
<1> DEFINE Kept == /\ process' \in [B!Process -> B!Processes]
                   /\ \A h \in B!Process : h # g => process'[h] = process[h]
                   /\ B!Alive(g)' => B!Alive(g) /\ \A c \in Command : Has(g, c)' => Has(g, c)
                   /\ process'[g].running # {} => B!Alive(g)'
                   /\ process[g] # B!Unborn
           Others == /\ UNCHANGED <<current, holder, started, step, attempt, target, late>>
                     /\ isReady' \in BOOLEAN /\ died' \in 0 .. MaxCrashes
<1>4. ASSUME Kept, Others
      PROVE  SidecarInv'
  <2>1. \A h \in B!Process :
          /\ B!Alive(h)' => B!Alive(h) /\ \A c \in Command : Has(h, c)' => Has(h, c)
          /\ process'[h].running # {} => B!Alive(h)'
          /\ process[h] = B!Unborn => process'[h] = B!Unborn
    <3> SUFFICES ASSUME NEW h \in B!Process
                 PROVE  /\ B!Alive(h)' => B!Alive(h) /\ \A c \in Command : Has(h, c)' => Has(h, c)
                        /\ process'[h].running # {} => B!Alive(h)'
                        /\ process[h] = B!Unborn => process'[h] = B!Unborn
      OBVIOUS
    <3>1. CASE h = g
      BY <1>4, <3>1
    <3>2. CASE h # g
      BY <1>1, <1>4, <3>2 DEF OneAlive, B!Alive, Has
    <3> QED BY <3>1, <3>2
  <2> QED BY <1>4, <2>1, ProcessesMove
<1>5. CASE B!ReadReady(g)
  <2>1. /\ process' = [process EXCEPT ![g].out = @ \ {None}] /\ Others
        /\ None \in process[g].out
    BY <1>2, <1>5 DEF B!ReadReady
  <2>2. process' \in [B!Process -> B!Processes] /\ \A h \in B!Process : h # g => process'[h] = process[h]
    BY <1>2, <2>1 DEF B!Processes
  <2>3. /\ process'[g].state = process[g].state /\ process'[g].running = process[g].running
        /\ process'[g].queued = process[g].queued
    BY <1>2, <2>1 DEF B!Processes
  <2> QED BY <1>3, <1>4, <2>1, <2>2, <2>3 DEF B!Alive, Has, B!Unborn
<1>6. CASE B!WriterEnds(g)
  <2>1. /\ process' = [process EXCEPT ![g].writer = FALSE, ![g].queued = {}] /\ Others
        /\ process[g].state = "dead"
    BY <1>2, <1>6 DEF B!WriterEnds
  <2>2. process' \in [B!Process -> B!Processes] /\ \A h \in B!Process : h # g => process'[h] = process[h]
    BY <1>2, <2>1 DEF B!Processes
  <2>3. process'[g].state = "dead" /\ process'[g].running = process[g].running
    BY <1>2, <2>1 DEF B!Processes
  <2> QED BY <1>3, <1>4, <2>1, <2>2, <2>3 DEF B!Alive, B!Unborn
<1>7. CASE B!Announce(g)
  <2>1. /\ process' = [process EXCEPT ![g].state = "serving", ![g].out = @ \cup {None}] /\ Others
        /\ process[g].state = "starting"
    BY <1>2, <1>7 DEF B!Announce
  <2>2. process' \in [B!Process -> B!Processes] /\ \A h \in B!Process : h # g => process'[h] = process[h]
    BY <1>2, <2>1 DEF B!Processes
  <2>3. /\ process'[g].state = "serving" /\ process'[g].running = process[g].running
        /\ process'[g].queued = process[g].queued
    BY <1>2, <2>1 DEF B!Processes
  <2> QED BY <1>4, <2>1, <2>2, <2>3 DEF B!Alive, Has, B!Unborn
<1>8. CASE B!Die(g)
  <2>1. /\ process' = [process EXCEPT ![g].state = "dead", ![g].running = {}]
        /\ Others /\ B!Alive(g)
    BY <1>2, <1>8, SidecarConstants DEF B!Die, B!Dead
  <2>2. process' \in [B!Process -> B!Processes] /\ \A h \in B!Process : h # g => process'[h] = process[h]
    BY <1>2, <2>1 DEF B!Processes
  <2>3. process'[g].state = "dead" /\ process'[g].running = {}
    BY <1>2, <2>1 DEF B!Processes
  <2> QED BY <1>4, <2>1, <2>2, <2>3 DEF B!Alive, B!Unborn
<1>9. ASSUME NEW c \in Command, B!Serve(g, c)
      PROVE  SidecarInv'
  <2>1. /\ process' = [process EXCEPT ![g].queued = @ \ {c}, ![g].running = @ \cup {c}]
        /\ Others /\ process[g].state = "serving" /\ c \in process[g].queued
    BY <1>2, <1>9 DEF B!Serve
  <2>2. process' \in [B!Process -> B!Processes] /\ \A h \in B!Process : h # g => process'[h] = process[h]
    BY <1>2, <2>1 DEF B!Processes
  <2>3. /\ process'[g].state = "serving" /\ process'[g].running = process[g].running \cup {c}
        /\ process'[g].queued = process[g].queued \ {c}
    BY <1>2, <2>1 DEF B!Processes
  <2> QED BY <1>4, <2>1, <2>2, <2>3 DEF B!Alive, Has, B!Unborn
<1>10. ASSUME NEW c \in Command, B!Respond(g, c)
       PROVE  SidecarInv'
  <2>1. PICK o \in SUBSET (Command \cup {None}) :
          /\ process' = [process EXCEPT ![g].running = @ \ {c}, ![g].out = o]
          /\ Others /\ c \in process[g].running
    <3>1. PICK o : o = IF step[c] = "await" /\ target[c] = g THEN process[g].out \cup {c} ELSE process[g].out
      OBVIOUS
    <3>2. o \in SUBSET (Command \cup {None})
      BY <1>2, <3>1 DEF B!Processes
    <3>3. process' = [process EXCEPT ![g].running = @ \ {c}, ![g].out = o]
      <4>1. CASE step[c] = "await" /\ target[c] = g
        BY <1>10, <3>1, <4>1 DEF B!Respond
      <4>2. CASE ~(step[c] = "await" /\ target[c] = g)
        BY <1>10, <3>1, <4>2 DEF B!Respond
      <4> QED BY <4>1, <4>2
    <3>4. Others /\ c \in process[g].running
      BY <1>2, <1>10 DEF B!Respond
    <3> QED BY <3>2, <3>3, <3>4
  <2>2. process' \in [B!Process -> B!Processes] /\ \A h \in B!Process : h # g => process'[h] = process[h]
    BY <1>2, <2>1 DEF B!Processes
  <2>3. /\ process'[g].state = process[g].state /\ process'[g].running = process[g].running \ {c}
        /\ process'[g].queued = process[g].queued
    BY <1>2, <2>1 DEF B!Processes
  <2> QED BY <1>3, <1>4, <2>1, <2>2, <2>3 DEF B!Alive, Has, B!Unborn
<1> QED BY <1>5, <1>6, <1>7, <1>8, <1>9, <1>10

LEMMA SidecarStep ==
  ASSUME SidecarInv, B!Next
  PROVE  SidecarInv'
<1>1. ASSUME NEW c \in Command, B!Check(c) \/ B!Timeout(c)
      PROVE  SidecarInv'
  BY <1>1, CallerSteps DEF B!Caller
<1>2. ASSUME NEW c \in B!Caller, B!Progress(c)
      PROVE  SidecarInv'
  BY <1>2, CallerSteps, SidecarSend, SidecarTake, SidecarKill, SidecarStart DEF B!Progress
<1>3. ASSUME NEW g \in B!Process, B!Threads(g) \/ B!Announce(g) \/ B!Die(g)
      PROVE  SidecarInv'
  BY <1>3, SidecarReads, SidecarReaderEnds, SidecarProcesses DEF B!Threads
<1>4. ASSUME NEW g \in B!Process, NEW c \in Command, B!Serve(g, c) \/ B!Respond(g, c)
      PROVE  SidecarInv'
  BY <1>4, SidecarProcesses
<1> QED BY <1>1, <1>2, <1>3, <1>4 DEF B!Next

\* Sidecar and its specification count the processes alike.
LEMMA SidecarCounts ==
  ASSUME NEW U
  PROVE  B!Cardinality(U) = Cardinality(U)
BY Zenon DEF B!Cardinality, Cardinality

LEMMA ApartFromItself ==
  ASSUME SidecarInv
  PROVE  B!NoOverlap
<1> SUFFICES ASSUME NEW c \in Command \ late, NEW places,
                    places = {g \in B!Process : c \in process[g].running}
             PROVE  B!Cardinality(places) <= 1 /\ (step[c] = "subprocess" => places = {})
  BY DEF B!NoOverlap
<1>1. \A g \in places : g \in B!Process /\ B!Alive(g) /\ Has(g, c)
  BY DEF SidecarInv, OneAlive, Has
<1>2. PICK h : h = IF holder = None THEN current ELSE target[holder]
  OBVIOUS
<1>3. places \subseteq {h}
  BY <1>1, <1>2 DEF SidecarInv, OneAlive
<1>4. IsFiniteSet(places) /\ Cardinality(places) <= 1
  <2>1. IsFiniteSet({h}) /\ Cardinality({h}) = 1
    BY FS_Singleton
  <2>2. IsFiniteSet(places) /\ Cardinality(places) <= Cardinality({h})
    BY <1>3, <2>1, FS_Subset
  <2> QED BY <2>1, <2>2
<1>5. step[c] = "subprocess" => places = {}
  <2> SUFFICES ASSUME step[c] = "subprocess", NEW g \in places
               PROVE  FALSE
    OBVIOUS
  <2> QED BY <1>1 DEF SidecarInv, AskedOnce, Withdrawn
<1> QED BY <1>4, <1>5, SidecarCounts

\* What is invariant of the sidecar while it is the component that runs.
SidecarRuns == component = "Sidecar" => SidecarInv

\* A command that is tried again never runs beside its earlier attempt, whoever stops and
\* starts the backend meanwhile, but for one whose second attempt takes too long: with any
\* number of commands, processes and crashes, and with a thread that starts the sidecar
\* with the GUI or without.
THEOREM CommandsRunApart == Spec => [](component = "Sidecar" => B!TypeOK /\ B!NoOverlap)
<1>1. Init => SidecarRuns
  BY SidecarInit DEF Init, SidecarRuns
<1>2. SidecarRuns /\ [Next]_vars => SidecarRuns'
  <2> SUFFICES ASSUME SidecarRuns, [Next]_vars, component' = "Sidecar"
               PROVE  SidecarInv'
    BY DEF SidecarRuns
  <2>1. CASE UNCHANGED vars
    <3>1. UNCHANGED sidecarVars /\ component = "Sidecar"
      BY <2>1 DEF vars
    <3> QED BY <3>1 DEF sidecarVars, SidecarRuns, SidecarInv, B!TypeOK, LaunchOnly, OneAlive,
                        AskedOnce, B!Alive, Has, Withdrawn
  <2>2. CASE Next
    <3>1. component = "Sidecar" /\ B!Next
      BY <2>2 DEF Next
    <3> QED BY <3>1, SidecarStep DEF SidecarRuns
  <2> QED BY <2>1, <2>2
<1>3. SidecarRuns => (component = "Sidecar" => B!TypeOK /\ B!NoOverlap)
  BY ApartFromItself DEF SidecarRuns, SidecarInv
<1> QED BY <1>1, <1>2, <1>3, PTL DEF Spec

-----------------------------------------------------------------------------
(* Speech: the proofs about the component, here *)

SP == INSTANCE SpeechProofs

\* The component as it is composed here, and as it is proved about, are the same.
LEMMA SameSpeaking == S!Speaking = SP!Speaking
<1>1. S!Open = SP!Open /\ \A s, t : S!Older(s, t) <=> SP!Older(s, t)
  BY DEF S!Open, SP!Open, S!Older, SP!Older, S!Sentence, SP!Sentence, S!Message, SP!Message, S!Chunk,
         SP!Chunk
<1>2. \A U : S!Cardinality(U) = SP!Cardinality(U)
  BY Zenon DEF S!Cardinality, SP!Cardinality
<1>3. \A s : {t \in S!Open : S!Older(t, s)} = {t \in SP!Open : SP!Older(t, s)}
  BY <1>1
<1> QED BY <1>1, <1>2, <1>3 DEF S!Speaking, SP!Speaking

LEMMA SameSteps == S!Next => SP!Next
<1>1. \A m : S!Works(m) \/ S!Token(m) \/ S!Raises(m) => SP!Works(m) \/ SP!Token(m) \/ SP!Raises(m)
  BY DEF S!Works, SP!Works, S!Token, SP!Token, S!Raises, SP!Raises, S!Begin, SP!Begin, S!Speak,
         SP!Speak, S!Returns, SP!Returns, S!End, SP!End, S!Answer, SP!Answer, S!players,
         SP!players, S!chat, SP!chat, S!history, SP!history, S!At, SP!At, S!Says, SP!Says,
         S!Trouble, SP!Trouble, S!Moves, SP!Moves, S!StreamEnd, SP!StreamEnd, S!Message,
         SP!Message, S!NextChunk, SP!NextChunk, S!Open, SP!Open, S!Unsaid, SP!Unsaid,
         S!Sentence, SP!Sentence, S!Chunk, SP!Chunk
<1>2. \A s, ok : S!Spoken(s, ok) => SP!Spoken(s, ok)
  BY SameSpeaking DEF S!Spoken, SP!Spoken, S!players, SP!players, S!chat, SP!chat, S!history, SP!history,
         S!Trouble, SP!Trouble
<1>3. \A s : S!TimesOut(s) => SP!TimesOut(s)
  BY DEF S!TimesOut, SP!TimesOut, S!players, SP!players, S!chat, SP!chat, S!history, SP!history,
         S!Trouble, SP!Trouble, S!Open, SP!Open, S!Sentence, SP!Sentence, S!Message,
         SP!Message, S!Chunk, SP!Chunk
<1>4. \A m : S!Send(m) \/ S!Start(m) => SP!Send(m) \/ SP!Start(m)
  BY DEF S!Send, SP!Send, S!Start, SP!Start, S!At, SP!At, S!Moves, SP!Moves, S!Silence, SP!Silence,
         S!players, SP!players, S!Effects, SP!Effects, S!Reset, SP!Reset, S!Sounding,
         SP!Sounding, S!Unfinished, SP!Unfinished, S!NoPlayer, SP!NoPlayer, S!Chunk,
         SP!Chunk, S!Absent, SP!Absent, S!Sentence, SP!Sentence, S!Message, SP!Message,
         S!Open, SP!Open
<1>5. \A p : S!Plays(p) \/ S!PlayerFails(p) => SP!Plays(p) \/ SP!PlayerFails(p)
  BY DEF S!Plays, SP!Plays, S!PlayerFails, SP!PlayerFails, S!PlayerStarts, SP!PlayerStarts,
         S!PlayerEnds, SP!PlayerEnds, S!backend, SP!backend, S!chat, SP!chat, S!Trouble,
         SP!Trouble, S!Effects, SP!Effects, S!PlayNext, SP!PlayNext, S!Sounding,
         SP!Sounding, S!history, SP!history, S!NoPlayer, SP!NoPlayer, S!Found, SP!Found,
         S!Ready, SP!Ready, S!Pauses, SP!Pauses, S!GoesOn, SP!GoesOn, S!Sentence,
         SP!Sentence, S!Chunk, SP!Chunk, S!Broken, SP!Broken, S!Absent, SP!Absent, S!Reset,
         SP!Reset, S!Coming, SP!Coming, S!Message, SP!Message, S!Open, SP!Open
<1>6. S!CancelStream \/ S!AudioReady \/ S!StreamEnded \/ S!PlaybackEnded
       => SP!CancelStream \/ SP!AudioReady \/ SP!StreamEnded \/ SP!PlaybackEnded
  BY DEF S!CancelStream, SP!CancelStream, S!AudioReady, SP!AudioReady, S!StreamEnded, SP!StreamEnded,
         S!PlaybackEnded, SP!PlaybackEnded, S!Message, SP!Message, S!Chunk, SP!Chunk,
         S!players, SP!players, S!chat, SP!chat, S!history, SP!history, S!Broken, SP!Broken,
         S!backend, SP!backend, S!Effects, SP!Effects, S!PlayNext, SP!PlayNext, S!Absent,
         SP!Absent, S!Reset, SP!Reset, S!Coming, SP!Coming, S!Sounding, SP!Sounding,
         S!Found, SP!Found, S!Ready, SP!Ready, S!Pauses, SP!Pauses, S!GoesOn, SP!GoesOn,
         S!Open, SP!Open, S!Sentence, SP!Sentence
<1>7. S!Interrupt \/ S!Escape \/ S!Finalize \/ S!Rerender
       => SP!Interrupt \/ SP!Escape \/ SP!Finalize \/ SP!Rerender
  BY DEF S!Interrupt, SP!Interrupt, S!Escape, SP!Escape, S!Finalize, SP!Finalize, S!Rerender,
         SP!Rerender, S!backend, SP!backend, S!Trouble, SP!Trouble, S!Silence, SP!Silence,
         S!players, SP!players, S!history, SP!history, S!chat, SP!chat, S!NoPlayer,
         SP!NoPlayer, S!Effects, SP!Effects, S!Reset, SP!Reset, S!Sounding, SP!Sounding,
         S!Unfinished, SP!Unfinished, S!Chunk, SP!Chunk, S!Absent, SP!Absent, S!Sentence,
         SP!Sentence, S!Message, SP!Message, S!At, SP!At, S!Open, SP!Open
<1> QED BY <1>1, <1>2, <1>3, <1>4, <1>5, <1>6, <1>7 DEF S!Next, SP!Next, S!Synthesis, SP!Synthesis, S!Sentence, SP!Sentence, S!Message, SP!Message,
         S!Chunk, SP!Chunk

LEMMA SameBeginning == S!Init => SP!Init
BY DEF S!Init, SP!Init, S!Message, SP!Message, S!Chunk, SP!Chunk, S!Sentence, SP!Sentence,
         S!Absent, SP!Absent, S!NoPlayer, SP!NoPlayer

LEMMA SameAssumption == SP!SpeechAssumption
BY SidecarAssumptions DEF S!SpeechAssumption, SP!SpeechAssumption

\* Sentences are typed and played in order, and shown for their messages.
LEMMA SameMeaning == SP!TypeOK /\ SP!PlayedInOrder => S!TypeOK /\ S!PlayedInOrder
<1>1. SP!TypeOK => S!TypeOK
  BY DEF S!TypeOK, SP!TypeOK, S!Message, SP!Message, S!Chunk, SP!Chunk, S!Sentence, SP!Sentence,
         S!Absent, SP!Absent, S!Broken, SP!Broken, S!NoPlayer, SP!NoPlayer, S!Reply,
         SP!Reply, S!ToSet, SP!ToSet
<1>2. SP!PlayedInOrder => S!PlayedInOrder
  <2>1. S!Cardinality(S!Sounding) = SP!Cardinality(SP!Sounding)
    BY Zenon DEF S!Cardinality, SP!Cardinality, S!Sounding, SP!Sounding, S!Sentence, SP!Sentence, S!Message, SP!Message, S!Chunk, SP!Chunk
  <2> QED BY <2>1 DEF S!PlayedInOrder, SP!PlayedInOrder, S!Older, SP!Older
<1> QED BY <1>1, <1>2

\* The sentences of responses are played one at a time and in their order (Speech), here
\* too: the part of it in NoOverlap.
THEOREM SentencesPlayApart == Spec => [](component = "Speech" => S!TypeOK /\ S!PlayedInOrder)
<1> DEFINE I == component = "Speech" => SP!SpeechInv
<1>1. Init => I
  BY SameBeginning, SameAssumption, SP!SpeechInit DEF Init
<1>2. I /\ [Next]_vars => I'
  <2> SUFFICES ASSUME I, [Next]_vars, component' = "Speech"
               PROVE  SP!SpeechInv'
    OBVIOUS
  <2>1. component = "Speech"
    BY DEF Next, vars
  <2>2. CASE S!Next
    BY <2>1, <2>2, SameSteps, SameAssumption, SP!SpeechStep
  <2>3. CASE UNCHANGED speechVars
    <3>1. UNCHANGED SP!vars
      BY <2>3 DEF speechVars, SP!vars, SP!backend, SP!players, SP!chat, SP!history
    <3> QED BY <2>1, <3>1, SP!SpeechStutters
  <2> QED BY <2>1, <2>2, <2>3 DEF Next, vars
<1>3. I => (component = "Speech" => S!TypeOK /\ S!PlayedInOrder)
  BY SameMeaning, SameAssumption, SP!SpeechIsTyped, SP!SpeechInOrder
<1> QED BY <1>1, <1>2, <1>3, PTL DEF Spec

-----------------------------------------------------------------------------
(* GroupChat: the inductive invariant *)

Calls == 1 .. Len(call)
Said == 1 .. Len(said)

CallRecord ==
  [kind : {"start", "fresh", "ahead", "user"}, q : Qube \cup {None},
   at : {"asked", "kept", "turn", "given", "nothing", "done"}, user : Nat, m : Nat]
SaidRecord == [by : Qube \cup {User}, then : Qube \cup {None}]

GroupTypeInv ==
  /\ call \in Seq(CallRecord) /\ said \in Seq(SaidRecord) /\ chat \in Seq(Nat)
  /\ pending \in Nat /\ typing \in Nat /\ processing \in Nat /\ next \in Qube \cup {None}
  /\ pipe \in [Qube -> [status : {"idle", "generating_tts", "ready"}, m : Nat, audio : Nat]]
  /\ interjected \in [of : Nat, ready : BOOLEAN] /\ entering \subseteq [of : Nat, stops : BOOLEAN]
  /\ speaking \subseteq [m : Nat, audio : Nat, active : BOOLEAN, free : BOOLEAN]
  /\ active \in BOOLEAN /\ answers \in Seq(Nat)

Response(m) == m \in Said /\ said[m].by \in Qube

\* Calls are answered in turn.  An interjection is kept before its response.
CallsInv ==
  \A c \in Calls :
    /\ call[c].user <= Len(said)
    /\ call[c].m # 0 => Response(call[c].m)
    /\ call[c].at = "given" => call[c].m = Len(said) /\ call[c].m # 0
    /\ call[c].at \in {"asked", "kept", "turn"} => call[c].m = 0
    /\ call[c].kind = "user" /\ call[c].at \notin {"asked", "done"} => call[c].user # 0
    /\ call[c].kind = "user" /\ call[c].m # 0 => call[c].user # 0 /\ call[c].user < call[c].m
    /\ c # Len(call) => call[c].at = "done"

AnswersInv ==
  answers = <<>> \/ \E c \in Calls : answers = <<c>> /\ call[c].at \in {"given", "nothing"}

\* Until a call is answered no response is prepared.
OpenInv ==
  \A c \in Calls : call[c].at # "done" =>
    /\ dubbing = {} /\ \A q \in Qube : pipe[q].m = 0
    /\ call[c].kind \in {"start", "fresh"} => pending = 0 /\ typing = 0 /\ interjected.of = 0 /\ entering = {}
    /\ call[c].kind = "start" <=> ~known
    /\ call[c].kind = "user" => interjected.of = c /\ ~interjected.ready

\* Only the last response is prepared, and its speech or that of a dropped one is there.
PreparedInv ==
  /\ \A q \in Qube : /\ pipe[q].m # 0 => pipe[q].m = Len(said) /\ said[Len(said)].by = q
                     /\ pipe[q].audio \in {0, pipe[q].m} \cup lost
  /\ \A m \in dubbing :
       /\ m = Len(said) /\ m # 0 /\ said[m].by \in Qube
       /\ \/ pipe[said[m].by].m = m /\ pipe[said[m].by].status = "generating_tts"
          \/ m \in lost /\ \A q \in Qube : pipe[q].m = 0
  /\ ~known => dubbing = {} /\ \A q \in Qube : pipe[q].m = 0

\* An interjection that is answered, or is being shown.
Interjecting(c) == (interjected.ready /\ interjected.of = c) \/ \E e \in entering : e.of = c

\* When nothing is shown an interjection is, once.
InterjectedInv ==
  /\ \A c : Interjecting(c) => c \in Calls /\ call[c].kind = "user" /\ call[c].at = "done" /\ call[c].m # 0
  /\ interjected.of # 0 => waiting /\ known
  /\ interjected.ready /\ entering = {} /\ pending = 0 /\ typing = 0 => "user" \in due
  /\ \A e, f \in entering : e = f
  /\ \A e \in entering :
       /\ typing = 0 /\ known
       /\ ~e.stops => interjected.ready /\ interjected.of = e.of /\ (pending = 0 => "user" \notin due)
       /\ e.stops => interjected.of = 0 /\ ~interjected.ready

\* One response is spoken or typed.
SpeakInv ==
  /\ \A s \in speaking : s.m = pending /\ s.m = processing /\ s.m # 0
  /\ \A s, t \in speaking : s = t
  /\ typing # 0 => pending = 0
  /\ pending = 0 /\ typing = 0 => processing = 0
  /\ pending # 0 => Response(pending)

\* A turn is asked for when nothing is shown.
TimerInv ==
  /\ continuing => "continue" \in due \/ (pending = 0 /\ typing = 0 /\ ~waiting /\ entering = {} /\ known)
  /\ ~known => (loading \/ ~active) /\ pending = 0 /\ typing = 0 /\ ~continuing

\* A response is taken while an interjection is being shown, which ends in crossed.
Doomed == entering # {} /\ pending # 0

\* Responses that are shown before those to come.
First(f) == f # 0 /\ (f = pending \/ \E c \in Calls : Interjecting(c) /\ f = call[c].m)

\* Responses that are prepared or to be.
Coming(m) ==
  \/ m \in dubbing
  \/ m # 0 /\ \E q \in Qube : pipe[q].m = m
  \/ \E c \in Calls : call[c].kind = "ahead" /\ call[c].at = "given" /\ call[c].m = m

\* The last response is shown before one that is to be prepared, which is another Qube's.
FirstInv ==
  ~Doomed =>
    /\ \A c \in Calls : \A f : call[c].kind = "ahead" /\ call[c].at \in {"asked", "turn"} /\ First(f)
         => f = Len(said)
    /\ \A m, f : Coming(m) /\ First(f) => f # m /\ said[f].by # said[m].by
    /\ \A c \in Calls : Interjecting(c) /\ entering = {} /\ pending # 0 => call[c].m = Len(said)

\* What is shown next comes after what is shown.
OrderInv ==
  /\ \A i \in 1 .. Len(chat) : chat[i] <= Len(said)
  /\ \A i, j \in 1 .. Len(chat) : i < j => chat[i] < chat[j]
  /\ ~Doomed =>
       /\ \A i \in 1 .. Len(chat) :
            /\ pending # 0 => chat[i] < pending
            /\ \A m : Coming(m) => chat[i] # m
            /\ \A c \in Calls :
                 /\ call[c].at = "given" => chat[i] < call[c].m
                 /\ call[c].kind = "user" /\ call[c].at # "done" /\ call[c].user # 0 => chat[i] < call[c].user
                 /\ Interjecting(c) => chat[i] < call[c].m /\ (entering = {} => chat[i] < call[c].user)
       /\ pending # 0 => \A c \in Calls :
            /\ call[c].kind = "user" /\ call[c].at # "done" /\ call[c].user # 0 => pending < call[c].user
            /\ Interjecting(c) => pending < call[c].user

\* Speech is that of the response, or was made for one that was dropped.
VoiceInv ==
  /\ \A v \in voiced : v[1] = v[2] \/ v[2] \in lost
  /\ \A s \in speaking : s.audio = s.m \/ s.audio \in lost \/ Doomed

FlowInv ==
  /\ GroupTypeInv /\ CallsInv /\ AnswersInv /\ OpenInv /\ PreparedInv /\ InterjectedInv /\ SpeakInv /\ TimerInv
  /\ FirstInv /\ OrderInv /\ VoiceInv

GroupInv == ~crossed => FlowInv

LEMMA GroupConstants == User \notin Qube /\ None \notin Qube /\ User # None /\ MaxCalls \in Nat
BY SidecarAssumptions DEF G!GroupChatAssumption

LEMMA GroupLengths ==
  ASSUME GroupTypeInv
  PROVE  /\ DOMAIN call = Calls /\ Len(call) \in Nat /\ Len(said) \in Nat /\ Len(chat) \in Nat
         /\ \A c \in Calls : call[c] \in CallRecord /\ c \in Nat
         /\ \A m \in Said : said[m] \in SaidRecord /\ m \in Nat
BY DEF GroupTypeInv, Calls, Said

\* A call changes.
LEMMA CallSet ==
  ASSUME GroupTypeInv, NEW c \in Calls, NEW r \in CallRecord, call' = [call EXCEPT ![c] = r]
  PROVE  /\ call' \in Seq(CallRecord) /\ Len(call') = Len(call) /\ Calls' = Calls
         /\ \A d \in Calls : call'[d] = IF d = c THEN r ELSE call[d]
<1>1. call \in Seq(CallRecord)
  BY DEF GroupTypeInv
<1>2. /\ call' \in Seq(CallRecord) /\ Len(call') = Len(call)
      /\ \A d \in Calls : call'[d] = IF d = c THEN r ELSE call[d]
  BY <1>1, ExceptSeq DEF Calls
<1> QED BY <1>2 DEF Calls

\* The state of a call changes.
LEMMA CallEnds ==
  ASSUME GroupTypeInv, NEW c \in Calls,
         NEW a \in {"asked", "kept", "turn", "given", "nothing", "done"},
         call' = [call EXCEPT ![c].at = a]
  PROVE  /\ call' \in Seq(CallRecord) /\ Len(call') = Len(call) /\ Calls' = Calls
         /\ \A d \in Calls : /\ call'[d].kind = call[d].kind /\ call'[d].q = call[d].q
                             /\ call'[d].user = call[d].user /\ call'[d].m = call[d].m
                             /\ call'[d].at = IF d = c THEN a ELSE call[d].at
<1> DEFINE r == [call[c] EXCEPT !.at = a]
<1>1. call[c] \in CallRecord
  BY GroupLengths
<1>2. /\ r \in CallRecord /\ r.kind = call[c].kind /\ r.q = call[c].q /\ r.user = call[c].user
      /\ r.m = call[c].m /\ r.at = a
  BY <1>1 DEF CallRecord
<1>3. call' = [call EXCEPT ![c] = r]
  OBVIOUS
<1> HIDE DEF r
<1>4. /\ call' \in Seq(CallRecord) /\ Len(call') = Len(call) /\ Calls' = Calls
      /\ \A d \in Calls : call'[d] = IF d = c THEN r ELSE call[d]
  BY <1>2, <1>3, CallSet
<1> QED BY <1>2, <1>4

\* A call is made.
LEMMA CallAsked ==
  ASSUME GroupTypeInv, NEW kind \in {"start", "fresh", "ahead", "user"}, NEW q \in Qube \cup {None},
         G!Asks(kind, q)
  PROVE  /\ call' \in Seq(CallRecord) /\ Len(call') = Len(call) + 1 /\ Len(call) \in Nat
         /\ \A d \in Calls : call'[d] = call[d]
         /\ Calls' = Calls \cup {Len(call) + 1} /\ Len(call) + 1 \notin Calls
         /\ call'[Len(call) + 1].kind = kind /\ call'[Len(call) + 1].at = "asked"
         /\ call'[Len(call) + 1].user = 0 /\ call'[Len(call) + 1].m = 0
         /\ ~crossed' => /\ dubbing = {} /\ \A d \in Calls : call[d].at = "done"
                         /\ kind # "user" => \A p \in Qube : pipe[p].m = 0
<1> DEFINE r == [kind |-> kind, q |-> q, at |-> "asked", user |-> 0, m |-> 0]
<1>1. call \in Seq(CallRecord) /\ r \in CallRecord /\ call' = Append(call, r)
  BY DEF GroupTypeInv, CallRecord, G!Asks
<1>2. ~crossed' => /\ dubbing = {} /\ \A d \in Calls : call[d].at = "done"
                   /\ kind # "user" => \A p \in Qube : pipe[p].m = 0
  <2>1. ASSUME ~crossed' PROVE dubbing = {} /\ \A d \in DOMAIN call : call[d].at = "done"
    BY <2>1 DEF G!Asks, G!Fetches
  <2>2. ASSUME ~crossed', kind # "user" PROVE \A p \in Qube : pipe[p].m = 0
    <3>1. {pipe[p].m : p \in Qube} = {0}
      BY <2>2 DEF G!Asks, G!InPipes
    <3> QED BY <3>1
  <2>3. DOMAIN call = Calls
    BY <1>1 DEF Calls
  <2> QED BY <2>1, <2>2, <2>3
<1>3. r.kind = kind /\ r.at = "asked" /\ r.user = 0 /\ r.m = 0
  OBVIOUS
<1> HIDE DEF r
<1>4. /\ call' \in Seq(CallRecord) /\ Len(call') = Len(call) + 1 /\ Len(call) \in Nat
      /\ \A d \in Calls : call'[d] = call[d]
      /\ call'[Len(call) + 1] = r
  BY <1>1, AppendProperties DEF Calls
<1>5. Calls' = Calls \cup {Len(call) + 1} /\ Len(call) + 1 \notin Calls
  BY <1>4 DEF Calls
<1>6. /\ call'[Len(call) + 1].kind = kind /\ call'[Len(call) + 1].at = "asked"
      /\ call'[Len(call) + 1].user = 0 /\ call'[Len(call) + 1].m = 0
  <2>1. call'[Len(call) + 1] = r
    BY <1>4
  <2> QED BY <1>3, <2>1, Zenon
<1> QED BY <1>2, <1>4, <1>5, <1>6

\* A message is said.
LEMMA SaidMore ==
  ASSUME GroupTypeInv, NEW b \in Qube \cup {User}, NEW t \in Qube \cup {None},
         said' = Append(said, [by |-> b, then |-> t])
  PROVE  /\ said' \in Seq(SaidRecord) /\ Len(said') = Len(said) + 1 /\ Len(said) \in Nat
         /\ \A m \in Said : said'[m] = said[m]
         /\ said'[Len(said')].by = b /\ said'[Len(said')].then = t
<1> DEFINE r == [by |-> b, then |-> t]
<1>1. said \in Seq(SaidRecord) /\ r \in SaidRecord /\ said' = Append(said, r)
  BY DEF GroupTypeInv, SaidRecord
<1>2. r.by = b /\ r.then = t
  OBVIOUS
<1> HIDE DEF r
<1> QED BY <1>1, <1>2 DEF Said

\* A message is shown.
LEMMA ChatMore ==
  ASSUME GroupTypeInv, NEW m \in Nat, chat' = Append(chat, m)
  PROVE  /\ chat' \in Seq(Nat) /\ Len(chat') = Len(chat) + 1 /\ Len(chat) \in Nat
         /\ \A i \in 1 .. Len(chat) : chat'[i] = chat[i]
         /\ chat'[Len(chat')] = m
BY DEF GroupTypeInv

\* A message that comes after those shown is shown.
LEMMA ShownMore ==
  ASSUME GroupTypeInv, NEW u \in Nat, chat' = Append(chat, u), said' = said, u <= Len(said),
         \A i \in 1 .. Len(chat) : chat[i] < u, \A i \in 1 .. Len(chat) : chat[i] <= Len(said),
         \A i, j \in 1 .. Len(chat) : i < j => chat[i] < chat[j]
  PROVE  /\ \A i \in 1 .. Len(chat') : chat'[i] <= Len(said')
         /\ \A i, j \in 1 .. Len(chat') : i < j => chat'[i] < chat'[j]
         /\ \A i \in 1 .. Len(chat') : chat'[i] = u \/ \E j \in 1 .. Len(chat) : chat'[i] = chat[j]
<1>1. /\ Len(chat') = Len(chat) + 1 /\ Len(chat) \in Nat /\ chat'[Len(chat')] = u
      /\ \A i \in 1 .. Len(chat) : chat'[i] = chat[i]
  BY ChatMore
<1>2. \A i \in 1 .. Len(chat') :
        (i = Len(chat') /\ chat'[i] = u) \/ (i \in 1 .. Len(chat) /\ chat'[i] = chat[i])
  BY <1>1
<1>3. \A i \in 1 .. Len(chat') : chat'[i] <= Len(said')
  BY <1>2
<1>4. ASSUME NEW i \in 1 .. Len(chat'), NEW j \in 1 .. Len(chat'), i < j
      PROVE  chat'[i] < chat'[j]
  <2>1. i \in 1 .. Len(chat) /\ chat'[i] = chat[i]
    BY <1>1, <1>4
  <2>2. CASE j = Len(chat') /\ chat'[j] = u
    BY <2>1, <2>2
  <2>3. CASE j \in 1 .. Len(chat) /\ chat'[j] = chat[j]
    BY <1>4, <2>1, <2>3
  <2> QED BY <1>2, <2>2, <2>3
<1> QED BY <1>2, <1>3, <1>4

LEMMA GroupInit == G!Init => GroupInv
<1> SUFFICES ASSUME G!Init PROVE FlowInv
  BY DEF GroupInv
<1>1. GroupTypeInv
  <2>1. call = <<>> /\ said = <<>> /\ chat = <<>>
    BY DEF G!Init
  <2>2. call \in Seq(CallRecord) /\ said \in Seq(SaidRecord) /\ chat \in Seq(Nat)
    BY <2>1
  <2>3. /\ pipe \in [Qube -> [status : {"idle", "generating_tts", "ready"}, m : Nat, audio : Nat]]
        /\ interjected \in [of : Nat, ready : BOOLEAN]
    BY DEF G!Init, G!NoPipes, G!Empty, G!NoInterjection
  <2> QED BY <2>2, <2>3 DEF G!Init, GroupTypeInv
<1>2. Calls = {} /\ Len(chat) = 0 /\ \A q \in Qube : pipe[q].m = 0 /\ pipe[q].audio = 0
  BY DEF G!Init, Calls, G!NoPipes, G!Empty
<1>3. ~interjected.ready /\ interjected.of = 0
  BY DEF G!Init, G!NoInterjection
<1> QED BY <1>1, <1>2, <1>3 DEF G!Init, FlowInv, CallsInv, OpenInv, PreparedInv, InterjectedInv, Interjecting,
           SpeakInv, TimerInv, FirstInv, First, OrderInv, VoiceInv, Doomed, AnswersInv


-----------------------------------------------------------------------------
(* GroupChat: what follows from the invariant *)

\* While a call is open nothing is prepared, and it is the last one.
LEMMA OpenCall ==
  ASSUME FlowInv, NEW c \in Calls, call[c].at # "done"
  PROVE  /\ c = Len(call) /\ dubbing = {} /\ \A q \in Qube : pipe[q].m = 0
         /\ \A d \in Calls : d # c => call[d].at = "done"
         /\ \A d : Interjecting(d) => d # c /\ d \in Calls
         /\ \A m : Coming(m) => call[c].kind = "ahead" /\ call[c].at = "given" /\ m = call[c].m
         /\ call[c].kind = "user" => entering = {} /\ ~interjected.ready
<1>1. c = Len(call) /\ dubbing = {} /\ \A q \in Qube : pipe[q].m = 0
  BY DEF FlowInv, CallsInv, OpenInv
<1>2. \A d \in Calls : d # c => call[d].at = "done"
  BY <1>1 DEF FlowInv, CallsInv
<1>3. \A d : Interjecting(d) => d # c /\ d \in Calls
  BY DEF FlowInv, InterjectedInv
<1>4. \A m : Coming(m) => call[c].kind = "ahead" /\ call[c].at = "given" /\ m = call[c].m
  BY <1>1, <1>2 DEF Coming
<1>5. ASSUME call[c].kind = "user"
      PROVE  entering = {} /\ ~interjected.ready
  <2>1. interjected.of = c /\ ~interjected.ready /\ c # 0
    BY <1>5 DEF FlowInv, OpenInv, Calls
  <2>2. \A e \in entering : e.stops \in BOOLEAN
    BY DEF FlowInv, GroupTypeInv
  <2> QED BY <2>1, <2>2 DEF FlowInv, InterjectedInv
<1> QED BY <1>1, <1>2, <1>3, <1>4, <1>5

\* What is shown and what is prepared are responses.
LEMMA FirstSaid ==
  ASSUME FlowInv
  PROVE  /\ \A f : First(f) => Response(f)
         /\ \A m : Coming(m) => Response(m) /\ m = Len(said)
<1>1. \A f : First(f) => Response(f)
  BY DEF FlowInv, First, SpeakInv, InterjectedInv, CallsInv
<1>2. \A m : Coming(m) => Response(m) /\ m = Len(said)
  <2>1. \A m \in dubbing : m = Len(said) /\ m \in Said /\ said[m].by \in Qube
    BY GroupLengths DEF FlowInv, PreparedInv, Said
  <2>2. \A m, q : m # 0 /\ q \in Qube /\ pipe[q].m = m => m = Len(said) /\ m \in Said /\ said[m].by \in Qube
    BY GroupLengths DEF FlowInv, PreparedInv, Said
  <2>3. \A c \in Calls : call[c].at = "given" => call[c].m = Len(said) /\ Response(call[c].m)
    BY DEF FlowInv, CallsInv
  <2> QED BY <2>1, <2>2, <2>3 DEF Coming, Response
<1> QED BY <1>1, <1>2

\* When nothing is said or shown, and nothing new is to be, the order stays.
LEMMA OrderStays ==
  ASSUME FlowInv, said' = said, chat' = chat, pending' \in {0, pending}, Doomed => Doomed',
         entering' = {} => entering = {},
         \A c : Interjecting(c)' => Interjecting(c),
         \A m : Coming(m)' => Coming(m),
         \A c \in Calls :
           /\ call'[c].kind = call[c].kind /\ call'[c].user = call[c].user /\ call'[c].m = call[c].m
           /\ call'[c].at = "given" => call[c].at = "given"
           /\ call'[c].at # "done" => call[c].at # "done"
           /\ call'[c].at \in {"asked", "turn"} /\ call[c].kind = "ahead" => call[c].at \in {"asked", "turn"},
         \A c \in Calls' : c \notin Calls =>
           call'[c].at = "asked" /\ call'[c].user = 0 /\ call'[c].kind # "ahead"
  PROVE  FirstInv' /\ OrderInv'
<1>1. \A c : Interjecting(c)' => c \in Calls /\ Interjecting(c) /\ call'[c].m = call[c].m /\ call'[c].user = call[c].user
  BY DEF FlowInv, InterjectedInv
<1>2. \A f : First(f)' => First(f)
  BY <1>1 DEF First
<1>3. FirstInv'
  <2> SUFFICES ASSUME ~Doomed' PROVE FirstInv'
    BY DEF FirstInv
  <2>1. \A c \in Calls' : \A f : call'[c].kind = "ahead" /\ call'[c].at \in {"asked", "turn"} /\ First(f)'
          => f = Len(said)
    BY <1>2 DEF FlowInv, FirstInv
  <2>2. \A m, f : Coming(m)' /\ First(f)' => f # m /\ said[f].by # said[m].by
    BY <1>2 DEF FlowInv, FirstInv
  <2>3. \A c \in Calls' : Interjecting(c)' /\ entering' = {} /\ pending' # 0 => call'[c].m = Len(said)
    BY <1>1 DEF FlowInv, FirstInv
  <2> QED BY <2>1, <2>2, <2>3 DEF FirstInv
<1>4. OrderInv'
  <2>1. /\ \A i \in 1 .. Len(chat) : chat[i] <= Len(said)
        /\ \A i, j \in 1 .. Len(chat) : i < j => chat[i] < chat[j]
    BY DEF FlowInv, OrderInv
  <2>2. ASSUME ~Doomed', NEW i \in 1 .. Len(chat)
        PROVE  /\ pending' # 0 => chat[i] < pending'
               /\ \A m : Coming(m)' => chat[i] # m
               /\ \A c \in Calls' :
                    /\ call'[c].at = "given" => chat[i] < call'[c].m
                    /\ call'[c].kind = "user" /\ call'[c].at # "done" /\ call'[c].user # 0
                         => chat[i] < call'[c].user
                    /\ Interjecting(c)' =>
                         chat[i] < call'[c].m /\ (entering' = {} => chat[i] < call'[c].user)
    <3>1. /\ pending # 0 => chat[i] < pending
          /\ \A m : Coming(m) => chat[i] # m
          /\ \A c \in Calls :
               /\ call[c].at = "given" => chat[i] < call[c].m
               /\ call[c].kind = "user" /\ call[c].at # "done" /\ call[c].user # 0 => chat[i] < call[c].user
               /\ Interjecting(c) => chat[i] < call[c].m /\ (entering = {} => chat[i] < call[c].user)
      BY <2>2 DEF FlowInv, OrderInv
    <3> QED BY <1>1, <3>1
  <2>3. ASSUME ~Doomed', pending' # 0, NEW c \in Calls'
        PROVE  /\ call'[c].kind = "user" /\ call'[c].at # "done" /\ call'[c].user # 0
                    => pending' < call'[c].user
               /\ Interjecting(c)' => pending' < call'[c].user
    BY <1>1, <2>3 DEF FlowInv, OrderInv
  <2> QED BY <2>1, <2>2, <2>3 DEF OrderInv
<1> QED BY <1>3, <1>4

\* When what is prepared is shown nothing else is under way.
LEMMA NextTaken ==
  ASSUME FlowInv, NEW q \in Qube, G!ReadyAt(q), pending = 0, typing = 0
  PROVE  /\ pipe[q].m = Len(said) /\ Response(pipe[q].m) /\ said[pipe[q].m].by = q
         /\ \A p \in Qube : p # q => pipe[p].m = 0
         /\ dubbing = {} /\ speaking = {} /\ processing = 0
         /\ \A c \in Calls : call[c].at = "done"
<1>1. pipe[q].m # 0 /\ pipe[q].status = "ready"
  BY DEF G!ReadyAt
<1>2. Coming(pipe[q].m)
  BY <1>1 DEF Coming
<1>3. pipe[q].m = Len(said) /\ Response(pipe[q].m) /\ said[pipe[q].m].by = q
  BY <1>1, <1>2, FirstSaid DEF FlowInv, PreparedInv
<1>4. \A p \in Qube : p # q => pipe[p].m = 0
  BY <1>3 DEF FlowInv, PreparedInv
<1>5. dubbing = {}
  BY <1>1, <1>3 DEF FlowInv, PreparedInv
<1>6. speaking = {} /\ processing = 0
  BY DEF FlowInv, SpeakInv
<1>7. \A c \in Calls : call[c].at = "done"
  BY <1>1 DEF FlowInv, OpenInv
<1> QED BY <1>3, <1>4, <1>5, <1>6, <1>7

\* Which effects run next.
LEMMA Rendered ==
  ASSUME NEW u \in BOOLEAN, G!Renders(u)
  PROVE  /\ "continue" \in due \/ u \/ pending' # pending \/ typing' # typing \/ active' # active
              => "continue" \in due'
         /\ "user" \in due' <=> \/ "user" \in due \/ pending' # pending \/ typing' # typing
                                \/ interjected' # interjected
BY DEF G!Renders

-----------------------------------------------------------------------------
(* GroupChat: steps of the backend *)

LEMMA GroupKeep ==
  ASSUME FlowInv, NEW c \in Calls, G!Keep(c)
  PROVE  FlowInv'
<1>1. call[c].kind = "user" /\ call[c].at = "asked" /\ GroupTypeInv
  BY DEF G!Keep, G!At, FlowInv
<1>2. /\ UNCHANGED <<answers, pending, typing, next, pipe, interjected, chat, processing, dubbing,
                     speaking, entering, continuing, due, voiced, lost, known, loading, active, waiting>>
      /\ said' = Append(said, [by |-> User, then |-> None])
      /\ call' = [call EXCEPT ![c].at = "kept", ![c].user = Len(said')]
  BY <1>1 DEF G!Keep, G!gui, G!refs, G!flow, G!history
<1>3. /\ said' \in Seq(SaidRecord) /\ Len(said') = Len(said) + 1 /\ Len(said) \in Nat
      /\ \A m \in Said : said'[m] = said[m]
  BY <1>1, <1>2, SaidMore
<1> DEFINE r == [call[c] EXCEPT !.at = "kept", !.user = Len(said')]
<1>4. /\ r \in CallRecord /\ r.kind = "user" /\ r.user = Len(said) + 1 /\ r.m = call[c].m /\ r.at = "kept"
      /\ call' = [call EXCEPT ![c] = r]
  <2>1. call[c] \in CallRecord
    BY <1>1, GroupLengths
  <2>2. call' = [call EXCEPT ![c] = r]
    BY <1>2
  <2>3. Len(said') \in Nat
    BY <1>3
  <2>4. r \in CallRecord /\ r.kind = call[c].kind /\ r.user = Len(said') /\ r.m = call[c].m /\ r.at = "kept"
    BY <2>1, <2>3 DEF CallRecord
  <2> QED BY <1>1, <1>3, <2>2, <2>4
<1> HIDE DEF r
<1>5. /\ call' \in Seq(CallRecord) /\ Len(call') = Len(call) /\ Calls' = Calls
      /\ \A d \in Calls : call'[d] = IF d = c THEN r ELSE call[d]
  BY <1>1, <1>4, CallSet
<1>6. /\ c = Len(call) /\ dubbing = {} /\ \A q \in Qube : pipe[q].m = 0
      /\ \A d \in Calls : d # c => call[d].at = "done"
      /\ \A d : ~Interjecting(d)
      /\ \A m : ~Coming(m)
      /\ entering = {} /\ ~interjected.ready
  BY <1>1, OpenCall DEF Interjecting
<1>7. r.m = 0
  BY <1>1, <1>4 DEF FlowInv, CallsInv
<1>8. \A m : Response(m) => Response(m)' /\ m <= Len(said)
  BY <1>3 DEF Response, Said
<1>9. /\ \A d : ~Interjecting(d)'
      /\ \A m : ~Coming(m)'
      /\ ~Doomed'
  <2>1. \A d : ~Interjecting(d)'
    BY <1>2, <1>6 DEF Interjecting
  <2>2. \A m : ~Coming(m)'
    BY <1>2, <1>4, <1>5, <1>6 DEF Coming
  <2> QED BY <1>2, <1>6, <2>1, <2>2 DEF Doomed
<1>10. GroupTypeInv'
  BY <1>1, <1>2, <1>3, <1>5 DEF GroupTypeInv
<1>11. CallsInv'
  <2> SUFFICES ASSUME NEW d \in Calls
               PROVE  /\ call'[d].user <= Len(said')
                      /\ call'[d].m # 0 => call'[d].m \in Said' /\ said'[call'[d].m].by \in Qube
                      /\ call'[d].at = "given" => call'[d].m = Len(said') /\ call'[d].m # 0
                      /\ call'[d].at \in {"asked", "kept", "turn"} => call'[d].m = 0
                      /\ call'[d].kind = "user" /\ call'[d].at \notin {"asked", "done"} => call'[d].user # 0
                      /\ call'[d].kind = "user" /\ call'[d].m # 0
                           => call'[d].user # 0 /\ call'[d].user < call'[d].m
                      /\ d # Len(call') => call'[d].at = "done"
    BY <1>5 DEF CallsInv, Response
  <2>1. CASE d = c
    BY <1>3, <1>4, <1>5, <1>6, <1>7, <2>1
  <2>2. CASE d # c
    <3>1. call'[d] = call[d] /\ call[d].at = "done" /\ call[d].user \in Nat
      BY <1>1, <1>5, <1>6, <2>2, GroupLengths DEF CallRecord
    <3>2. call[d].user <= Len(said) /\ (call[d].m # 0 => Response(call[d].m))
          /\ (call[d].kind = "user" /\ call[d].m # 0 => call[d].user # 0 /\ call[d].user < call[d].m)
      BY DEF FlowInv, CallsInv
    <3> QED BY <1>3, <1>6, <1>5, <1>8, <2>2, <3>1, <3>2 DEF Response
  <2> QED BY <2>1, <2>2
<1>12. AnswersInv'
  BY <1>1, <1>2, <1>5, <1>6 DEF FlowInv, AnswersInv
<1>13. OpenInv'
  BY <1>1, <1>2, <1>4, <1>5, <1>6 DEF FlowInv, OpenInv
<1>14. PreparedInv'
  BY <1>2, <1>6 DEF FlowInv, PreparedInv
<1>15. InterjectedInv'
  BY <1>2, <1>6, <1>9 DEF FlowInv, InterjectedInv
<1>16. SpeakInv'
  BY <1>2, <1>8 DEF FlowInv, SpeakInv
<1>17. TimerInv'
  BY <1>2 DEF FlowInv, TimerInv
<1>18. FirstInv'
  BY <1>4, <1>5, <1>6, <1>9 DEF FirstInv
<1>19. OrderInv'
  <2>1. \A i \in 1 .. Len(chat) : chat[i] \in Nat /\ chat[i] <= Len(said) /\ (pending # 0 => chat[i] < pending)
    <3>1. chat \in Seq(Nat) /\ ~Doomed
      BY <1>1, <1>6 DEF GroupTypeInv, Doomed
    <3>2. \A i \in 1 .. Len(chat) : chat[i] <= Len(said) /\ (pending # 0 => chat[i] < pending)
      BY <3>1 DEF FlowInv, OrderInv
    <3> QED BY <3>1, <3>2
  <2>2. \A i, j \in 1 .. Len(chat) : i < j => chat[i] < chat[j]
    BY DEF FlowInv, OrderInv
  <2>3. pending # 0 => pending <= Len(said) /\ pending \in Nat
    BY <1>8 DEF FlowInv, SpeakInv, GroupTypeInv
  <2>4. \A d \in Calls' : call'[d].at # "given"
    BY <1>4, <1>5, <1>6
  <2>5. \A d \in Calls' : call'[d].at # "done" => call'[d].user = Len(said) + 1
    BY <1>4, <1>5, <1>6
  <2> HIDE DEF r
  <2>6. \A i \in 1 .. Len(chat) : chat[i] < Len(said) + 1
    BY <1>3, <2>1
  <2>7. chat' = chat /\ pending' = pending /\ Len(said') = Len(said) + 1 /\ Len(said) \in Nat
    BY <1>2, <1>3
  <2>8. \A i \in 1 .. Len(chat) : chat[i] <= Len(said')
    BY <2>1, <2>7
  <2> QED BY <1>9, <2>1, <2>2, <2>3, <2>4, <2>5, <2>6, <2>7, <2>8 DEF OrderInv
<1>20. VoiceInv'
  BY <1>2, <1>6 DEF FlowInv, VoiceInv, Doomed
<1> QED BY <1>10, <1>11, <1>12, <1>13, <1>14, <1>15, <1>16, <1>17, <1>18, <1>19, <1>20 DEF FlowInv

\* A turn is begun or given up: the state of an open call changes, and nothing else that is seen.
LEMMA OpenMoves ==
  ASSUME FlowInv, NEW c \in Calls, NEW a \in {"turn", "nothing"},
         call' = [call EXCEPT ![c].at = a], call[c].at \in {"asked", "kept", "turn"},
         call[c].kind = "user" => call[c].at # "asked", call[c].at = "kept" => call[c].kind = "user",
         answers' = IF a = "turn" THEN answers ELSE Append(answers, c),
         UNCHANGED <<said, pending, typing, next, pipe, interjected, chat, processing, dubbing,
                     speaking, entering, continuing, due, voiced, lost, known, loading, active, waiting>>
  PROVE  FlowInv'
<1>1. /\ call' \in Seq(CallRecord) /\ Len(call') = Len(call) /\ Calls' = Calls
      /\ \A d \in Calls : /\ call'[d].kind = call[d].kind /\ call'[d].user = call[d].user /\ call'[d].m = call[d].m
                          /\ call'[d].at = IF d = c THEN a ELSE call[d].at
  <2>1. GroupTypeInv /\ a \in {"asked", "kept", "turn", "given", "nothing", "done"}
    BY DEF FlowInv
  <2>2. /\ call' \in Seq(CallRecord) /\ Len(call') = Len(call) /\ Calls' = Calls
        /\ \A d \in Calls : /\ call'[d].kind = call[d].kind /\ call'[d].q = call[d].q
                            /\ call'[d].user = call[d].user /\ call'[d].m = call[d].m
                            /\ call'[d].at = IF d = c THEN a ELSE call[d].at
    BY <2>1, CallEnds, Zenon
  <2> QED BY <2>2
<1>2. /\ c = Len(call) /\ \A d \in Calls : d # c => call[d].at = "done"
  BY OpenCall
<1>3. answers = <<>>
  BY <1>2 DEF FlowInv, AnswersInv
<1>4. \A m : (Response(m) <=> Response(m)')
  BY DEF Response, Said
<1>5. \A d : (Interjecting(d) <=> Interjecting(d)')
  BY DEF Interjecting
<1>6. \A m : Coming(m)' => Coming(m)
  BY <1>1 DEF Coming
<1>7. GroupTypeInv' /\ AnswersInv'
  <2>1. answers' \in {<<>>, <<c>>} /\ (answers' = <<c>> => a = "nothing")
    BY <1>3
  <2>2. c \in Nat
    BY GroupLengths DEF FlowInv
  <2>3. <<c>> \in Seq(Nat) /\ <<>> \in Seq(Nat)
    BY <2>2
  <2>4. AnswersInv'
    BY <1>1, <2>1 DEF AnswersInv
  <2> QED BY <1>1, <2>1, <2>3, <2>4 DEF FlowInv, GroupTypeInv
<1>8. CallsInv'
  BY <1>1, <1>2, <1>4 DEF FlowInv, CallsInv
<1>9. OpenInv'
  BY <1>1 DEF FlowInv, OpenInv
<1>10. PreparedInv' /\ SpeakInv' /\ TimerInv'
  BY <1>4 DEF FlowInv, PreparedInv, SpeakInv, TimerInv
<1>11. InterjectedInv'
  <2>1. \A d : Interjecting(d) => d # c
    BY OpenCall
  <2> QED BY <1>1, <1>5, <2>1 DEF FlowInv, InterjectedInv
<1>12. FirstInv' /\ OrderInv'
  <2>1. Doomed => Doomed'
    BY DEF Doomed
  <2>2. \A d \in Calls :
          /\ call'[d].kind = call[d].kind /\ call'[d].user = call[d].user /\ call'[d].m = call[d].m
          /\ call'[d].at = "given" => call[d].at = "given"
          /\ call'[d].at # "done" => call[d].at # "done"
          /\ call'[d].at \in {"asked", "turn"} /\ call[d].kind = "ahead" => call[d].at \in {"asked", "turn"}
    <3>1. call[c].kind = "ahead" => call[c].at \in {"asked", "turn"}
      BY DEF FlowInv, CallsInv
    <3> QED BY <1>1, <3>1
  <2> QED BY <1>1, <1>5, <1>6, <2>1, <2>2, OrderStays
<1>13. VoiceInv'
  BY DEF FlowInv, VoiceInv, Doomed
<1> QED BY <1>7, <1>8, <1>9, <1>10, <1>11, <1>12, <1>13 DEF FlowInv

LEMMA GroupBegin ==
  ASSUME FlowInv, NEW c \in Calls, G!Begin(c) \/ G!GiveUp(c)
  PROVE  FlowInv'
<1>1. /\ call[c].at \in {"asked", "kept", "turn"} /\ (call[c].kind = "user" => call[c].at # "asked")
      /\ call[c].at = "kept" => call[c].kind = "user"
      /\ \/ call' = [call EXCEPT ![c].at = "turn"] /\ answers' = answers
         \/ call' = [call EXCEPT ![c].at = "nothing"] /\ answers' = Append(answers, c)
      /\ UNCHANGED <<said, pending, typing, next, pipe, interjected, chat, processing, dubbing,
                     speaking, entering, continuing, due, voiced, lost, known, loading, active, waiting>>
  <2>1. CASE G!Begin(c)
    BY <2>1 DEF G!Begin, G!At, G!Works, G!Ends, G!Answers, G!gui, G!refs, G!flow, G!history
  <2>2. CASE G!GiveUp(c)
    BY <2>2 DEF G!GiveUp, G!At, G!Ends, G!Answers, G!gui, G!refs, G!flow, G!history
  <2> QED BY <2>1, <2>2
<1>2. CASE call' = [call EXCEPT ![c].at = "turn"] /\ answers' = answers
  BY <1>1, <1>2, OpenMoves
<1>3. CASE call' = [call EXCEPT ![c].at = "nothing"] /\ answers' = Append(answers, c)
  BY <1>1, <1>3, OpenMoves
<1> QED BY <1>1, <1>2, <1>3

\* The last speaker is that of the last message, if a Qube has spoken it.
LEMMA SpokeLast ==
  ASSUME FlowInv, Response(Len(said))
  PROVE  G!LastSpeaker = said[Len(said)].by
<1>1. Len(said) \in Nat /\ Len(said) \in G!Spoke
  BY GroupConstants, GroupLengths DEF FlowInv, G!Spoke, Response, Said
<1>2. \A m \in G!Spoke : m \in Nat /\ m <= Len(said)
  BY <1>1 DEF G!Spoke
<1>3. (CHOOSE m \in G!Spoke : \A k \in G!Spoke : k <= m) = Len(said)
  <2>1. \A m \in G!Spoke : (\A k \in G!Spoke : k <= m) => m = Len(said)
    BY <1>1, <1>2
  <2> QED BY <1>1, <1>2, <2>1
<1> QED BY <1>1, <1>3 DEF G!LastSpeaker

LEMMA GroupRespond ==
  ASSUME FlowInv, NEW c \in Calls, NEW q \in Qube, NEW guess \in Qube, G!Respond(c, q, guess)
  PROVE  FlowInv'
<1>1. call[c].at = "turn" /\ q # G!LastSpeaker /\ GroupTypeInv
  BY DEF G!Respond, G!At, FlowInv
<1>2. /\ UNCHANGED <<pending, typing, next, pipe, interjected, chat, processing, dubbing,
                     speaking, entering, continuing, due, voiced, lost, known, loading, active, waiting>>
      /\ said' = Append(said, [by |-> q, then |-> guess])
      /\ call' = [call EXCEPT ![c].at = "given", ![c].m = Len(said')]
      /\ answers' = Append(answers, c)
  BY DEF G!Respond, G!Answers, G!gui, G!refs, G!flow, G!history
<1>0. PICK n \in Nat : n = Len(said) + 1
  BY <1>1, GroupLengths
<1>3. /\ said' \in Seq(SaidRecord) /\ Len(said') = n /\ Len(said) \in Nat
      /\ \A m \in Said : said'[m] = said[m]
      /\ said'[n].by = q
  <2>1. q \in Qube \cup {User} /\ guess \in Qube \cup {None}
    OBVIOUS
  <2> QED BY <1>0, <1>1, <1>2, <2>1, SaidMore
<1> DEFINE r == [call[c] EXCEPT !.at = "given", !.m = Len(said')]
<1>4. /\ r \in CallRecord /\ r.kind = call[c].kind /\ r.user = call[c].user /\ r.m = n /\ r.at = "given"
      /\ call' = [call EXCEPT ![c] = r]
  <2>1. call[c] \in CallRecord
    BY <1>1, GroupLengths
  <2>2. call' = [call EXCEPT ![c] = r]
    BY <1>2
  <2>3. r \in CallRecord /\ r.kind = call[c].kind /\ r.user = call[c].user /\ r.m = Len(said') /\ r.at = "given"
    BY <1>3, <2>1 DEF CallRecord
  <2> QED BY <1>3, <2>2, <2>3
<1> HIDE DEF r
<1>5. /\ call' \in Seq(CallRecord) /\ Len(call') = Len(call) /\ Calls' = Calls
      /\ \A d \in Calls : call'[d] = IF d = c THEN r ELSE call[d]
  BY <1>1, <1>4, CallSet
<1>6. /\ c = Len(call) /\ dubbing = {} /\ \A p \in Qube : pipe[p].m = 0
      /\ \A d \in Calls : d # c => call[d].at = "done"
      /\ \A d : Interjecting(d) => d # c /\ d \in Calls
      /\ \A m : ~Coming(m)
      /\ call[c].kind = "user" => entering = {} /\ ~interjected.ready
  BY <1>1, OpenCall
<1>7. \A m : Response(m) => Response(m)' /\ m \in Nat /\ m <= Len(said) /\ said'[m].by = said[m].by
  BY <1>0, <1>3 DEF Response, Said
<1>8. Response(n)' /\ n \in Nat /\ n # 0 /\ Len(said) < n
  BY <1>0, <1>3 DEF Response, Said
<1>9. /\ \A d : Interjecting(d)' <=> Interjecting(d)
      /\ \A m : Coming(m)' => m = n /\ call[c].kind = "ahead"
      /\ \A f : First(f)' => First(f)
      /\ Doomed' <=> Doomed
  <2>1. \A d : Interjecting(d)' <=> Interjecting(d)
    BY <1>2 DEF Interjecting
  <2>2. \A m : Coming(m)' => m = n /\ call[c].kind = "ahead"
    BY <1>2, <1>4, <1>5, <1>6 DEF Coming
  <2>3. \A f : First(f)' => First(f)
    BY <1>2, <1>5, <1>6, <2>1 DEF First
  <2> QED BY <1>2, <2>1, <2>2, <2>3 DEF Doomed
<1>10. GroupTypeInv' /\ AnswersInv'
  <2>1. answers = <<>>
    BY <1>1, <1>6 DEF FlowInv, AnswersInv
  <2>2. answers' = <<c>> /\ c \in Nat
    BY <1>1, <1>2, <2>1, GroupLengths
  <2>3. answers' \in Seq(Nat)
    BY <2>2
  <2>4. AnswersInv'
    BY <1>4, <1>5, <2>2 DEF AnswersInv
  <2> QED BY <1>1, <1>2, <1>3, <1>5, <2>3, <2>4 DEF GroupTypeInv
<1>11. CallsInv'
  <2> SUFFICES ASSUME NEW d \in Calls
               PROVE  /\ call'[d].user <= Len(said')
                      /\ call'[d].m # 0 => call'[d].m \in Said' /\ said'[call'[d].m].by \in Qube
                      /\ call'[d].at = "given" => call'[d].m = Len(said') /\ call'[d].m # 0
                      /\ call'[d].at \in {"asked", "kept", "turn"} => call'[d].m = 0
                      /\ call'[d].kind = "user" /\ call'[d].at \notin {"asked", "done"} => call'[d].user # 0
                      /\ call'[d].kind = "user" /\ call'[d].m # 0
                           => call'[d].user # 0 /\ call'[d].user < call'[d].m
                      /\ d # Len(call') => call'[d].at = "done"
    BY <1>5 DEF CallsInv, Response
  <2>1. /\ call[d].user \in Nat /\ call[d].user <= Len(said) /\ (call[d].m # 0 => Response(call[d].m))
        /\ call[d].kind = "user" /\ call[d].at \notin {"asked", "done"} => call[d].user # 0
        /\ call[d].kind = "user" /\ call[d].m # 0 => call[d].user # 0 /\ call[d].user < call[d].m
    BY <1>1, GroupLengths DEF FlowInv, CallsInv, CallRecord
  <2>2. CASE d = c
    BY <1>1, <1>3, <1>4, <1>5, <1>6, <1>8, <2>1, <2>2 DEF Response
  <2>3. CASE d # c
    BY <1>3, <1>5, <1>6, <1>7, <1>8, <2>1, <2>3 DEF Response
  <2> QED BY <2>2, <2>3
<1>12. OpenInv'
  <2>1. \A d \in Calls' : call'[d].at # "done" => d = c /\ call'[d].kind = call[c].kind
    BY <1>4, <1>5, <1>6
  <2>2. /\ call[c].kind \in {"start", "fresh"} => pending = 0 /\ typing = 0 /\ interjected.of = 0 /\ entering = {}
        /\ call[c].kind = "start" <=> ~known
        /\ call[c].kind = "user" => interjected.of = c /\ ~interjected.ready
    BY <1>1 DEF FlowInv, OpenInv
  <2> QED BY <1>2, <1>6, <2>1, <2>2 DEF OpenInv
<1>13. PreparedInv'
  BY <1>2, <1>6 DEF FlowInv, PreparedInv
<1>14. InterjectedInv'
  <2>1. \A d : Interjecting(d)' => d \in Calls' /\ call'[d].kind = "user" /\ call'[d].at = "done" /\ call'[d].m # 0
    <3>1. \A d : Interjecting(d) => d \in Calls /\ call[d].kind = "user" /\ call[d].at = "done" /\ call[d].m # 0
      BY DEF FlowInv, InterjectedInv
    <3> QED BY <1>5, <1>6, <1>9, <3>1
  <2> QED BY <1>2, <2>1 DEF FlowInv, InterjectedInv
<1>15. SpeakInv' /\ TimerInv'
  BY <1>2, <1>7 DEF FlowInv, SpeakInv, TimerInv
<1>16. FirstInv'
  <2> SUFFICES ASSUME ~Doomed PROVE FirstInv'
    BY <1>9 DEF FirstInv
  <2>1. \A d \in Calls' : ~(call'[d].at \in {"asked", "turn"})
    BY <1>4, <1>5, <1>6
  <2>2. ASSUME NEW m, NEW f, Coming(m)', First(f)'
        PROVE  f # m /\ said'[f].by # said'[m].by
    <3>1. m = n /\ First(f) /\ f = Len(said) /\ Response(f)
      BY <1>1, <1>9, <2>2, FirstSaid DEF FlowInv, FirstInv
    <3>2. said'[f].by = G!LastSpeaker
      BY <1>7, <3>1, SpokeLast
    <3> QED BY <1>1, <1>3, <1>8, <3>1, <3>2
  <2>3. ASSUME NEW d \in Calls, Interjecting(d), entering = {}, pending # 0
        PROVE  FALSE
    <3>1. call[c].kind = "ahead"
      <4>1. call[c].kind \in {"start", "fresh", "ahead", "user"}
        BY <1>1, GroupLengths DEF CallRecord
      <4>2. call[c].kind \in {"start", "fresh"} => pending = 0
        BY <1>1 DEF FlowInv, OpenInv
      <4>3. call[c].kind = "user" => ~Interjecting(d)
        BY <1>6, <2>3 DEF Interjecting
      <4> QED BY <2>3, <4>1, <4>2, <4>3
    <3>2. call[d].m # 0 /\ call[d].kind = "user"
      BY <2>3 DEF FlowInv, InterjectedInv
    <3>3. First(pending) /\ First(call[d].m)
      BY <2>3, <3>2 DEF First
    <3>4. pending = Len(said) /\ call[d].m = Len(said)
      BY <1>1, <3>1, <3>3 DEF FlowInv, FirstInv
    <3>5. pending < call[d].user /\ call[d].user < call[d].m
      BY <2>3, <3>2 DEF FlowInv, OrderInv, CallsInv
    <3>6. call[d].user \in Nat
      BY <1>1, GroupLengths DEF CallRecord
    <3> QED BY <1>3, <3>4, <3>5, <3>6
  <2> QED BY <1>2, <1>5, <1>9, <2>1, <2>2, <2>3 DEF FirstInv
<1>17. OrderInv'
  <2>1. /\ \A i \in 1 .. Len(chat) : chat[i] \in Nat /\ chat[i] <= Len(said)
        /\ \A i, j \in 1 .. Len(chat) : i < j => chat[i] < chat[j]
    <3>1. chat \in Seq(Nat)
      BY <1>1 DEF GroupTypeInv
    <3> QED BY <3>1 DEF FlowInv, OrderInv
  <2>2. \A i \in 1 .. Len(chat) : chat[i] <= Len(said') /\ chat[i] < n
    BY <1>3, <1>8, <2>1
  <2>3. ASSUME ~Doomed, NEW i \in 1 .. Len(chat)
        PROVE  /\ pending # 0 => chat[i] < pending
               /\ \A m : Coming(m)' => chat[i] # m
               /\ \A d \in Calls :
                    /\ call'[d].at = "given" => chat[i] < call'[d].m
                    /\ call'[d].kind = "user" /\ call'[d].at # "done" /\ call'[d].user # 0
                         => chat[i] < call'[d].user
                    /\ Interjecting(d) =>
                         chat[i] < call'[d].m /\ (entering = {} => chat[i] < call'[d].user)
    <3>1. /\ pending # 0 => chat[i] < pending
          /\ \A d \in Calls :
               /\ call[d].kind = "user" /\ call[d].at # "done" /\ call[d].user # 0 => chat[i] < call[d].user
               /\ Interjecting(d) => chat[i] < call[d].m /\ (entering = {} => chat[i] < call[d].user)
      BY <2>3 DEF FlowInv, OrderInv
    <3>2. \A m : Coming(m)' => chat[i] # m
      BY <1>8, <1>9, <2>1, <2>2
    <3> QED BY <1>1, <1>4, <1>5, <1>6, <2>2, <3>1, <3>2
  <2>4. ASSUME ~Doomed, pending # 0, NEW d \in Calls
        PROVE  /\ call'[d].kind = "user" /\ call'[d].at # "done" /\ call'[d].user # 0
                    => pending < call'[d].user
               /\ Interjecting(d) => pending < call'[d].user
    <3>1. /\ call[d].kind = "user" /\ call[d].at # "done" /\ call[d].user # 0 => pending < call[d].user
          /\ Interjecting(d) => pending < call[d].user
      BY <2>4 DEF FlowInv, OrderInv
    <3> QED BY <1>1, <1>4, <1>5, <1>6, <3>1
  <2> QED BY <1>2, <1>5, <1>9, <2>1, <2>2, <2>3, <2>4 DEF OrderInv
<1>18. VoiceInv'
  BY <1>2, <1>9 DEF FlowInv, VoiceInv
<1> QED BY <1>10, <1>11, <1>12, <1>13, <1>14, <1>15, <1>16, <1>17, <1>18 DEF FlowInv

-----------------------------------------------------------------------------
(* GroupChat: answers *)

\* A call that was open is done.
LEMMA AnswerArrives ==
  ASSUME FlowInv, NEW c \in Calls, NEW kind, G!Arrives(c, kind)
  PROVE  /\ call[c].kind = kind /\ call[c].at \in {"given", "nothing"} /\ answers' = <<>>
         /\ c = Len(call) /\ dubbing = {} /\ \A q \in Qube : pipe[q].m = 0
         /\ \A d : Interjecting(d) => d # c /\ d \in Calls
         /\ \A m : Coming(m) => kind = "ahead" /\ call[c].at = "given" /\ m = call[c].m
         /\ kind = "user" => entering = {} /\ ~interjected.ready
         /\ call' \in Seq(CallRecord) /\ Len(call') = Len(call) /\ Calls' = Calls
         /\ \A d \in Calls : /\ call'[d].kind = call[d].kind /\ call'[d].user = call[d].user
                             /\ call'[d].m = call[d].m /\ call'[d].at = "done"
<1>1. /\ call[c].kind = kind /\ answers # <<>> /\ c = Head(answers) /\ answers' = Tail(answers)
      /\ call' = [call EXCEPT ![c].at = "done"]
  BY DEF G!Arrives, G!Ends
<1>2. call[c].at \in {"given", "nothing"} /\ answers' = <<>>
  <2>1. PICK d \in Calls : answers = <<d>> /\ call[d].at \in {"given", "nothing"}
    BY <1>1 DEF FlowInv, AnswersInv
  <2> QED BY <1>1, <2>1
<1>3. /\ call' \in Seq(CallRecord) /\ Len(call') = Len(call) /\ Calls' = Calls
      /\ \A d \in Calls : /\ call'[d].kind = call[d].kind /\ call'[d].user = call[d].user /\ call'[d].m = call[d].m
                          /\ call'[d].at = IF d = c THEN "done" ELSE call[d].at
  <2>1. GroupTypeInv /\ "done" \in {"asked", "kept", "turn", "given", "nothing", "done"}
    BY DEF FlowInv
  <2>2. /\ call' \in Seq(CallRecord) /\ Len(call') = Len(call) /\ Calls' = Calls
        /\ \A d \in Calls : /\ call'[d].kind = call[d].kind /\ call'[d].q = call[d].q
                            /\ call'[d].user = call[d].user /\ call'[d].m = call[d].m
                            /\ call'[d].at = IF d = c THEN "done" ELSE call[d].at
    BY <1>1, <2>1, CallEnds, Zenon
  <2> QED BY <2>2
<1>4. /\ c = Len(call) /\ dubbing = {} /\ \A q \in Qube : pipe[q].m = 0
      /\ \A d \in Calls : d # c => call[d].at = "done"
      /\ \A d : Interjecting(d) => d # c /\ d \in Calls
      /\ \A m : Coming(m) => call[c].kind = "ahead" /\ call[c].at = "given" /\ m = call[c].m
      /\ call[c].kind = "user" => entering = {} /\ ~interjected.ready
  BY <1>2, OpenCall
<1> QED BY <1>1, <1>2, <1>3, <1>4

\* Then no call is open.
LEMMA NoOpenCall ==
  ASSUME FlowInv, NEW c \in Calls, NEW kind, G!Arrives(c, kind), said' = said
  PROVE  CallsInv' /\ AnswersInv' /\ OpenInv'
<1>1. \A m : Response(m) => Response(m)'
  BY DEF Response, Said
<1>2. CallsInv'
  BY <1>1, AnswerArrives DEF FlowInv, CallsInv
<1> QED BY <1>2, AnswerArrives DEF AnswersInv, OpenInv

\* The first response, or that of a turn that was asked for, is to be spoken.
LEMMA AnswerShown ==
  ASSUME FlowInv, NEW c \in Calls, NEW kind \in {"start", "fresh"}, G!Arrives(c, kind),
         call[c].at = "given", next' = said[call[c].m].then, pending' = call[c].m,
         known',
         G!Renders(FALSE),
         UNCHANGED <<said, typing, pipe, interjected, chat, processing, dubbing, speaking,
                     entering, continuing, voiced, lost, loading, active, waiting>>
  PROVE  FlowInv'
<1>1. /\ c = Len(call) /\ dubbing = {} /\ \A q \in Qube : pipe[q].m = 0
      /\ answers' = <<>> /\ call' \in Seq(CallRecord) /\ Calls' = Calls
      /\ \A d \in Calls : /\ call'[d].kind = call[d].kind /\ call'[d].user = call[d].user
                          /\ call'[d].m = call[d].m /\ call'[d].at = "done"
  BY AnswerArrives
<1>2. call[c].kind = kind
  BY AnswerArrives
<1>3. /\ pending = 0 /\ typing = 0 /\ interjected.of = 0 /\ entering = {} /\ ~interjected.ready
      /\ speaking = {} /\ processing = 0
  <2>1. pending = 0 /\ typing = 0 /\ interjected.of = 0 /\ entering = {}
    BY <1>2 DEF FlowInv, OpenInv
  <2>2. ~interjected.ready
    BY <2>1 DEF FlowInv, InterjectedInv, Interjecting, Calls
  <2> QED BY <2>1, <2>2 DEF FlowInv, SpeakInv
<1>4. pending' = Len(said) /\ pending' # 0 /\ Response(pending') /\ pending' \in Nat
  BY GroupLengths DEF FlowInv, CallsInv
<1>5. \A m : ~Coming(m)'
  BY <1>1 DEF Coming
<1>6. \A d : ~Interjecting(d)'
  BY <1>3 DEF Interjecting
<1>7. GroupTypeInv'
  <2>1. next' \in Qube \cup {None}
    BY <1>4, GroupLengths DEF FlowInv, Response, SaidRecord
  <2>2. answers' \in Seq(Nat)
    BY <1>1
  <2> QED BY <1>1, <1>4, <2>1, <2>2 DEF FlowInv, GroupTypeInv
<1>8. CallsInv' /\ AnswersInv' /\ OpenInv'
  BY NoOpenCall
<1>9. PreparedInv'
  BY DEF FlowInv, PreparedInv
<1>10. InterjectedInv'
  BY <1>3, <1>6 DEF InterjectedInv
<1>11. SpeakInv'
  BY <1>3, <1>4 DEF SpeakInv, Response, Said
<1>12. TimerInv'
  <2>1. "continue" \in due'
    BY <1>3, <1>4, Rendered
  <2> QED BY <2>1 DEF TimerInv
<1>13. FirstInv'
  BY <1>1, <1>5, <1>6 DEF FirstInv
<1>14. OrderInv'
  <2>1. \A i \in 1 .. Len(chat) : chat[i] <= Len(said) /\ chat[i] < call[c].m
    BY <1>3 DEF FlowInv, OrderInv, Doomed
  <2>2. \A i, j \in 1 .. Len(chat) : i < j => chat[i] < chat[j]
    BY DEF FlowInv, OrderInv
  <2> QED BY <1>1, <1>5, <1>6, <2>1, <2>2 DEF OrderInv
<1>15. VoiceInv'
  BY <1>3 DEF FlowInv, VoiceInv
<1> QED BY <1>7, <1>8, <1>9, <1>10, <1>11, <1>12, <1>13, <1>14, <1>15 DEF FlowInv

\* An error ends the activity.
LEMMA AnswerFails ==
  ASSUME FlowInv, NEW c \in Calls, NEW kind, G!Arrives(c, kind), kind # "ahead",
         loading' = FALSE, active' = FALSE, G!Renders(FALSE),
         UNCHANGED <<said, pending, known, next, typing, pipe, interjected, chat, processing, dubbing, speaking,
                     entering, continuing, voiced, lost, waiting>>
  PROVE  FlowInv'
<1>1. /\ answers' = <<>> /\ call' \in Seq(CallRecord) /\ Calls' = Calls
      /\ \A d \in Calls : /\ call'[d].kind = call[d].kind /\ call'[d].user = call[d].user
                          /\ call'[d].m = call[d].m /\ call'[d].at = "done"
      /\ \A m : ~Coming(m)
  BY AnswerArrives
<1>2. \A d : Interjecting(d)' <=> Interjecting(d)
  BY DEF Interjecting
<1>3. \A m : Coming(m)' => Coming(m)
  BY <1>1 DEF Coming
<1>4. "user" \in due' <=> "user" \in due
  BY Rendered
<1>5. "continue" \in due => "continue" \in due'
  BY Rendered
<1>6. GroupTypeInv'
  <2>1. answers' \in Seq(Nat)
    BY <1>1
  <2> QED BY <1>1, <2>1 DEF FlowInv, GroupTypeInv
<1>7. CallsInv' /\ AnswersInv' /\ OpenInv'
  BY NoOpenCall
<1>8. PreparedInv' /\ SpeakInv' /\ VoiceInv'
  BY DEF FlowInv, PreparedInv, SpeakInv, VoiceInv, Doomed, Response, Said
<1>9. InterjectedInv'
  BY <1>1, <1>2, <1>4 DEF FlowInv, InterjectedInv
<1>10. TimerInv'
  BY <1>5 DEF FlowInv, TimerInv
<1>11. FirstInv' /\ OrderInv'
  BY <1>1, <1>2, <1>3, OrderStays DEF Doomed
<1> QED BY <1>6, <1>7, <1>8, <1>9, <1>10, <1>11 DEF FlowInv

LEMMA GroupStarted ==
  ASSUME FlowInv, NEW c \in Calls, G!Started(c)
  PROVE  FlowInv'
<1>1. /\ G!Arrives(c, "start") /\ G!Renders(FALSE)
      /\ UNCHANGED <<said, typing, pipe, interjected, chat, processing, dubbing, speaking,
                     entering, continuing, voiced, lost, waiting>>
  BY DEF G!Started, G!refs, G!flow, G!history
<1>2. CASE call[c].at = "given"
  <2>1. /\ known' = TRUE /\ next' = said[call[c].m].then /\ pending' = call[c].m
        /\ UNCHANGED <<loading, active>>
    BY <1>2 DEF G!Started, G!At
  <2>2. known'
    BY <2>1
  <2> QED BY <1>1, <1>2, <2>1, <2>2, AnswerShown
<1>3. CASE call[c].at # "given"
  <2>1. loading' = FALSE /\ active' = FALSE /\ UNCHANGED <<known, next, pending>>
    BY <1>3 DEF G!Started, G!At
  <2> QED BY <1>1, <2>1, AnswerFails
<1> QED BY <1>2, <1>3

LEMMA GroupContinued ==
  ASSUME FlowInv, NEW c \in Calls, G!Continued(c)
  PROVE  FlowInv'
<1>1. /\ G!Arrives(c, "fresh") /\ G!Renders(FALSE)
      /\ UNCHANGED <<said, known, typing, pipe, interjected, chat, processing, dubbing, speaking,
                     entering, continuing, voiced, lost, waiting>>
  BY DEF G!Continued, G!flow, G!history
<1>2. CASE call[c].at = "given"
  <2>1. next' = said[call[c].m].then /\ pending' = call[c].m /\ UNCHANGED <<loading, active>>
    BY <1>2 DEF G!Continued, G!At
  <2>2. known'
    <3>1. call[c].kind = "fresh" /\ call[c].at = "given" /\ known' = known
      BY <1>1, <1>2 DEF G!Arrives
    <3> QED BY <3>1 DEF FlowInv, OpenInv
  <2> QED BY <1>1, <1>2, <2>1, <2>2, AnswerShown
<1>3. CASE call[c].at # "given"
  <2>1. loading' = FALSE /\ active' = FALSE /\ UNCHANGED <<next, pending>>
    BY <1>3 DEF G!Continued, G!At
  <2> QED BY <1>1, <2>1, AnswerFails
<1> QED BY <1>2, <1>3

\* The speech of a response is made ahead, or nothing is prepared.
LEMMA GroupPrefetched ==
  ASSUME FlowInv, NEW c \in Calls, G!Prefetched(c)
  PROVE  FlowInv'
<1>1. /\ G!Arrives(c, "ahead") /\ G!Renders(TRUE)
      /\ UNCHANGED <<said, known, loading, active, pending, typing, interjected, chat, waiting, processing,
                     speaking, entering, continuing, voiced, lost>>
  BY DEF G!Prefetched, G!history
<1>2. /\ c = Len(call) /\ dubbing = {} /\ \A q \in Qube : pipe[q].m = 0
      /\ answers' = <<>> /\ call' \in Seq(CallRecord) /\ Calls' = Calls
      /\ call[c].kind = "ahead" /\ call[c].at \in {"given", "nothing"} /\ known
      /\ \A d \in Calls : /\ call'[d].kind = call[d].kind /\ call'[d].user = call[d].user
                          /\ call'[d].m = call[d].m /\ call'[d].at = "done"
  BY <1>1, AnswerArrives DEF FlowInv, OpenInv
<1>3. pipe \in [Qube -> [status : {"idle", "generating_tts", "ready"}, m : Nat, audio : Nat]]
  BY DEF FlowInv, GroupTypeInv
<1>4. \A d : Interjecting(d)' <=> Interjecting(d)
  BY <1>1 DEF Interjecting
<1>5. \A m : Response(m)' <=> Response(m)
  BY <1>1 DEF Response, Said
<1>6. "continue" \in due' /\ ("user" \in due' <=> "user" \in due)
  BY <1>1, Rendered
<1>7. CallsInv' /\ AnswersInv' /\ OpenInv'
  BY <1>1, NoOpenCall
<1>8. /\ pipe' \in [Qube -> [status : {"idle", "generating_tts", "ready"}, m : Nat, audio : Nat]]
      /\ next' \in Qube \cup {None}
      /\ PreparedInv' /\ \A m : Coming(m)' => Coming(m)
  <2>1. CASE call[c].at = "given"
    <3>1. PICK m : m = call[c].m
      OBVIOUS
    <3>2. m = Len(said) /\ m # 0 /\ Response(m) /\ m \in Nat /\ Coming(m)
      BY <1>2, <2>1, <3>1, GroupLengths DEF FlowInv, CallsInv, Coming
    <3>3. PICK q \in Qube : q = said[m].by
      BY <3>2 DEF Response
    <3>4. PICK others : others = [pipe EXCEPT ![call[c].q] = IF call[c].q = q THEN @ ELSE G!Empty]
      OBVIOUS
    <3>5. /\ others \in [Qube -> [status : {"idle", "generating_tts", "ready"}, m : Nat, audio : Nat]]
          /\ \A p \in Qube : others[p].m = 0 /\ others[p].audio \in {0, pipe[p].audio}
      BY <1>2, <1>3, <3>4 DEF G!Empty
    <3>6. /\ pipe' = [others EXCEPT ![q].status = "generating_tts", ![q].m = m]
          /\ next' = q /\ dubbing' = dubbing \cup {m}
      BY <2>1, <3>1, <3>3, <3>4 DEF G!Prefetched, G!At
    <3>7. /\ pipe'[q].status = "generating_tts" /\ pipe'[q].m = m /\ pipe'[q].audio = others[q].audio
          /\ \A p \in Qube : p # q => pipe'[p] = others[p]
          /\ pipe' \in [Qube -> [status : {"idle", "generating_tts", "ready"}, m : Nat, audio : Nat]]
      BY <3>2, <3>5, <3>6
    <3>8. dubbing' = {m}
      BY <1>2, <3>6
    <3>9. \A k : Coming(k)' => k = m
      BY <1>2, <3>5, <3>7, <3>8 DEF Coming
    <3>10. \A p \in Qube : pipe[p].audio \in {0} \cup lost
      BY <1>2 DEF FlowInv, PreparedInv
    <3>11. PreparedInv'
      BY <1>1, <1>2, <3>2, <3>3, <3>5, <3>7, <3>8, <3>10 DEF PreparedInv
    <3> QED BY <3>2, <3>6, <3>7, <3>9, <3>11
  <2>2. CASE call[c].at = "nothing"
    <3>1. pipe' = [pipe EXCEPT ![call[c].q].status = "idle"] /\ UNCHANGED <<next, dubbing>>
      BY <2>2 DEF G!Prefetched, G!At
    <3>2. /\ pipe' \in [Qube -> [status : {"idle", "generating_tts", "ready"}, m : Nat, audio : Nat]]
          /\ \A p \in Qube : pipe'[p].m = pipe[p].m /\ pipe'[p].audio = pipe[p].audio
      BY <1>3, <3>1
    <3>3. \A k : Coming(k)' => Coming(k)
      BY <1>2, <3>1, <3>2 DEF Coming
    <3>4. PreparedInv'
      BY <1>1, <1>2, <3>1, <3>2 DEF FlowInv, PreparedInv
    <3> QED BY <3>1, <3>2, <3>3, <3>4 DEF FlowInv, GroupTypeInv
  <2> QED BY <1>2, <2>1, <2>2
<1>9. GroupTypeInv'
  <2>1. answers' \in Seq(Nat)
    BY <1>2
  <2> QED BY <1>1, <1>2, <1>8, <2>1 DEF FlowInv, GroupTypeInv
<1>10. InterjectedInv'
  BY <1>1, <1>2, <1>4, <1>6 DEF FlowInv, InterjectedInv
<1>11. SpeakInv' /\ TimerInv'
  BY <1>1, <1>5, <1>6 DEF FlowInv, SpeakInv, TimerInv
<1>12. FirstInv' /\ OrderInv'
  BY <1>1, <1>2, <1>4, <1>8, OrderStays DEF Doomed
<1>13. VoiceInv'
  BY <1>1 DEF FlowInv, VoiceInv, Doomed
<1> QED BY <1>7, <1>8, <1>9, <1>10, <1>11, <1>12, <1>13 DEF FlowInv

\* The answer to an interjection waits to be shown.
LEMMA GroupInterjected ==
  ASSUME FlowInv, NEW c \in Calls, G!Interjected(c)
  PROVE  FlowInv'
<1>1. /\ G!Arrives(c, "user") /\ G!Renders(FALSE)
      /\ UNCHANGED <<said, known, loading, active, pending, typing, next, pipe, chat, processing, dubbing,
                     speaking, entering, continuing, voiced, lost>>
  BY DEF G!Interjected, G!flow
<1>2. /\ dubbing = {} /\ \A q \in Qube : pipe[q].m = 0
      /\ answers' = <<>> /\ call' \in Seq(CallRecord) /\ Calls' = Calls
      /\ call[c].kind = "user" /\ call[c].at \in {"given", "nothing"} /\ entering = {} /\ ~interjected.ready
      /\ \A d \in Calls : /\ call'[d].kind = call[d].kind /\ call'[d].user = call[d].user
                          /\ call'[d].m = call[d].m /\ call'[d].at = "done"
  BY <1>1, AnswerArrives
<1>3. interjected.of = c /\ c # 0 /\ c \in Nat
  BY <1>2 DEF FlowInv, OpenInv, Calls
<1>4. /\ \A d : ~Interjecting(d)
      /\ \A m : ~Coming(m)'
  BY <1>1, <1>2 DEF Interjecting, Coming
<1>5. CallsInv' /\ AnswersInv' /\ OpenInv' /\ PreparedInv' /\ SpeakInv' /\ VoiceInv'
  <2>1. CallsInv' /\ AnswersInv' /\ OpenInv'
    BY <1>1, NoOpenCall
  <2>2. PreparedInv' /\ SpeakInv' /\ VoiceInv'
    BY <1>1 DEF FlowInv, PreparedInv, SpeakInv, VoiceInv, Doomed, Response, Said
  <2> QED BY <2>1, <2>2
<1>6. CASE call[c].at = "given"
  <2>1. interjected' = [of |-> c, ready |-> TRUE] /\ waiting' = waiting
    BY <1>6 DEF G!Interjected, G!At
  <2>2. "user" \in due' /\ ("continue" \in due => "continue" \in due')
    <3>1. interjected' # interjected
      BY <1>2, <2>1
    <3> QED BY <1>1, <3>1, Rendered
  <2>3. GroupTypeInv'
    <3>1. answers' \in Seq(Nat) /\ interjected' \in [of : Nat, ready : BOOLEAN]
      BY <1>2, <1>3, <2>1
    <3> QED BY <1>1, <1>2, <3>1 DEF FlowInv, GroupTypeInv
  <2>4. \A d : Interjecting(d)' <=> d = c
    BY <1>1, <1>2, <2>1 DEF Interjecting
  <2>5. call[c].m = Len(said) /\ call[c].m # 0 /\ call[c].user # 0 /\ call[c].user < call[c].m
    BY <1>2, <1>6 DEF FlowInv, CallsInv
  <2>6. InterjectedInv'
    <3>1. waiting /\ known
      BY <1>3 DEF FlowInv, InterjectedInv
    <3> QED BY <1>1, <1>2, <2>1, <2>2, <2>4, <2>5, <3>1 DEF InterjectedInv
  <2>7. TimerInv'
    BY <1>1, <2>1, <2>2 DEF FlowInv, TimerInv
  <2>8. FirstInv'
    BY <1>1, <1>2, <1>4, <2>4, <2>5 DEF FirstInv
  <2>9. OrderInv'
    <3>1. /\ \A i \in 1 .. Len(chat) :
               /\ chat[i] <= Len(said) /\ (pending # 0 => chat[i] < pending)
               /\ chat[i] < call[c].m /\ chat[i] < call[c].user
          /\ pending # 0 => pending < call[c].user
          /\ \A i, j \in 1 .. Len(chat) : i < j => chat[i] < chat[j]
      BY <1>2, <1>6, <2>5 DEF FlowInv, OrderInv, Doomed
    <3> QED BY <1>1, <1>2, <1>4, <2>4, <3>1 DEF OrderInv
  <2> QED BY <1>5, <2>3, <2>6, <2>7, <2>8, <2>9 DEF FlowInv
<1>7. CASE call[c].at = "nothing"
  <2>1. interjected' = G!NoInterjection /\ waiting' = FALSE
    BY <1>7 DEF G!Interjected, G!At
  <2>2. "continue" \in due => "continue" \in due'
    BY <1>1, Rendered
  <2>3. interjected'.of = 0 /\ ~interjected'.ready /\ interjected' \in [of : Nat, ready : BOOLEAN]
    BY <2>1 DEF G!NoInterjection
  <2>4. GroupTypeInv'
    <3>1. answers' \in Seq(Nat)
      BY <1>2
    <3> QED BY <1>1, <1>2, <2>3, <3>1 DEF FlowInv, GroupTypeInv
  <2>5. \A d : ~Interjecting(d)'
    BY <1>1, <1>2, <2>3 DEF Interjecting
  <2>6. InterjectedInv'
    BY <1>1, <1>2, <2>3, <2>5 DEF InterjectedInv
  <2>7. TimerInv'
    BY <1>1, <2>1, <2>2 DEF FlowInv, TimerInv
  <2>8. FirstInv' /\ OrderInv'
    BY <1>1, <1>2, <1>4, <2>5, OrderStays DEF Doomed
  <2> QED BY <1>5, <2>4, <2>6, <2>7, <2>8 DEF FlowInv
<1> QED BY <1>2, <1>6, <1>7

-----------------------------------------------------------------------------
(* GroupChat: calls *)

\* The conversation is begun, or goes on: nothing is shown or to be shown.
LEMMA TurnAsked ==
  ASSUME FlowInv, NEW kind \in {"start", "fresh"}, G!Asks(kind, None), ~crossed',
         pending = 0, typing = 0, interjected.of = 0, entering = {}, kind = "start" <=> ~known,
         active' \in BOOLEAN, ~known => loading', continuing' = FALSE, "user" \in due => "user" \in due',
         UNCHANGED <<answers, said, known, pending, typing, next, pipe, interjected, chat, waiting, processing,
                     dubbing, speaking, entering, voiced, lost>>
  PROVE  FlowInv'
<1> DEFINE n == Len(call) + 1
<1>1. /\ call' \in Seq(CallRecord) /\ Len(call') = n /\ Len(call) \in Nat
      /\ \A d \in Calls : call'[d] = call[d] /\ call[d].at = "done"
      /\ Calls' = Calls \cup {n} /\ n \notin Calls
      /\ call'[n].kind = kind /\ call'[n].at = "asked" /\ call'[n].user = 0 /\ call'[n].m = 0
      /\ dubbing = {} /\ \A p \in Qube : pipe[p].m = 0
  BY CallAsked DEF FlowInv
<1> HIDE DEF n
<1>2. ~interjected.ready
  BY DEF FlowInv, InterjectedInv, Interjecting, Calls
<1>3. (\A d : ~Interjecting(d)') /\ \A m : ~Coming(m)'
  <2>1. \A d : ~Interjecting(d)'
    BY <1>2 DEF Interjecting
  <2>2. \A m : ~Coming(m)'
    BY <1>1 DEF Coming
  <2> QED BY <2>1, <2>2
<1>4. \A m : Response(m)' <=> Response(m)
  BY DEF Response, Said
<1>5. GroupTypeInv'
  BY <1>1 DEF FlowInv, GroupTypeInv
<1>6. CallsInv'
  <2>1. \A d \in Calls : /\ call[d].user <= Len(said) /\ (call[d].m # 0 => Response(call[d].m))
                         /\ call[d].kind = "user" /\ call[d].m # 0
                              => call[d].user # 0 /\ call[d].user < call[d].m
    BY DEF FlowInv, CallsInv
  <2>2. 0 <= Len(said)
    BY GroupLengths DEF FlowInv
  <2> QED BY <1>1, <1>4, <2>1, <2>2 DEF CallsInv
<1>7. AnswersInv'
  BY <1>1 DEF FlowInv, AnswersInv
<1>8. OpenInv'
  BY <1>1 DEF OpenInv
<1>9. PreparedInv' /\ SpeakInv' /\ VoiceInv'
  BY <1>4 DEF FlowInv, PreparedInv, SpeakInv, VoiceInv, Doomed
<1>10. InterjectedInv'
  BY <1>2, <1>3 DEF InterjectedInv
<1>11. TimerInv'
  BY DEF TimerInv
<1>12. FirstInv' /\ OrderInv'
  BY <1>1, <1>3, OrderStays DEF Doomed
<1> QED BY <1>5, <1>6, <1>7, <1>8, <1>9, <1>10, <1>11, <1>12 DEF FlowInv

LEMMA GroupStart ==
  ASSUME FlowInv, G!Start, ~crossed'
  PROVE  FlowInv'
<1>1. /\ ~known /\ ~loading /\ G!Asks("start", None) /\ loading' = TRUE /\ active' = TRUE /\ G!Renders(FALSE)
      /\ UNCHANGED <<answers, said, known, pending, typing, next, pipe, interjected, chat, waiting, processing,
                     dubbing, speaking, entering, continuing, voiced, lost>>
  BY DEF G!Start, G!flow, G!history
<1>2. pending = 0 /\ typing = 0 /\ ~continuing /\ interjected.of = 0 /\ entering = {}
  BY <1>1 DEF FlowInv, TimerInv, InterjectedInv
<1>3. "user" \in due => "user" \in due'
  BY <1>1, Rendered
<1>4. continuing' = FALSE
  BY <1>1, <1>2
<1> QED BY <1>1, <1>2, <1>3, <1>4, TurnAsked

LEMMA GroupContinue ==
  ASSUME FlowInv, due = {}, G!Continue, ~crossed'
  PROVE  FlowInv'
<1>1. /\ continuing /\ continuing' = FALSE
      /\ UNCHANGED <<answers, said, known, loading, active, pending, typing, next, pipe, interjected, chat,
                     waiting, processing, dubbing, speaking, entering, due, voiced, lost>>
  BY DEF G!Continue, G!history
<1>2. pending = 0 /\ typing = 0 /\ ~waiting /\ entering = {} /\ known
  BY <1>1 DEF FlowInv, TimerInv
<1>3. interjected.of = 0
  BY <1>2 DEF FlowInv, InterjectedInv
<1>4. CASE fetching
  <2>1. call' = call
    BY <1>4 DEF G!Continue
  <2>2. /\ GroupTypeInv' /\ CallsInv' /\ AnswersInv' /\ OpenInv' /\ PreparedInv'
    BY <1>1, <2>1 DEF FlowInv, GroupTypeInv, CallsInv, AnswersInv, OpenInv, PreparedInv, Calls, Response, Said
  <2>3. SpeakInv' /\ VoiceInv' /\ TimerInv'
    BY <1>1, <1>2, <2>1 DEF FlowInv, SpeakInv, VoiceInv, TimerInv, Doomed, Response, Said
  <2>4. InterjectedInv'
    BY <1>1, <2>1 DEF FlowInv, InterjectedInv, Interjecting, Calls
  <2>5. FirstInv' /\ OrderInv'
    <3>1. \A d : Interjecting(d)' <=> Interjecting(d)
      BY <1>1 DEF Interjecting
    <3>2. \A m : Coming(m)' <=> Coming(m)
      BY <1>1, <2>1 DEF Coming, Calls
    <3>3. Calls' = Calls
      BY <2>1 DEF Calls
    <3> QED BY <1>1, <2>1, <3>1, <3>2, <3>3, OrderStays DEF Doomed
  <2> QED BY <2>2, <2>3, <2>4, <2>5 DEF FlowInv
<1>5. CASE ~fetching
  <2>1. G!Asks("fresh", None)
    BY <1>5 DEF G!Continue
  <2> QED BY <1>1, <1>2, <1>3, <2>1, TurnAsked DEF FlowInv, GroupTypeInv
<1> QED BY <1>4, <1>5

\* The user says something: what is prepared is dropped.
LEMMA GroupInterject ==
  ASSUME FlowInv, due = {}, entering = {}, G!Interject, ~crossed'
  PROVE  FlowInv'
<1> DEFINE n == Len(call) + 1
<1>1. /\ known /\ G!Asks("user", None) /\ pipe' = G!NoPipes /\ next' = None /\ waiting' = TRUE
      /\ interjected' = [of |-> Len(call'), ready |-> FALSE] /\ lost \subseteq lost' /\ G!Renders(TRUE)
      /\ UNCHANGED <<answers, said, known, loading, active, pending, typing, chat, processing,
                     dubbing, speaking, entering, continuing, voiced>>
  BY DEF G!Interject, G!ClearPipes, G!Drops, G!flow
<1>2. /\ call' \in Seq(CallRecord) /\ Len(call') = n /\ Len(call) \in Nat
      /\ \A d \in Calls : call'[d] = call[d] /\ call[d].at = "done"
      /\ Calls' = Calls \cup {n} /\ n \notin Calls
      /\ call'[n].kind = "user" /\ call'[n].at = "asked" /\ call'[n].user = 0 /\ call'[n].m = 0
      /\ dubbing = {}
  BY <1>1, CallAsked DEF FlowInv
<1>3. /\ pipe' \in [Qube -> [status : {"idle", "generating_tts", "ready"}, m : Nat, audio : Nat]]
      /\ \A q \in Qube : pipe'[q].m = 0 /\ pipe'[q].audio = 0
  BY <1>1 DEF G!NoPipes, G!Empty
<1>4. interjected'.of = n /\ ~interjected'.ready /\ interjected' \in [of : Nat, ready : BOOLEAN]
  BY <1>1, <1>2
<1> HIDE DEF n
<1>5. (\A d : ~Interjecting(d)') /\ \A m : ~Coming(m)'
  <2>1. \A d : ~Interjecting(d)'
    BY <1>1, <1>4 DEF Interjecting
  <2>2. \A m : ~Coming(m)'
    BY <1>1, <1>2, <1>3 DEF Coming
  <2> QED BY <2>1, <2>2
<1>6. \A m : Response(m)' <=> Response(m)
  BY <1>1 DEF Response, Said
<1>7. GroupTypeInv'
  BY <1>1, <1>2, <1>3, <1>4 DEF FlowInv, GroupTypeInv
<1>8. CallsInv'
  <2>1. \A d \in Calls : /\ call[d].user <= Len(said) /\ (call[d].m # 0 => Response(call[d].m))
                         /\ call[d].kind = "user" /\ call[d].m # 0
                              => call[d].user # 0 /\ call[d].user < call[d].m
    BY DEF FlowInv, CallsInv
  <2>2. 0 <= Len(said)
    BY GroupLengths DEF FlowInv
  <2> QED BY <1>1, <1>2, <1>6, <2>1, <2>2 DEF CallsInv
<1>9. AnswersInv'
  BY <1>1, <1>2 DEF FlowInv, AnswersInv
<1>10. OpenInv'
  BY <1>1, <1>2, <1>3, <1>4 DEF OpenInv
<1>11. PreparedInv'
  BY <1>1, <1>2, <1>3 DEF PreparedInv
<1>12. SpeakInv' /\ VoiceInv'
  BY <1>1, <1>6 DEF FlowInv, SpeakInv, VoiceInv, Doomed
<1>13. InterjectedInv'
  BY <1>1, <1>4, <1>5 DEF InterjectedInv
<1>14. TimerInv'
  <2>1. "continue" \in due'
    BY <1>1, Rendered
  <2> QED BY <1>1, <2>1 DEF TimerInv
<1>15. FirstInv' /\ OrderInv'
  BY <1>1, <1>2, <1>5, OrderStays DEF Doomed
<1> QED BY <1>7, <1>8, <1>9, <1>10, <1>11, <1>12, <1>13, <1>14, <1>15 DEF FlowInv

-----------------------------------------------------------------------------
(* GroupChat: what is spoken, typed and shown *)

\* Speech was made ahead.
LEMMA GroupDubbed ==
  ASSUME FlowInv, NEW m \in dubbing, NEW ok \in BOOLEAN, G!Dubbed(m, ok)
  PROVE  FlowInv'
<1>1. /\ dubbing' = dubbing \ {m} /\ next' = said[m].then /\ G!Renders(TRUE)
      /\ UNCHANGED <<call, answers, said, known, loading, active, pending, typing, interjected, chat, waiting,
                     processing, speaking, entering, continuing, voiced, lost>>
  BY DEF G!Dubbed, G!backend, G!history
<1>2. m = Len(said) /\ m # 0 /\ Response(m) /\ m \in Nat /\ Coming(m)
  BY FirstSaid, GroupLengths DEF Coming, FlowInv, PreparedInv
<1>3. PICK q \in Qube : q = said[m].by
  BY <1>2 DEF Response
<1>4. pipe \in [Qube -> [status : {"idle", "generating_tts", "ready"}, m : Nat, audio : Nat]]
  BY DEF FlowInv, GroupTypeInv
<1>5. dubbing = {m} /\ \A c \in Calls : call[c].at = "done"
  BY <1>2 DEF FlowInv, PreparedInv, OpenInv
<1>6. /\ pipe'[q].m \in {m, pipe[q].m} /\ pipe'[q].audio \in {m, pipe[q].audio}
      /\ pipe'[q].audio = m => pipe'[q].m = m \/ m \in lost \/ pipe[q].audio = m
      /\ \A p \in Qube : p # q => pipe'[p] = pipe[p]
      /\ pipe' \in [Qube -> [status : {"idle", "generating_tts", "ready"}, m : Nat, audio : Nat]]
  <2>1. pipe[q].m = m \/ m \in lost
    BY <1>3 DEF FlowInv, PreparedInv
  <2>2. CASE ok
    <3>1. pipe' = [pipe EXCEPT ![q].status = "ready", ![q].audio = m]
      BY <1>3, <2>2 DEF G!Dubbed
    <3>2. pipe'[q].m = pipe[q].m /\ pipe'[q].audio = m
      BY <1>2, <1>4, <3>1
    <3> QED BY <1>2, <1>4, <2>1, <3>1, <3>2
  <2>3. CASE ~ok
    <3>1. pipe' = [pipe EXCEPT ![q].status = "ready", ![q].m = m]
      BY <1>3, <2>3 DEF G!Dubbed
    <3>2. pipe'[q].m = m /\ pipe'[q].audio = pipe[q].audio
      BY <1>2, <1>4, <3>1
    <3> QED BY <1>2, <1>4, <3>1, <3>2
  <2> QED BY <2>2, <2>3
<1>7. \A d : Interjecting(d)' <=> Interjecting(d)
  BY <1>1 DEF Interjecting
<1>8. \A k : Coming(k)' => Coming(k)
  <2>1. \A k : k \in dubbing' => k = m
    BY <1>1, <1>5
  <2>2. \A k, p : p \in Qube /\ pipe'[p].m = k => k = m \/ pipe[p].m = k
    BY <1>6
  <2>3. Calls' = Calls
    BY <1>1 DEF Calls
  <2> QED BY <1>1, <1>2, <2>1, <2>2, <2>3 DEF Coming
<1>9. \A k : Response(k)' <=> Response(k)
  BY <1>1 DEF Response, Said
<1>10. "continue" \in due' /\ ("user" \in due' <=> "user" \in due)
  BY <1>1, Rendered
<1>11. GroupTypeInv'
  <2>1. next' \in Qube \cup {None}
    BY <1>1, <1>2, GroupLengths DEF FlowInv, Response, SaidRecord
  <2> QED BY <1>1, <1>6, <2>1 DEF FlowInv, GroupTypeInv
<1>12. CallsInv' /\ AnswersInv' /\ OpenInv'
  BY <1>1, <1>5, <1>9 DEF FlowInv, CallsInv, AnswersInv, OpenInv, Calls
<1>13. PreparedInv'
  <2>1. \A p \in Qube : /\ pipe[p].m # 0 => pipe[p].m = Len(said) /\ said[Len(said)].by = p
                        /\ pipe[p].audio \in {0, pipe[p].m} \cup lost
    BY DEF FlowInv, PreparedInv
  <2>2. dubbing' = {}
    BY <1>1, <1>5
  <2>3. ASSUME NEW p \in Qube
        PROVE  /\ pipe'[p].m # 0 => pipe'[p].m = Len(said) /\ said[Len(said)].by = p
               /\ pipe'[p].audio \in {0, pipe'[p].m} \cup lost
    <3>1. CASE p # q
      BY <1>6, <2>1, <3>1
    <3>2. CASE p = q
      BY <1>2, <1>3, <1>6, <2>1, <3>2
    <3> QED BY <3>1, <3>2
  <2>4. known
    BY DEF FlowInv, PreparedInv
  <2> QED BY <1>1, <2>2, <2>3, <2>4 DEF PreparedInv
<1>14. InterjectedInv'
  BY <1>1, <1>7, <1>10 DEF FlowInv, InterjectedInv, Calls
<1>15. SpeakInv' /\ TimerInv' /\ VoiceInv'
  BY <1>1, <1>9, <1>10 DEF FlowInv, SpeakInv, TimerInv, VoiceInv, Doomed
<1>16. FirstInv' /\ OrderInv'
  BY <1>1, <1>7, <1>8, OrderStays DEF Doomed, Calls
<1> QED BY <1>11, <1>12, <1>13, <1>14, <1>15, <1>16 DEF FlowInv

\* A response that is spoken or typed is done.
LEMMA ShownEnds ==
  ASSUME FlowInv, entering = {}, known, pending' # pending \/ typing' # typing, G!Renders(FALSE),
         pending' = 0, typing' = 0, processing' = 0, speaking' = {}, lost \subseteq lost',
         UNCHANGED <<call, answers, said, known, active, next, pipe, interjected, chat, waiting, dubbing,
                     entering, continuing, voiced>>
  PROVE  FlowInv'
<1>1. "continue" \in due' /\ "user" \in due'
  BY Rendered
<1>2. (\A d : Interjecting(d)' <=> Interjecting(d)) /\ (\A m : Coming(m)' => Coming(m)) /\ Calls' = Calls
  BY DEF Interjecting, Coming, Calls
<1>3. GroupTypeInv' /\ CallsInv' /\ AnswersInv' /\ OpenInv' /\ PreparedInv'
  <2>1. GroupTypeInv' /\ CallsInv' /\ AnswersInv'
    BY DEF FlowInv, GroupTypeInv, CallsInv, AnswersInv, Calls, Response, Said
  <2>2. OpenInv'
    BY DEF FlowInv, OpenInv, Calls
  <2>3. PreparedInv'
    BY DEF FlowInv, PreparedInv
  <2> QED BY <2>1, <2>2, <2>3
<1>4. SpeakInv' /\ TimerInv' /\ VoiceInv'
  BY <1>1 DEF FlowInv, SpeakInv, TimerInv, VoiceInv
<1>5. InterjectedInv'
  BY <1>1, <1>2 DEF FlowInv, InterjectedInv
<1>6. FirstInv' /\ OrderInv'
  BY <1>2, OrderStays DEF Doomed
<1> QED BY <1>3, <1>4, <1>5, <1>6 DEF FlowInv

LEMMA GroupTyped ==
  ASSUME FlowInv, entering = {}, G!Typed
  PROVE  FlowInv'
<1>1. pending = 0 /\ speaking = {} /\ known /\ typing # 0
  BY DEF G!Typed, FlowInv, SpeakInv, TimerInv
<1> QED BY <1>1, ShownEnds DEF G!Typed, G!backend, G!flow, G!history

LEMMA GroupSpeechFails ==
  ASSUME FlowInv, entering = {}, NEW s \in speaking, G!SpeechFails(s)
  PROVE  FlowInv'
<1>1. pending # 0 /\ typing = 0 /\ speaking = {s} /\ known
  BY DEF FlowInv, SpeakInv, TimerInv
<1>2. /\ speaking' = {} /\ lost \subseteq lost' /\ pending' = 0 /\ processing' = 0 /\ G!Renders(FALSE)
      /\ UNCHANGED <<call, answers, said, known, active, typing, next, pipe, interjected, chat, waiting,
                     dubbing, entering, continuing, voiced>>
  BY <1>1 DEF G!SpeechFails, G!Drops, G!backend
<1> QED BY <1>1, <1>2, ShownEnds

\* A response is shown, and the next one asked for.
LEMMA GroupSpeechBegins ==
  ASSUME FlowInv, due = {}, entering = {}, NEW s \in speaking, G!SpeechBegins(s), ~crossed'
  PROVE  FlowInv'
<1>1. /\ typing' = s.m /\ chat' = Append(chat, s.m) /\ pending' = 0 /\ speaking' = speaking \ {s}
      /\ pipe' \in {pipe, [pipe EXCEPT ![said[s.m].by] = G!Empty]}
      /\ voiced' = voiced \cup {<<s.m, s.audio>>}
      /\ next' \in {next, said[s.m].then}
      /\ call' = call \/ G!Asks("ahead", said[s.m].then)
      /\ UNCHANGED <<answers, said, known, active, interjected, waiting, processing, dubbing, entering,
                     continuing, lost>>
      /\ due' \subseteq {"speech", "continue", "user"}
  BY DEF G!SpeechBegins, G!Prefetch, G!Renders
<1>2. /\ pending = s.m /\ s.m # 0 /\ s.m \in Nat /\ typing = 0 /\ speaking' = {} /\ processing = s.m
      /\ Response(s.m) /\ ~continuing /\ known /\ First(s.m) /\ ~Doomed /\ s.m <= Len(said)
  BY <1>1, GroupLengths DEF FlowInv, SpeakInv, GroupTypeInv, TimerInv, First, Doomed, Response, Said
<1>3. PICK q \in Qube : q = said[s.m].by
  BY <1>2 DEF Response
<1>4. said[s.m].then \in Qube \cup {None}
  BY <1>2, GroupLengths DEF FlowInv, Response, SaidRecord
<1>5. /\ chat' \in Seq(Nat) /\ Len(chat') = Len(chat) + 1 /\ Len(chat) \in Nat
      /\ \A i \in 1 .. Len(chat) : chat'[i] = chat[i]
      /\ chat'[Len(chat) + 1] = s.m
  BY <1>1, <1>2, ChatMore DEF FlowInv
<1>6. /\ pipe' \in [Qube -> [status : {"idle", "generating_tts", "ready"}, m : Nat, audio : Nat]]
      /\ \A p \in Qube : pipe'[p] = pipe[p] \/ (pipe'[p].m = 0 /\ pipe'[p].audio = 0 /\ p = q)
  <2>1. pipe \in [Qube -> [status : {"idle", "generating_tts", "ready"}, m : Nat, audio : Nat]]
    BY DEF FlowInv, GroupTypeInv
  <2>2. CASE pipe' = pipe
    BY <2>1, <2>2
  <2>3. CASE pipe' = [pipe EXCEPT ![q] = G!Empty]
    BY <2>1, <2>3 DEF G!Empty
  <2> QED BY <1>1, <1>3, <2>2, <2>3
<1>7. /\ call' \in Seq(CallRecord) /\ Len(call) \in Nat
      /\ \A d \in Calls : d \in Calls' /\ call'[d] = call[d]
      /\ \A d \in Calls' : d \notin Calls =>
           call'[d].kind = "ahead" /\ call'[d].at = "asked" /\ call'[d].user = 0 /\ call'[d].m = 0
      /\ \/ Len(call') = Len(call) /\ Calls' = Calls
         \/ /\ dubbing = {} /\ (\A p \in Qube : pipe[p].m = 0) /\ \A c \in Calls : call[c].at = "done"
            /\ Calls' = Calls \cup {Len(call')}
  <2>1. CASE call' = call
    BY <1>1, <2>1, GroupLengths DEF FlowInv, GroupTypeInv, Calls
  <2>2. CASE G!Asks("ahead", said[s.m].then)
    BY <1>1, <1>4, <2>2, CallAsked DEF FlowInv
  <2> QED BY <1>1, <2>1, <2>2
<1>8. \A d : Interjecting(d)' <=> Interjecting(d)
  BY <1>1 DEF Interjecting
<1>9. \A d : Interjecting(d) => d \in Calls /\ d \in Calls' /\ call'[d] = call[d]
  BY <1>7 DEF FlowInv, InterjectedInv
<1>10. \A m : Coming(m)' => Coming(m)
  <2>1. \A m, p : m # 0 /\ p \in Qube /\ pipe'[p].m = m => pipe[p].m = m
    BY <1>6
  <2>2. \A d \in Calls' : call'[d].at = "given" => d \in Calls /\ call[d] = call'[d]
    BY <1>7
  <2> QED BY <1>1, <2>1, <2>2 DEF Coming
<1>11. \A f : First(f)' => First(f) /\ \E c \in Calls : Interjecting(c) /\ f = call[c].m
  BY <1>1, <1>8, <1>9 DEF First
<1>12. \A m : Coming(m) => m = Len(said) /\ s.m # m /\ said[s.m].by # said[m].by
  BY <1>2, FirstSaid DEF FlowInv, FirstInv
<1>13. \A m : Response(m)' <=> Response(m)
  BY <1>1 DEF Response, Said
<1>14. GroupTypeInv'
  BY <1>1, <1>2, <1>4, <1>5, <1>6, <1>7 DEF FlowInv, GroupTypeInv
<1>15. CallsInv'
  <2>1. \A d \in Calls :
          /\ call[d].user <= Len(said)
          /\ call[d].m # 0 => Response(call[d].m)
          /\ call[d].at = "given" => call[d].m = Len(said) /\ call[d].m # 0
          /\ call[d].at \in {"asked", "kept", "turn"} => call[d].m = 0
          /\ call[d].kind = "user" /\ call[d].at \notin {"asked", "done"} => call[d].user # 0
          /\ call[d].kind = "user" /\ call[d].m # 0 => call[d].user # 0 /\ call[d].user < call[d].m
          /\ d # Len(call) => call[d].at = "done"
    BY DEF FlowInv, CallsInv
  <2>2. 0 <= Len(said) /\ said' = said
    BY <1>1, GroupLengths DEF FlowInv
  <2>3. \A d \in Calls' : d # Len(call') => call'[d].at = "done"
    BY <1>7, <2>1
  <2> QED BY <1>7, <1>13, <2>1, <2>2, <2>3 DEF CallsInv
<1>16. AnswersInv'
  BY <1>1, <1>7 DEF FlowInv, AnswersInv
<1>17. OpenInv'
  <2> SUFFICES ASSUME NEW d \in Calls', call'[d].at # "done"
               PROVE  /\ dubbing = {} /\ \A p \in Qube : pipe'[p].m = 0
                      /\ call'[d].kind \notin {"start", "fresh"}
                      /\ call'[d].kind = "user" => interjected.of = d /\ ~interjected.ready
    BY <1>1, <1>2 DEF OpenInv
  <2>1. CASE d \in Calls
    <3>1. /\ call[d].at # "done" /\ call'[d] = call[d]
          /\ dubbing = {} /\ \A p \in Qube : pipe[p].m = 0
          /\ call[d].kind \in {"start", "fresh"} => pending = 0
          /\ call[d].kind = "user" => interjected.of = d /\ ~interjected.ready
      BY <1>7, <2>1 DEF FlowInv, OpenInv
    <3> QED BY <1>2, <1>6, <3>1
  <2>2. CASE d \notin Calls
    BY <1>6, <1>7, <2>2
  <2> QED BY <2>1, <2>2
<1>18. PreparedInv'
  <2>1. \A p \in Qube : /\ pipe[p].m # 0 => pipe[p].m = Len(said) /\ said[Len(said)].by = p
                        /\ pipe[p].audio \in {0, pipe[p].m} \cup lost
    BY DEF FlowInv, PreparedInv
  <2>2. ASSUME NEW m \in dubbing
        PROVE  /\ m = Len(said) /\ m # 0 /\ said[m].by \in Qube
               /\ \/ pipe'[said[m].by].m = m /\ pipe'[said[m].by].status = "generating_tts"
                  \/ m \in lost /\ \A p \in Qube : pipe'[p].m = 0
    <3>1. said[m].by # q
      BY <1>3, <1>12 DEF Coming
    <3>2. /\ m = Len(said) /\ m # 0 /\ said[m].by \in Qube
          /\ \/ pipe[said[m].by].m = m /\ pipe[said[m].by].status = "generating_tts"
             \/ m \in lost /\ \A p \in Qube : pipe[p].m = 0
      BY DEF FlowInv, PreparedInv
    <3> QED BY <1>6, <3>1, <3>2
  <2>3. \A p \in Qube : /\ pipe'[p].m # 0 => pipe'[p].m = Len(said) /\ said[Len(said)].by = p
                        /\ pipe'[p].audio \in {0, pipe'[p].m} \cup lost
    BY <1>6, <2>1
  <2> QED BY <1>1, <1>2, <2>2, <2>3 DEF PreparedInv
<1>19. InterjectedInv'
  BY <1>1, <1>2, <1>8, <1>9 DEF FlowInv, InterjectedInv
<1>20. SpeakInv' /\ TimerInv'
  BY <1>1, <1>2 DEF SpeakInv, TimerInv
<1>21. FirstInv'
  <2>1. \A d \in Calls' : \A f :
          call'[d].kind = "ahead" /\ call'[d].at \in {"asked", "turn"} /\ First(f)' => f = Len(said)
    <3> SUFFICES ASSUME NEW d \in Calls', NEW f, call'[d].kind = "ahead",
                        call'[d].at \in {"asked", "turn"}, First(f)'
                 PROVE  f = Len(said)
      OBVIOUS
    <3>1. CASE d \in Calls
      BY <1>2, <1>7, <1>11, <3>1 DEF FlowInv, FirstInv
    <3>2. CASE d \notin Calls
      BY <1>2, <1>11, <3>2 DEF FlowInv, FirstInv
    <3> QED BY <3>1, <3>2
  <2>2. \A m, f : Coming(m)' /\ First(f)' => f # m /\ said[f].by # said[m].by
    BY <1>2, <1>10, <1>11 DEF FlowInv, FirstInv
  <2> QED BY <1>1, <2>1, <2>2 DEF FirstInv
<1>22. OrderInv'
  <2>1. ASSUME NEW x \in Nat, x = s.m \/ \E i \in 1 .. Len(chat) : x = chat[i]
        PROVE  /\ x <= Len(said) /\ x <= s.m
               /\ \A m : Coming(m) => x # m
               /\ \A c \in Calls :
                    /\ call[c].at = "given" => x < call[c].m
                    /\ call[c].kind = "user" /\ call[c].at # "done" /\ call[c].user # 0 => x < call[c].user
                    /\ Interjecting(c) => x < call[c].m /\ x < call[c].user
    <3>1. CASE \E i \in 1 .. Len(chat) : x = chat[i]
      BY <1>2, <3>1 DEF FlowInv, OrderInv
    <3>2. CASE x = s.m
      <4>1. \A c \in Calls :
              /\ call[c].kind = "user" /\ call[c].at # "done" /\ call[c].user # 0 => x < call[c].user
              /\ Interjecting(c) => x < call[c].user
        BY <1>2, <3>2 DEF FlowInv, OrderInv
      <4>2. ASSUME NEW c \in Calls, Interjecting(c)
            PROVE  x < call[c].m
        <5>1. call[c].user < call[c].m /\ x < call[c].user
          BY <4>1, <4>2 DEF FlowInv, InterjectedInv, CallsInv
        <5>2. call[c].user \in Nat /\ call[c].m \in Nat
          BY GroupLengths DEF FlowInv, CallRecord
        <5> QED BY <5>1, <5>2
      <4>3. ASSUME NEW c \in Calls, call[c].at = "given"
            PROVE  x < call[c].m
        <5>1. call[c].m = Len(said) /\ call[c].m # 0 /\ call[c].m \in Nat /\ call[c].user \in Nat
              /\ call[c].kind \in {"start", "fresh", "ahead", "user"}
          BY <4>3, GroupLengths DEF FlowInv, CallsInv, CallRecord
        <5>2. call[c].kind \notin {"start", "fresh"}
          BY <1>2, <4>3 DEF FlowInv, OpenInv
        <5>3. call[c].kind = "ahead" => x # call[c].m
          BY <1>12, <3>2, <4>3 DEF Coming
        <5>4. call[c].kind = "user" => x < call[c].user /\ call[c].user < call[c].m
          BY <4>1, <4>3, <5>1 DEF FlowInv, CallsInv
        <5> QED BY <1>2, <3>2, <5>1, <5>2, <5>3, <5>4
      <4> QED BY <1>2, <1>12, <3>2, <4>1, <4>2, <4>3
    <3> QED BY <2>1, <3>1, <3>2
  <2>2. \A i \in 1 .. Len(chat') : chat'[i] \in Nat /\ (chat'[i] = s.m \/ \E j \in 1 .. Len(chat) : chat'[i] = chat[j])
    BY <1>5
  <2>3. \A i, j \in 1 .. Len(chat') : i < j => chat'[i] < chat'[j]
    <3>1. \A i, j \in 1 .. Len(chat) : i < j => chat[i] < chat[j]
      BY DEF FlowInv, OrderInv
    <3>2. \A i \in 1 .. Len(chat) : chat[i] <= Len(said) /\ chat[i] < s.m
      BY <1>2 DEF FlowInv, OrderInv
    <3>3. GroupTypeInv /\ chat' = Append(chat, s.m) /\ said' = said
      BY <1>1 DEF FlowInv
    <3> QED BY <1>2, <3>1, <3>2, <3>3, ShownMore
  <2>4. ASSUME NEW i \in 1 .. Len(chat')
        PROVE  /\ chat'[i] <= Len(said')
               /\ \A m : Coming(m)' => chat'[i] # m
               /\ \A c \in Calls' :
                    /\ call'[c].at = "given" => chat'[i] < call'[c].m
                    /\ call'[c].kind = "user" /\ call'[c].at # "done" /\ call'[c].user # 0
                         => chat'[i] < call'[c].user
                    /\ Interjecting(c)' => chat'[i] < call'[c].m /\ chat'[i] < call'[c].user
    <3>1. PICK x \in Nat : x = chat'[i] /\ (x = s.m \/ \E j \in 1 .. Len(chat) : x = chat[j])
      BY <2>2
    <3>2. /\ x <= Len(said) /\ x <= s.m
          /\ \A m : Coming(m) => x # m
          /\ \A c \in Calls :
               /\ call[c].at = "given" => x < call[c].m
               /\ call[c].kind = "user" /\ call[c].at # "done" /\ call[c].user # 0 => x < call[c].user
               /\ Interjecting(c) => x < call[c].m /\ x < call[c].user
      BY <2>1, <3>1
    <3>3. \A c \in Calls' : (c \in Calls /\ call'[c] = call[c]) \/ (call'[c].at = "asked" /\ call'[c].user = 0 /\ ~Interjecting(c))
      BY <1>7, <1>9
    <3> QED BY <1>1, <1>8, <1>10, <3>1, <3>2, <3>3
  <2> QED BY <1>1, <2>3, <2>4 DEF OrderInv
<1>23. VoiceInv'
  <2>1. s.audio = s.m \/ s.audio \in lost
    BY <1>2 DEF FlowInv, VoiceInv
  <2> QED BY <1>1, <1>2, <2>1 DEF FlowInv, VoiceInv
<1> QED BY <1>14, <1>15, <1>16, <1>17, <1>18, <1>19, <1>20, <1>21, <1>22, <1>23 DEF FlowInv

-----------------------------------------------------------------------------
(* GroupChat: an interjection is shown, and the buttons *)

LEMMA GroupEnter ==
  ASSUME FlowInv, due = {}, NEW e \in entering, G!Enter(e)
  PROVE  FlowInv'
<1>1. /\ ~e.stops /\ entering' = (entering \ {e}) \cup {[e EXCEPT !.stops = TRUE]}
      /\ waiting' = FALSE /\ interjected' = G!NoInterjection /\ next' = said[call[e.of].m].then /\ G!Renders(FALSE)
      /\ UNCHANGED <<call, answers, said, known, loading, active, pending, typing, pipe, chat, processing,
                     dubbing, speaking, continuing, voiced, lost>>
  BY DEF G!Enter, G!backend, G!history
<1>2. /\ entering = {e} /\ e \in [of : Nat, stops : BOOLEAN] /\ interjected.ready /\ interjected.of = e.of
      /\ typing = 0 /\ known /\ ~continuing
  BY <1>1 DEF FlowInv, GroupTypeInv, InterjectedInv, TimerInv
<1>3. PICK f \in [of : Nat, stops : BOOLEAN] : entering' = {f} /\ f.of = e.of /\ f.stops
  <2>1. PICK f : f = [e EXCEPT !.stops = TRUE]
    OBVIOUS
  <2>2. f \in [of : Nat, stops : BOOLEAN] /\ f.of = e.of /\ f.stops
    BY <1>2, <2>1
  <2>3. entering' = {f}
    BY <1>1, <1>2, <2>1
  <2> QED BY <2>2, <2>3
<1>4. interjected'.of = 0 /\ ~interjected'.ready /\ interjected' \in [of : Nat, ready : BOOLEAN]
  BY <1>1 DEF G!NoInterjection
<1>5. Interjecting(e.of) /\ \A d : Interjecting(d)' => Interjecting(d)
  BY <1>2, <1>3, <1>4 DEF Interjecting
<1>6. (\A m : Coming(m)' => Coming(m)) /\ Calls' = Calls /\ \A m : Response(m)' <=> Response(m)
  BY <1>1 DEF Coming, Calls, Response, Said
<1>7. GroupTypeInv'
  <2>1. Response(call[e.of].m)
    BY <1>5 DEF FlowInv, InterjectedInv, CallsInv
  <2>2. next' \in Qube \cup {None}
    BY <1>1, <2>1, GroupLengths DEF FlowInv, Response, SaidRecord
  <2> QED BY <1>1, <1>3, <1>4, <2>2 DEF FlowInv, GroupTypeInv
<1>8. CallsInv' /\ AnswersInv' /\ PreparedInv' /\ SpeakInv'
  BY <1>1, <1>6 DEF FlowInv, CallsInv, AnswersInv, PreparedInv, SpeakInv
<1>9. OpenInv'
  BY <1>1, <1>2, <1>6 DEF FlowInv, OpenInv
<1>10. InterjectedInv'
  BY <1>1, <1>2, <1>3, <1>4, <1>5, <1>6 DEF FlowInv, InterjectedInv
<1>11. TimerInv'
  BY <1>1, <1>2 DEF TimerInv
<1>12. FirstInv' /\ OrderInv'
  BY <1>1, <1>2, <1>3, <1>5, <1>6, OrderStays DEF Doomed
<1>13. VoiceInv'
  BY <1>1, <1>2, <1>3 DEF FlowInv, VoiceInv, Doomed
<1> QED BY <1>7, <1>8, <1>9, <1>10, <1>11, <1>12, <1>13 DEF FlowInv

LEMMA GroupEntered ==
  ASSUME FlowInv, due = {}, NEW e \in entering, G!Entered(e), ~crossed'
  PROVE  FlowInv'
<1>1. /\ e.stops /\ entering' = entering \ {e} /\ pending' = call[e.of].m /\ pending = 0 /\ G!Renders(FALSE)
      /\ UNCHANGED <<call, answers, said, known, loading, active, typing, next, pipe, interjected, chat, waiting,
                     processing, dubbing, speaking, continuing, voiced, lost>>
  BY DEF G!Entered, G!refs, G!history
<1>2. /\ entering = {e} /\ interjected.of = 0 /\ ~interjected.ready /\ typing = 0 /\ known
      /\ speaking = {} /\ processing = 0
  BY <1>1 DEF FlowInv, InterjectedInv, SpeakInv
<1>3. entering' = {}
  BY <1>1, <1>2
<1>4. Interjecting(e.of) /\ \A d : ~Interjecting(d)'
  BY <1>1, <1>2, <1>3 DEF Interjecting
<1>5. (\A m : Coming(m)' => Coming(m)) /\ Calls' = Calls /\ \A m : Response(m)' <=> Response(m)
  BY <1>1 DEF Coming, Calls, Response, Said
<1>6. e.of \in Calls /\ pending' # 0 /\ Response(pending') /\ pending' \in Nat /\ First(pending') /\ ~Doomed
  <2>1. e.of \in Calls /\ pending' # 0 /\ Response(pending')
    BY <1>1, <1>4 DEF FlowInv, InterjectedInv, CallsInv
  <2> QED BY <1>1, <1>4, <2>1, GroupLengths DEF First, Doomed, FlowInv, Response
<1>7. "continue" \in due'
  BY <1>1, <1>6, Rendered
<1>8. GroupTypeInv' /\ CallsInv' /\ AnswersInv' /\ PreparedInv'
  BY <1>1, <1>3, <1>5, <1>6 DEF FlowInv, GroupTypeInv, CallsInv, AnswersInv, PreparedInv
<1>9. OpenInv'
  BY <1>1, <1>2, <1>5 DEF FlowInv, OpenInv
<1>10. InterjectedInv'
  BY <1>1, <1>2, <1>3, <1>4 DEF InterjectedInv
<1>11. SpeakInv' /\ TimerInv' /\ VoiceInv'
  BY <1>1, <1>2, <1>5, <1>6, <1>7 DEF FlowInv, SpeakInv, TimerInv, VoiceInv
<1>12. FirstInv'
  <2>1. \A f : First(f)' => f = pending' /\ First(f)
    BY <1>4, <1>6 DEF First
  <2> QED BY <1>1, <1>4, <1>5, <1>6, <2>1 DEF FlowInv, FirstInv
<1>13. OrderInv'
  <2>1. \A i \in 1 .. Len(chat) :
          /\ chat[i] <= Len(said) /\ chat[i] < pending'
          /\ \A m : Coming(m) => chat[i] # m
          /\ \A c \in Calls : call[c].at = "given" => chat[i] < call[c].m
          /\ \A c \in Calls : call[c].kind = "user" /\ call[c].at # "done" /\ call[c].user # 0 => chat[i] < call[c].user
    BY <1>1, <1>4, <1>6 DEF FlowInv, OrderInv
  <2>2. \A i, j \in 1 .. Len(chat) : i < j => chat[i] < chat[j]
    BY DEF FlowInv, OrderInv
  <2>3. \A c \in Calls : ~(call[c].kind = "user" /\ call[c].at # "done")
    BY <1>2, OpenCall
  <2> QED BY <1>1, <1>4, <1>5, <2>1, <2>2, <2>3 DEF OrderInv
<1> QED BY <1>8, <1>9, <1>10, <1>11, <1>12, <1>13 DEF FlowInv

\* What is prepared is taken to be shown: then nothing is prepared.
LEMMA TakenIsNext ==
  ASSUME FlowInv, NEW q \in Qube, G!ReadyAt(q), pending = 0, typing = 0, G!Take(q),
         lost \subseteq lost', UNCHANGED <<call, said, dubbing>>
  PROVE  /\ pending' = Len(said) /\ pending' # 0 /\ Response(pending') /\ pending' \in Nat
         /\ speaking = {} /\ processing = 0
         /\ pipe' \in [Qube -> [status : {"idle", "generating_tts", "ready"}, m : Nat, audio : Nat]]
         /\ CallsInv' /\ OpenInv' /\ PreparedInv'
         /\ ((\A d : ~Interjecting(d)') \/ Doomed') => FirstInv'
         /\ (chat' = chat /\ ((\A d : ~Interjecting(d)') \/ Doomed')) => OrderInv'
<1>1. /\ pipe[q].m = Len(said) /\ Response(pipe[q].m)
      /\ \A p \in Qube : p # q => pipe[p].m = 0
      /\ dubbing = {} /\ speaking = {} /\ processing = 0
      /\ \A c \in Calls : call[c].at = "done"
  BY NextTaken
<1>2. pending' = Len(said) /\ Response(pending') /\ pending' \in Nat /\ pending' # 0 /\ Coming(Len(said))
  <2>1. pending' = pipe[q].m /\ pipe[q].m # 0
    BY DEF G!Take, G!ReadyAt
  <2> QED BY <1>1, <2>1, GroupLengths DEF FlowInv, Coming
<1>3. /\ pipe' \in [Qube -> [status : {"idle", "generating_tts", "ready"}, m : Nat, audio : Nat]]
      /\ \A p \in Qube : pipe'[p].m = 0 /\ pipe'[p].audio \in {0, pipe[p].audio}
      /\ \A p \in Qube : p # q => pipe'[p] = pipe[p]
      /\ pipe'[q].audio = 0
  <2>1. pipe' = [pipe EXCEPT ![q] = G!Empty]
    BY DEF G!Take
  <2> QED BY <1>1, <2>1 DEF FlowInv, GroupTypeInv, G!Empty
<1>4. (\A m : Response(m)' <=> Response(m)) /\ Calls' = Calls
  BY DEF Response, Said, Calls
<1>5. \A m : ~Coming(m)'
  BY <1>1, <1>3, <1>4 DEF Coming
<1>6. CallsInv' /\ OpenInv'
  BY <1>1, <1>4 DEF FlowInv, CallsInv, OpenInv
<1>7. PreparedInv'
  <2>1. \A p \in Qube : pipe[p].audio \in {0, pipe[p].m} \cup lost
    BY DEF FlowInv, PreparedInv
  <2>2. \A p \in Qube : pipe'[p].audio \in {0} \cup lost'
    BY <1>1, <1>3, <2>1
  <2> QED BY <1>1, <1>3, <2>2 DEF PreparedInv
<1>8. ASSUME (\A d : ~Interjecting(d)') \/ Doomed'
      PROVE  FirstInv'
  BY <1>1, <1>4, <1>5, <1>8 DEF FirstInv
<1>9. ASSUME chat' = chat, (\A d : ~Interjecting(d)') \/ Doomed'
      PROVE  OrderInv'
  <2>1. \A i \in 1 .. Len(chat) : chat[i] \in Nat /\ chat[i] <= Len(said) /\ chat[i] # Len(said)
    <3>1. chat \in Seq(Nat)
      BY DEF FlowInv, GroupTypeInv
    <3>2. ~Doomed /\ Coming(Len(said))
      BY <1>2 DEF Doomed
    <3>3. \A i \in 1 .. Len(chat) : chat[i] <= Len(said) /\ chat[i] # Len(said)
      BY <3>2 DEF FlowInv, OrderInv
    <3> QED BY <3>1, <3>3
  <2>2. \A i \in 1 .. Len(chat) : chat[i] < pending'
    BY <1>2, <2>1
  <2>3. \A i, j \in 1 .. Len(chat) : i < j => chat[i] < chat[j]
    BY DEF FlowInv, OrderInv
  <2> QED BY <1>1, <1>4, <1>5, <1>9, <2>1, <2>2, <2>3 DEF OrderInv
<1> QED BY <1>1, <1>2, <1>3, <1>6, <1>7, <1>8, <1>9

\* A button plays the response that is ready.
LEMMA ButtonTakes ==
  ASSUME FlowInv, due = {}, entering = {}, NEW q \in Qube, G!ReadyAt(q), pending = 0, typing = 0, G!Take(q),
         known, "continue" \in due', active' \in BOOLEAN,
         UNCHANGED <<call, answers, said, known, loading, typing, next, interjected, chat, waiting, processing,
                     dubbing, speaking, entering, continuing, voiced, lost>>
  PROVE  FlowInv'
<1>1. ~interjected.ready
  BY DEF FlowInv, InterjectedInv
<1>2. \A d : ~Interjecting(d)'
  BY <1>1 DEF Interjecting
<1>3. /\ pending' # 0 /\ Response(pending') /\ pending' \in Nat /\ speaking = {} /\ processing = 0
      /\ pipe' \in [Qube -> [status : {"idle", "generating_tts", "ready"}, m : Nat, audio : Nat]]
      /\ CallsInv' /\ OpenInv' /\ PreparedInv' /\ FirstInv' /\ OrderInv'
  BY <1>2, TakenIsNext
<1>4. GroupTypeInv' /\ AnswersInv'
  BY <1>3 DEF FlowInv, GroupTypeInv, AnswersInv, Calls
<1>5. InterjectedInv'
  BY <1>1, <1>2 DEF FlowInv, InterjectedInv
<1>6. SpeakInv' /\ TimerInv' /\ VoiceInv'
  BY <1>3 DEF FlowInv, SpeakInv, TimerInv, VoiceInv, Response, Said
<1> QED BY <1>3, <1>4, <1>5, <1>6 DEF FlowInv

\* A button changes no more than the activity, or drops what is prepared.
LEMMA ButtonKeeps ==
  ASSUME FlowInv, known, "continue" \in due', "user" \in due => "user" \in due', active' \in BOOLEAN,
         "user" \in due' => "user" \in due, 
         \/ pipe' = pipe /\ next' = next /\ lost' = lost
         \/ pipe' = G!NoPipes /\ next' = None /\ lost' = lost \cup (G!InPipes \ {0}),
         UNCHANGED <<call, answers, said, known, loading, pending, typing, interjected, chat, waiting, processing,
                     dubbing, speaking, entering, continuing, voiced>>
  PROVE  FlowInv'
<1>1. /\ pipe' \in [Qube -> [status : {"idle", "generating_tts", "ready"}, m : Nat, audio : Nat]]
      /\ \A p \in Qube : pipe'[p] = pipe[p] \/ (pipe'[p].m = 0 /\ pipe'[p].audio = 0)
      /\ lost \subseteq lost' /\ next' \in Qube \cup {None}
  BY DEF FlowInv, GroupTypeInv, G!NoPipes, G!Empty
<1>2. \A d : Interjecting(d)' <=> Interjecting(d)
  BY DEF Interjecting
<1>3. Calls' = Calls /\ \A m : Response(m)' <=> Response(m)
  BY DEF Calls, Response, Said
<1>4. \A m : Coming(m)' => Coming(m)
  BY <1>1, <1>3 DEF Coming
<1>5. GroupTypeInv' /\ CallsInv' /\ AnswersInv'
  BY <1>1, <1>3 DEF FlowInv, GroupTypeInv, CallsInv, AnswersInv
<1>6. OpenInv'
  BY <1>1, <1>3 DEF FlowInv, OpenInv
<1>7. PreparedInv'
  <2>1. CASE pipe' = pipe
    BY <1>1, <2>1 DEF FlowInv, PreparedInv
  <2>2. CASE pipe' = G!NoPipes /\ lost' = lost \cup (G!InPipes \ {0})
    <3>1. \A p \in Qube : pipe'[p].m = 0 /\ pipe'[p].audio = 0 /\ pipe[p].m \in G!InPipes
      BY <2>2 DEF G!NoPipes, G!Empty, G!InPipes
    <3>2. \A m \in dubbing : m = Len(said) /\ m # 0 /\ said[m].by \in Qube
      BY DEF FlowInv, PreparedInv
    <3>3. \A m \in dubbing : m \in lost'
      BY <2>2, <3>1 DEF FlowInv, PreparedInv
    <3> QED BY <3>1, <3>2, <3>3 DEF PreparedInv
  <2> QED BY <2>1, <2>2
<1>8. InterjectedInv'
  BY <1>2, <1>3 DEF FlowInv, InterjectedInv
<1>9. SpeakInv' /\ TimerInv' /\ VoiceInv'
  BY <1>1, <1>3 DEF FlowInv, SpeakInv, TimerInv, VoiceInv, Doomed
<1>10. FirstInv' /\ OrderInv'
  BY <1>2, <1>3, <1>4, OrderStays DEF Doomed
<1> QED BY <1>5, <1>6, <1>7, <1>8, <1>9, <1>10 DEF FlowInv

LEMMA GroupPause ==
  ASSUME FlowInv, due = {}, entering = {}, G!Pause
  PROVE  FlowInv'
<1>1. /\ known /\ active /\ G!Renders(TRUE)
      /\ UNCHANGED <<call, answers, said, known, loading, typing, interjected, chat, waiting, processing,
                     dubbing, speaking, entering, continuing, voiced>>
  BY DEF G!Pause, G!backend, G!flow
<1>2. "continue" \in due' /\ ("user" \in due' <=> pending' # pending)
  BY <1>1, Rendered
<1>3. CASE G!ReadyAt(next) /\ pending = 0 /\ typing = 0
  <2>1. G!Take(next) /\ UNCHANGED <<active, next, lost>>
    BY <1>3 DEF G!Pause
  <2>2. next \in Qube
    BY <1>3 DEF G!ReadyAt, FlowInv, GroupTypeInv
  <2>3. active' \in BOOLEAN
    BY <2>1 DEF FlowInv, GroupTypeInv
  <2> QED BY <1>1, <1>2, <1>3, <2>1, <2>2, <2>3, ButtonTakes
<1>4. CASE G!ReadyAt(next) /\ ~(pending = 0 /\ typing = 0)
  <2>1. UNCHANGED <<pending, pipe, active, next, lost>>
    BY <1>4 DEF G!Pause
  <2> QED BY <1>1, <1>2, <2>1, ButtonKeeps DEF FlowInv, GroupTypeInv
<1>5. CASE ~G!ReadyAt(next)
  <2>1. /\ active' = FALSE /\ pipe' = G!NoPipes /\ next' = None /\ pending' = pending
        /\ lost' = lost \cup (G!InPipes \ {0})
    BY <1>5 DEF G!Pause, G!ClearPipes, G!Drops
  <2> QED BY <1>1, <1>2, <2>1, ButtonKeeps
<1> QED BY <1>3, <1>4, <1>5

LEMMA GroupResume ==
  ASSUME FlowInv, due = {}, entering = {}, G!Resume, ~crossed'
  PROVE  FlowInv'
<1>1. /\ known /\ ~active /\ active' = TRUE
      /\ UNCHANGED <<call, answers, said, known, loading, typing, next, interjected, chat, waiting, processing,
                     dubbing, speaking, entering, continuing, voiced, lost>>
  BY DEF G!Resume, G!flow, G!history
<1>2. PICK u \in BOOLEAN : G!Renders(u)
  BY DEF G!Resume
<1>3. "continue" \in due' /\ ("user" \in due' <=> pending' # pending)
  BY <1>1, <1>2, Rendered
<1>4. CASE pending = 0 /\ G!ReadyAt(next)
  <2>1. G!Take(next) /\ next \in Qube
    BY <1>4 DEF G!Resume, G!ReadyAt, FlowInv, GroupTypeInv
  <2>2. pending' # pending
    BY <1>4, <2>1 DEF G!Take, G!ReadyAt
  <2>3. typing = 0
    BY <2>2 DEF G!Resume
  <2> QED BY <1>1, <1>3, <1>4, <2>1, <2>3, ButtonTakes
<1>5. CASE ~(pending = 0 /\ G!ReadyAt(next))
  <2>1. UNCHANGED <<pending, pipe>>
    BY <1>5 DEF G!Resume
  <2> QED BY <1>1, <1>3, <2>1, ButtonKeeps
<1> QED BY <1>4, <1>5

-----------------------------------------------------------------------------
(* GroupChat: the effects of a rendering *)

\* The activity goes on without a step, a response is taken, or a timer may be set.
LEMMA ContinueOutcomes ==
  ASSUME FlowInv, G!ContinueEffect
  PROVE  \/ /\ "continue" \notin due
            /\ UNCHANGED <<continuing, pending, pipe, next, active, lost>>
         \/ /\ pending = 0 /\ typing = 0 /\ continuing' = FALSE /\ UNCHANGED <<next, active, lost>>
            /\ \E q \in Qube : G!ReadyAt(q) /\ G!Take(q)
         \/ /\ pending' = pending /\ active' \in BOOLEAN /\ (active' => active)
            /\ continuing' => pending = 0 /\ typing = 0 /\ ~waiting /\ entering = {} /\ known
            /\ \/ pipe' = pipe /\ next' = next /\ lost' = lost
               \/ pipe' = G!NoPipes /\ next' = None /\ lost' = lost \cup (G!InPipes \ {0})
<1>1. next \in Qube \cup {None} /\ active \in BOOLEAN
  BY DEF FlowInv, GroupTypeInv
<1>2. ASSUME G!Proceeds, G!Starts
      PROVE  pending = 0 /\ typing = 0 /\ ~waiting /\ entering = {} /\ known
  <2>1. pending = 0 /\ typing = 0 /\ ~waiting /\ active /\ ~loading /\ \A e \in entering : e.stops = FALSE
    BY <1>2 DEF G!Proceeds, G!Quiet, G!Starts, FlowInv, GroupTypeInv
  <2>2. known
    BY <2>1 DEF FlowInv, TimerInv
  <2>3. interjected.of = 0
    BY <2>1 DEF FlowInv, InterjectedInv
  <2>4. ~interjected.ready
    BY <2>3 DEF FlowInv, InterjectedInv, Interjecting, Calls
  <2>5. entering = {}
    BY <2>1, <2>4 DEF FlowInv, InterjectedInv
  <2> QED BY <2>1, <2>2, <2>5
<1>3. CASE "continue" \notin due
  BY <1>3 DEF G!ContinueEffect
<1>4. CASE "continue" \in due /\ G!PausesNow
  <2>1. pending = 0 /\ typing = 0 /\ continuing' = FALSE
    BY <1>4 DEF G!ContinueEffect, G!PausesNow, G!Quiet
  <2>2. CASE G!ReadyAt(next) /\ pipe[next].audio # 0
    <3>1. G!Take(next) /\ UNCHANGED <<next, active, lost>> /\ next \in Qube
      BY <1>1, <1>4, <2>2 DEF G!ContinueEffect, G!ReadyAt
    <3> QED BY <2>1, <2>2, <3>1
  <2>3. CASE ~(G!ReadyAt(next) /\ pipe[next].audio # 0)
    <3>1. active' = FALSE /\ G!ClearPipes /\ G!Drops(G!InPipes) /\ pending' = pending
      BY <1>4, <2>3 DEF G!ContinueEffect
    <3> QED BY <2>1, <3>1 DEF G!ClearPipes, G!Drops
  <2> QED BY <2>2, <2>3
<1>5. CASE "continue" \in due /\ ~G!PausesNow /\ G!Proceeds
  <2>1. UNCHANGED <<next, active, lost>> /\ pending = 0 /\ typing = 0
    BY <1>5 DEF G!ContinueEffect, G!Proceeds, G!Quiet
  <2>2. \/ \E q \in G!Chosen : G!ReadyAt(q) /\ G!Take(q) /\ continuing' = FALSE
        \/ (continuing' => G!Starts) /\ UNCHANGED <<pending, pipe>>
    BY <1>5 DEF G!ContinueEffect
  <2>3. \A q \in G!Chosen : q \in Qube
    BY DEF G!Chosen, G!Working
  <2> QED BY <1>1, <1>2, <1>5, <2>1, <2>2, <2>3
<1>6. CASE "continue" \in due /\ ~G!PausesNow /\ ~G!Proceeds
  <2>1. continuing' = FALSE /\ UNCHANGED <<pending, pipe, next, active, lost>>
    BY <1>6 DEF G!ContinueEffect
  <2> QED BY <1>1, <2>1
<1> QED BY <1>3, <1>4, <1>5, <1>6

\* An interjection is shown when nothing else is.
LEMMA UserOutcomes ==
  ASSUME FlowInv, G!UserEffect
  PROVE  \/ /\ UNCHANGED <<entering, chat>>
            /\ "user" \in due => ~(interjected.ready /\ typing = 0 /\ pending = 0)
         \/ /\ "user" \in due /\ interjected.ready /\ typing = 0 /\ pending = 0 /\ entering = {}
            /\ Interjecting(interjected.of)
            /\ entering' = {[of |-> interjected.of, stops |-> FALSE]}
            /\ chat' = Append(chat, call[interjected.of].user)
<1>1. CASE "user" \in due /\ interjected.ready /\ typing = 0 /\ pending = 0
  <2>1. processing = 0
    BY <1>1 DEF FlowInv, SpeakInv
  <2>2. /\ entering' = entering \cup {[of |-> interjected.of, stops |-> FALSE]}
        /\ chat' = Append(chat, call[interjected.of].user)
    BY <1>1, <2>1 DEF G!UserEffect
  <2>3. entering = {}
    BY <1>1 DEF FlowInv, InterjectedInv
  <2> QED BY <1>1, <2>2, <2>3 DEF Interjecting
<1>2. CASE ~("user" \in due /\ interjected.ready /\ typing = 0 /\ pending = 0)
  BY <1>2 DEF G!UserEffect
<1> QED BY <1>1, <1>2

\* What the effects leave alone.
LEMMA EffectsKeep ==
  ASSUME G!Effects
  PROVE  /\ G!SpeechEffect /\ G!ContinueEffect /\ G!UserEffect
         /\ "user" \in due' <=> pending' # pending
         /\ "continue" \in due' <=> \/ pending' # pending \/ pipe' # pipe \/ active' # active \/ next' # next
         /\ UNCHANGED <<call, answers, said, known, loading, typing, interjected, waiting, dubbing, voiced>>
BY DEF G!Effects, G!backend

\* A response begins to be spoken; the other effects do nothing then.
LEMMA EffectsSpeak ==
  ASSUME FlowInv, G!Effects, "speech" \in due, pending \notin {0, processing}
  PROVE  FlowInv'
<1>1. /\ G!SpeechEffect /\ G!ContinueEffect /\ G!UserEffect
      /\ "user" \in due' <=> pending' # pending
      /\ UNCHANGED <<call, answers, said, known, loading, typing, interjected, waiting, dubbing, voiced>>
  BY EffectsKeep
<1>2. typing = 0 /\ speaking = {} /\ Response(pending) /\ pending \in Nat /\ pending # 0 /\ First(pending)
  BY DEF FlowInv, SpeakInv, GroupTypeInv, First
<1>3. UNCHANGED <<entering, chat>>
  BY <1>1, <1>2, UserOutcomes
<1>4. /\ UNCHANGED <<pending, pipe, next, active, lost>>
      /\ continuing' => continuing /\ "continue" \notin due
  <2>1. ~G!PausesNow /\ ~G!Proceeds
    BY <1>2 DEF G!PausesNow, G!Proceeds, G!Quiet
  <2> QED BY <1>1, <2>1 DEF G!ContinueEffect
<1>5. PICK q \in Qube : q = said[pending].by
  BY <1>2 DEF Response
<1> PICK a : a = IF pipe[q].status = "ready" /\ pipe[q].audio # 0 THEN pipe[q].audio ELSE pending
  OBVIOUS
<1> PICK free : free = (pipe[said[pending].then].status = "idle")
  OBVIOUS
<1>6. /\ free \in BOOLEAN /\ processing' = pending
      /\ speaking' = {[m |-> pending, audio |-> a, active |-> active, free |-> free]}
  <2>1. free \in BOOLEAN
    OBVIOUS
  <2>2. /\ speaking' = speaking \cup {[m |-> pending, audio |-> a, active |-> active, free |-> free]}
        /\ processing' = pending
    BY <1>1, <1>5 DEF G!SpeechEffect
  <2> QED BY <1>2, <2>1, <2>2
<1>7. a \in Nat /\ (a = pending \/ a \in lost \/ Doomed)
  <2>1. pipe[q].audio \in Nat /\ pipe[q].audio \in {0, pipe[q].m} \cup lost
    BY DEF FlowInv, GroupTypeInv, PreparedInv
  <2>2. ASSUME pipe[q].m # 0, ~Doomed
        PROVE  FALSE
    <3>1. Coming(pipe[q].m) /\ said[pipe[q].m].by = q
      BY <2>2 DEF Coming, FlowInv, PreparedInv
    <3> QED BY <1>2, <1>5, <2>2, <3>1 DEF FlowInv, FirstInv
  <2> QED BY <1>2, <1>6, <2>1, <2>2
<1>8. /\ \A d : Interjecting(d)' <=> Interjecting(d)
      /\ \A m : Coming(m)' <=> Coming(m)
      /\ \A m : Response(m)' <=> Response(m)
      /\ Calls' = Calls /\ (Doomed' <=> Doomed)
  BY <1>1, <1>3, <1>4 DEF Interjecting, Coming, Response, Said, Calls, Doomed
<1>9. GroupTypeInv'
  <2>1. speaking' \subseteq [m : Nat, audio : Nat, active : BOOLEAN, free : BOOLEAN]
    BY <1>2, <1>6, <1>7 DEF FlowInv, GroupTypeInv
  <2> QED BY <1>1, <1>2, <1>3, <1>4, <1>6, <2>1 DEF FlowInv, GroupTypeInv
<1>10. CallsInv' /\ AnswersInv' /\ OpenInv' /\ PreparedInv'
  <2>1. CallsInv' /\ AnswersInv'
    BY <1>1, <1>8 DEF FlowInv, CallsInv, AnswersInv
  <2>2. OpenInv' /\ PreparedInv'
    BY <1>1, <1>3, <1>4, <1>8 DEF FlowInv, OpenInv, PreparedInv
  <2> QED BY <2>1, <2>2
<1>11. InterjectedInv'
  BY <1>1, <1>2, <1>3, <1>4, <1>8 DEF FlowInv, InterjectedInv
<1>12. SpeakInv'
  BY <1>1, <1>2, <1>4, <1>6, <1>8 DEF SpeakInv
<1>13. TimerInv'
  BY <1>1, <1>2, <1>3, <1>4 DEF FlowInv, TimerInv
<1>14. FirstInv' /\ OrderInv'
  BY <1>1, <1>3, <1>4, <1>8, OrderStays
<1>15. VoiceInv'
  BY <1>1, <1>4, <1>6, <1>7, <1>8 DEF FlowInv, VoiceInv
<1> QED BY <1>9, <1>10, <1>11, <1>12, <1>13, <1>14, <1>15 DEF FlowInv

\* Otherwise nothing begins to be spoken.  If a response is taken while an interjection is
\* being shown this ends in crossed.
LEMMA EffectsTake ==
  ASSUME FlowInv, G!Effects, UNCHANGED <<processing, speaking>>,
         pending = 0, typing = 0, continuing' = FALSE, UNCHANGED <<next, active, lost>>,
         NEW q \in Qube, G!ReadyAt(q), G!Take(q)
  PROVE  FlowInv'
<1>1. /\ G!UserEffect
      /\ "user" \in due' <=> pending' # pending
      /\ "continue" \in due' <=> \/ pending' # pending \/ pipe' # pipe \/ active' # active \/ next' # next
      /\ UNCHANGED <<call, answers, said, known, loading, typing, interjected, waiting, dubbing, voiced>>
  BY EffectsKeep
<1>2. /\ pending' # 0 /\ Response(pending') /\ pending' \in Nat /\ speaking = {} /\ processing = 0
      /\ pipe' \in [Qube -> [status : {"idle", "generating_tts", "ready"}, m : Nat, audio : Nat]]
      /\ CallsInv' /\ OpenInv' /\ PreparedInv'
      /\ ((\A d : ~Interjecting(d)') \/ Doomed') => FirstInv'
      /\ (chat' = chat /\ ((\A d : ~Interjecting(d)') \/ Doomed')) => OrderInv'
  BY <1>1, TakenIsNext
<1>3. known /\ Calls' = Calls /\ \A m : Response(m)' <=> Response(m)
  <2>1. known
    BY DEF G!ReadyAt, FlowInv, PreparedInv
  <2> QED BY <1>1, <2>1 DEF Calls, Response, Said
<1>4. /\ (\A d : ~Interjecting(d)') \/ Doomed'
      /\ \/ UNCHANGED <<entering, chat>>
         \/ /\ interjected.ready /\ entering = {} /\ Interjecting(interjected.of)
            /\ entering' = {[of |-> interjected.of, stops |-> FALSE]}
            /\ chat' = Append(chat, call[interjected.of].user)
  <2>1. CASE UNCHANGED <<entering, chat>> /\ ("user" \in due => ~interjected.ready)
    <3>1. entering = {} => ~interjected.ready
      BY <2>1 DEF FlowInv, InterjectedInv
    <3>2. entering = {} => \A d : ~Interjecting(d)'
      BY <1>1, <2>1, <3>1 DEF Interjecting
    <3>3. entering # {} => Doomed'
      BY <1>2, <2>1 DEF Doomed
    <3> QED BY <2>1, <3>2, <3>3
  <2>2. CASE /\ interjected.ready /\ entering = {} /\ Interjecting(interjected.of)
             /\ entering' = {[of |-> interjected.of, stops |-> FALSE]}
             /\ chat' = Append(chat, call[interjected.of].user)
    BY <1>2, <2>2 DEF Doomed
  <2> QED BY <1>1, <2>1, <2>2, UserOutcomes
<1>5. FirstInv' /\ SpeakInv' /\ TimerInv' /\ VoiceInv' /\ AnswersInv'
  <2>1. FirstInv' /\ SpeakInv'
    BY <1>1, <1>2, <1>3, <1>4 DEF SpeakInv
  <2>2. TimerInv' /\ VoiceInv'
    BY <1>1, <1>2, <1>3 DEF FlowInv, TimerInv, VoiceInv
  <2> QED BY <1>1, <1>3, <2>1, <2>2 DEF FlowInv, AnswersInv
<1>6. CASE UNCHANGED <<entering, chat>>
  <2>1. GroupTypeInv'
    BY <1>1, <1>2, <1>6 DEF FlowInv, GroupTypeInv
  <2>2. \A d : Interjecting(d)' => Interjecting(d)
    BY <1>1, <1>6 DEF Interjecting
  <2>3. InterjectedInv'
    BY <1>1, <1>2, <1>3, <1>6, <2>2 DEF FlowInv, InterjectedInv
  <2> QED BY <1>2, <1>4, <1>5, <1>6, <2>1, <2>3 DEF FlowInv
<1>7. CASE /\ interjected.ready /\ entering = {} /\ Interjecting(interjected.of)
           /\ entering' = {[of |-> interjected.of, stops |-> FALSE]}
           /\ chat' = Append(chat, call[interjected.of].user)
  <2>1. PICK e : e = [of |-> interjected.of, stops |-> FALSE]
    OBVIOUS
  <2>2. entering' = {e} /\ e.of = interjected.of /\ e.stops = FALSE /\ e \in [of : Nat, stops : BOOLEAN]
    BY <1>7, <2>1 DEF FlowInv, GroupTypeInv
  <2>3. \A d : Interjecting(d)' => Interjecting(d)
    BY <1>1, <1>7, <2>2 DEF Interjecting
  <2>4. InterjectedInv'
    <3>1. \A d : Interjecting(d)' => d \in Calls' /\ call'[d].kind = "user" /\ call'[d].at = "done" /\ call'[d].m # 0
      BY <1>1, <1>3, <2>3 DEF FlowInv, InterjectedInv
    <3>2. interjected.of # 0 => waiting /\ known
      BY DEF FlowInv, InterjectedInv
    <3> QED BY <1>1, <1>2, <1>3, <1>7, <2>2, <3>1, <3>2 DEF InterjectedInv
  <2>5. PICK u \in Nat : /\ u = call[interjected.of].user /\ u <= Len(said)
                         /\ \A i \in 1 .. Len(chat) : chat[i] < u
    <3>1. interjected.of \in Calls
      BY <1>7 DEF FlowInv, InterjectedInv
    <3>2. call[interjected.of].user \in Nat /\ call[interjected.of].user <= Len(said)
      BY <3>1, GroupLengths DEF FlowInv, CallsInv, CallRecord
    <3>3. \A i \in 1 .. Len(chat) : chat[i] < call[interjected.of].user
      BY <1>7, <3>1 DEF FlowInv, OrderInv, Doomed
    <3> QED BY <3>2, <3>3
  <2>6. /\ chat' \in Seq(Nat) /\ Len(chat') = Len(chat) + 1 /\ Len(chat) \in Nat
        /\ \A i \in 1 .. Len(chat) : chat'[i] = chat[i]
        /\ chat'[Len(chat')] = u
    BY <1>7, <2>5, ChatMore DEF FlowInv
  <2>7. GroupTypeInv'
    BY <1>1, <1>2, <2>2, <2>6 DEF FlowInv, GroupTypeInv
  <2>8. OrderInv'
    <3>1. /\ \A i \in 1 .. Len(chat) : chat[i] <= Len(said)
          /\ \A i, j \in 1 .. Len(chat) : i < j => chat[i] < chat[j]
      BY DEF FlowInv, OrderInv
    <3>2. /\ \A i \in 1 .. Len(chat') : chat'[i] <= Len(said')
          /\ \A i, j \in 1 .. Len(chat') : i < j => chat'[i] < chat'[j]
      <4>1. GroupTypeInv /\ chat' = Append(chat, u) /\ said' = said
        BY <1>1, <1>7, <2>5 DEF FlowInv
      <4> QED BY <2>5, <3>1, <4>1, ShownMore
    <3>3. Doomed'
      BY <1>2, <2>2 DEF Doomed
    <3> QED BY <3>2, <3>3 DEF OrderInv
  <2> QED BY <1>2, <1>5, <2>4, <2>7, <2>8 DEF FlowInv
<1> QED BY <1>4, <1>6, <1>7

LEMMA EffectsRest ==
  ASSUME FlowInv, G!Effects, UNCHANGED <<processing, speaking>>, pending' = pending, active' \in BOOLEAN,
         active' => active,
         \/ "continue" \notin due /\ continuing' = continuing
         \/ continuing' => pending = 0 /\ typing = 0 /\ ~waiting /\ entering = {} /\ known,
         \/ pipe' = pipe /\ next' = next /\ lost' = lost
         \/ pipe' = G!NoPipes /\ next' = None /\ lost' = lost \cup (G!InPipes \ {0})
  PROVE  FlowInv'
<1>1. /\ G!UserEffect /\ "user" \notin due'
      /\ UNCHANGED <<call, answers, said, known, loading, typing, interjected, waiting, dubbing, voiced>>
  BY EffectsKeep
<1>2. /\ pipe' \in [Qube -> [status : {"idle", "generating_tts", "ready"}, m : Nat, audio : Nat]]
      /\ \A p \in Qube : pipe'[p] = pipe[p] \/ (pipe'[p].m = 0 /\ pipe'[p].audio = 0)
      /\ lost \subseteq lost' /\ next' \in Qube \cup {None}
  BY DEF FlowInv, GroupTypeInv, G!NoPipes, G!Empty
<1>3. Calls' = Calls /\ \A m : Response(m)' <=> Response(m)
  BY <1>1 DEF Calls, Response, Said
<1>4. \A m : Coming(m)' => Coming(m)
  BY <1>1, <1>2, <1>3 DEF Coming
<1>5. CallsInv' /\ AnswersInv' /\ SpeakInv'
  BY <1>1, <1>3 DEF FlowInv, CallsInv, AnswersInv, SpeakInv
<1>6. PreparedInv'
  <2>1. CASE pipe' = pipe /\ lost' = lost
    BY <1>1, <2>1 DEF FlowInv, PreparedInv
  <2>2. CASE pipe' = G!NoPipes /\ lost' = lost \cup (G!InPipes \ {0})
    <3>1. \A p \in Qube : pipe'[p].m = 0 /\ pipe'[p].audio = 0 /\ pipe[p].m \in G!InPipes
      BY <2>2 DEF G!NoPipes, G!Empty, G!InPipes
    <3>2. \A m \in dubbing : m = Len(said) /\ m # 0 /\ said[m].by \in Qube
      BY DEF FlowInv, PreparedInv
    <3>3. \A m \in dubbing : m \in lost'
      BY <2>2, <3>1 DEF FlowInv, PreparedInv
    <3>4. ~known => dubbing = {}
      BY DEF FlowInv, PreparedInv
    <3> QED BY <1>1, <3>1, <3>2, <3>3, <3>4 DEF PreparedInv
  <2> QED BY <2>1, <2>2
<1>7. CASE UNCHANGED <<entering, chat>> /\ ("user" \in due => ~(interjected.ready /\ typing = 0 /\ pending = 0))
  <2>1. \A d : Interjecting(d)' <=> Interjecting(d)
    BY <1>1, <1>7 DEF Interjecting
  <2>2. GroupTypeInv'
    BY <1>1, <1>2, <1>7 DEF FlowInv, GroupTypeInv
  <2>3. OpenInv'
    BY <1>1, <1>2, <1>3, <1>7 DEF FlowInv, OpenInv
  <2>4. InterjectedInv'
    BY <1>1, <1>3, <1>7, <2>1 DEF FlowInv, InterjectedInv
  <2>5. TimerInv'
    BY <1>1, <1>7 DEF FlowInv, TimerInv
  <2>6. VoiceInv'
    BY <1>1, <1>2, <1>7 DEF FlowInv, VoiceInv, Doomed
  <2>7. FirstInv' /\ OrderInv'
    BY <1>1, <1>3, <1>4, <1>7, <2>1, OrderStays DEF Doomed
  <2> QED BY <1>5, <1>6, <2>2, <2>3, <2>4, <2>5, <2>6, <2>7 DEF FlowInv
<1>8. CASE /\ "user" \in due /\ interjected.ready /\ typing = 0 /\ pending = 0 /\ entering = {}
           /\ Interjecting(interjected.of)
           /\ entering' = {[of |-> interjected.of, stops |-> FALSE]}
           /\ chat' = Append(chat, call[interjected.of].user)
  <2>1. PICK e : e = [of |-> interjected.of, stops |-> FALSE]
    OBVIOUS
  <2>2. entering' = {e} /\ e.of = interjected.of /\ e.stops = FALSE /\ e \in [of : Nat, stops : BOOLEAN]
    BY <1>8, <2>1 DEF FlowInv, GroupTypeInv
  <2>3. \A d : /\ Interjecting(d)' <=> d = interjected.of
               /\ Interjecting(d) <=> d = interjected.of
    BY <1>1, <1>8, <2>2 DEF Interjecting
  <2>4. PICK k \in Calls : k = interjected.of /\ call[k].kind = "user" /\ call[k].at = "done" /\ call[k].m # 0
    BY <1>8 DEF FlowInv, InterjectedInv
  <2>5. waiting /\ known
    BY <2>4 DEF FlowInv, InterjectedInv, Calls
  <2>6. PICK u \in Nat : u = call[k].user
    BY <2>4, GroupLengths DEF FlowInv, CallRecord
  <2>7. /\ u <= Len(said) /\ u < call[k].m /\ call[k].m \in Nat /\ Response(call[k].m) /\ call[k].m <= Len(said)
        /\ \A i \in 1 .. Len(chat) : chat[i] < u
    <3>1. u <= Len(said) /\ u < call[k].m /\ Response(call[k].m)
      BY <2>4, <2>6 DEF FlowInv, CallsInv
    <3>2. call[k].m \in Nat /\ call[k].m <= Len(said)
      BY <3>1, GroupLengths DEF FlowInv, Response, Said
    <3>3. \A i \in 1 .. Len(chat) : chat[i] < u
      BY <1>8, <2>3, <2>4, <2>6 DEF FlowInv, OrderInv, Doomed
    <3> QED BY <3>1, <3>2, <3>3
  <2>8. /\ chat' \in Seq(Nat) /\ Len(chat') = Len(chat) + 1 /\ Len(chat) \in Nat
        /\ \A i \in 1 .. Len(chat) : chat'[i] = chat[i]
        /\ chat'[Len(chat')] = u
    BY <1>8, <2>4, <2>6, ChatMore DEF FlowInv
  <2>9. GroupTypeInv'
    BY <1>1, <1>2, <2>2, <2>8 DEF FlowInv, GroupTypeInv
  <2>10. OpenInv'
    <3>1. \A c \in Calls : call[c].at # "done" => call[c].kind \notin {"start", "fresh", "user"}
      BY <1>8, <2>4 DEF FlowInv, OpenInv, Calls
    <3> QED BY <1>1, <1>2, <1>3, <3>1 DEF FlowInv, OpenInv
  <2>11. InterjectedInv'
    BY <1>1, <1>3, <1>8, <2>2, <2>3, <2>4, <2>5 DEF InterjectedInv
  <2>12. TimerInv'
    <3>1. ~continuing'
      BY <2>5 DEF FlowInv, TimerInv
    <3> QED BY <1>1, <2>5, <3>1 DEF TimerInv
  <2>13. VoiceInv'
    <3>1. speaking = {}
      BY <1>8 DEF FlowInv, SpeakInv
    <3> QED BY <1>1, <1>2, <3>1 DEF FlowInv, VoiceInv
  <2>14. FirstInv'
    <3>1. \A f : First(f)' => First(f)
      BY <1>1, <1>3, <2>3 DEF First
    <3>2. ~Doomed /\ pending' = 0
      BY <1>8 DEF Doomed
    <3> QED BY <1>1, <1>3, <1>4, <3>1, <3>2 DEF FlowInv, FirstInv
  <2>15. OrderInv'
    <3>1. /\ \A i \in 1 .. Len(chat) : chat[i] <= Len(said)
          /\ \A i, j \in 1 .. Len(chat) : i < j => chat[i] < chat[j]
          /\ \A i \in 1 .. Len(chat) :
               /\ \A m : Coming(m) => chat[i] # m
               /\ \A c \in Calls : call[c].at = "given" => chat[i] < call[c].m
               /\ chat[i] < call[k].m
      BY <1>8, <2>3, <2>4 DEF FlowInv, OrderInv, Doomed
    <3>2. /\ \A i \in 1 .. Len(chat') : chat'[i] <= Len(said')
          /\ \A i, j \in 1 .. Len(chat') : i < j => chat'[i] < chat'[j]
          /\ \A i \in 1 .. Len(chat') : chat'[i] = u \/ \E j \in 1 .. Len(chat) : chat'[i] = chat[j]
      <4>1. GroupTypeInv /\ chat' = Append(chat, u) /\ said' = said
        BY <1>1, <1>8, <2>4, <2>6 DEF FlowInv
      <4> QED BY <2>7, <3>1, <4>1, ShownMore
    <3>3. /\ \A m : Coming(m) => u # m
          /\ \A c \in Calls : call[c].at = "given" => u < call[c].m
      <4>1. \A m : Coming(m) => m = Len(said)
        BY FirstSaid
      <4>2. \A c \in Calls : call[c].at = "given" => call[c].m = Len(said)
        BY DEF FlowInv, CallsInv
      <4>3. u < Len(said)
        BY <2>7, GroupLengths DEF FlowInv
      <4> QED BY <4>1, <4>2, <4>3
    <3>4. \A i \in 1 .. Len(chat') :
            /\ \A m : Coming(m) => chat'[i] # m
            /\ \A c \in Calls : call[c].at = "given" => chat'[i] < call[c].m
            /\ chat'[i] < call[k].m
      BY <2>7, <3>1, <3>2, <3>3
    <3>5. \A c \in Calls : ~(call[c].kind = "user" /\ call[c].at # "done")
      BY <1>8, OpenCall
    <3>6. pending' = 0 /\ entering' # {}
      BY <1>8, <2>2
    <3> QED BY <1>1, <1>3, <1>4, <2>3, <2>4, <3>2, <3>3, <3>4, <3>5, <3>6 DEF OrderInv
  <2> QED BY <1>5, <1>6, <2>9, <2>10, <2>11, <2>12, <2>13, <2>14, <2>15 DEF FlowInv
<1> QED BY <1>1, <1>7, <1>8, UserOutcomes

LEMMA GroupEffects ==
  ASSUME FlowInv, G!Effects
  PROVE  FlowInv'
<1>1. CASE "speech" \in due /\ pending \notin {0, processing}
  BY <1>1, EffectsSpeak
<1>2. CASE ~("speech" \in due /\ pending \notin {0, processing})
  <2>1. UNCHANGED <<processing, speaking>> /\ G!ContinueEffect
    BY <1>2 DEF G!Effects, G!SpeechEffect
  <2>2. CASE "continue" \notin due /\ UNCHANGED <<continuing, pending, pipe, next, active, lost>>
    <3>1. active' \in BOOLEAN /\ (active' => active)
      BY <2>2 DEF FlowInv, GroupTypeInv
    <3> QED BY <2>1, <2>2, <3>1, EffectsRest
  <2>3. CASE /\ pending = 0 /\ typing = 0 /\ continuing' = FALSE /\ UNCHANGED <<next, active, lost>>
             /\ \E q \in Qube : G!ReadyAt(q) /\ G!Take(q)
    <3>1. PICK q \in Qube : G!ReadyAt(q) /\ G!Take(q)
      BY <2>3
    <3> QED BY <2>1, <2>3, <3>1, EffectsTake
  <2>4. CASE /\ pending' = pending /\ active' \in BOOLEAN /\ (active' => active)
             /\ continuing' => pending = 0 /\ typing = 0 /\ ~waiting /\ entering = {} /\ known
             /\ \/ pipe' = pipe /\ next' = next /\ lost' = lost
                \/ pipe' = G!NoPipes /\ next' = None /\ lost' = lost \cup (G!InPipes \ {0})
    BY <2>1, <2>4, EffectsRest
  <2> QED BY <2>1, <2>2, <2>3, <2>4, ContinueOutcomes
<1> QED BY <1>1, <1>2

\* The exceptions stay.
LEMMA CrossedStays ==
  ASSUME G!Next, crossed
  PROVE  crossed'
<1>1. CASE G!Effects
  BY <1>1 DEF G!Effects, G!backend
<1>2. ASSUME NEW c \in DOMAIN call, G!Backend(c)
      PROVE  crossed'
  BY <1>2 DEF G!Backend, G!Keep, G!Begin, G!Works, G!Ends, G!GiveUp, G!Respond
<1>3. ASSUME NEW c \in DOMAIN call, G!Answered(c)
      PROVE  crossed'
  BY <1>3 DEF G!Answered, G!Started, G!Continued, G!Prefetched, G!Interjected, G!Arrives, G!Ends
<1>4. ASSUME NEW m \in dubbing, NEW ok \in BOOLEAN, G!Dubbed(m, ok)
      PROVE  crossed'
  BY <1>4 DEF G!Dubbed, G!backend
<1>5. ASSUME NEW e \in entering, G!Enter(e) \/ G!Entered(e)
      PROVE  crossed'
  BY <1>5 DEF G!Enter, G!Entered, G!backend
<1>6. CASE G!Continue
  BY <1>6 DEF G!Continue, G!Asks
<1>7. ASSUME NEW s \in speaking, G!SpeechBegins(s) \/ G!SpeechFails(s)
      PROVE  crossed'
  BY <1>7 DEF G!SpeechBegins, G!SpeechFails, G!Prefetch, G!Asks, G!backend
<1>8. CASE G!Typed \/ G!Start \/ G!Interject
  BY <1>8 DEF G!Typed, G!Start, G!Interject, G!Asks, G!backend
<1>9. CASE G!Pause \/ G!Resume
  BY <1>9 DEF G!Pause, G!Resume, G!backend
<1> QED BY <1>1, <1>2, <1>3, <1>4, <1>5, <1>6, <1>7, <1>8, <1>9 DEF G!Next, G!Handlers, G!Fast, G!Slow

LEMMA GroupStep ==
  ASSUME GroupInv, G!Next
  PROVE  GroupInv'
<1> SUFFICES ASSUME ~crossed' PROVE FlowInv'
  BY DEF GroupInv
<1>1. FlowInv
  BY CrossedStays DEF GroupInv
<1>2. DOMAIN call = Calls
  BY <1>1, GroupLengths DEF FlowInv
<1>3. CASE G!Effects
  BY <1>1, <1>3, GroupEffects
<1>4. ASSUME NEW c \in Calls, G!Backend(c)
      PROVE  FlowInv'
  BY <1>1, <1>4, GroupKeep, GroupBegin, GroupRespond DEF G!Backend
<1>5. ASSUME NEW c \in Calls, G!Answered(c)
      PROVE  FlowInv'
  BY <1>1, <1>5, GroupStarted, GroupContinued, GroupPrefetched, GroupInterjected DEF G!Answered
<1>6. ASSUME NEW m \in dubbing, NEW ok \in BOOLEAN, G!Dubbed(m, ok)
      PROVE  FlowInv'
  BY <1>1, <1>6, GroupDubbed
<1>7. ASSUME due = {}, NEW e \in entering, G!Enter(e) \/ G!Entered(e)
      PROVE  FlowInv'
  BY <1>1, <1>7, GroupEnter, GroupEntered
<1>8. CASE due = {} /\ G!Continue
  BY <1>1, <1>8, GroupContinue
<1>9. ASSUME due = {}, entering = {}, NEW s \in speaking, G!SpeechBegins(s) \/ G!SpeechFails(s)
      PROVE  FlowInv'
  BY <1>1, <1>9, GroupSpeechBegins, GroupSpeechFails
<1>10. CASE due = {} /\ entering = {} /\ (G!Typed \/ G!Start \/ G!Interject)
  BY <1>1, <1>10, GroupTyped, GroupStart, GroupInterject
<1>11. CASE due = {} /\ entering = {} /\ (G!Pause \/ G!Resume)
  BY <1>1, <1>11, GroupPause, GroupResume
<1>12. CASE G!Fast /\ due = {}
  BY <1>2, <1>4, <1>5, <1>6, <1>7, <1>8, <1>12 DEF G!Fast
<1>13. CASE G!Slow /\ due = {} /\ entering = {}
  BY <1>9, <1>10, <1>11, <1>13 DEF G!Slow
<1> QED BY <1>3, <1>12, <1>13 DEF G!Next, G!Handlers

LEMMA GroupStutters ==
  ASSUME GroupInv, UNCHANGED groupVars
  PROVE  GroupInv'
<1> SUFFICES ASSUME ~crossed' PROVE FlowInv'
  BY DEF GroupInv
<1>1. UNCHANGED <<call, crossed, answers, said, known, loading, active, pending, typing, next, pipe, interjected,
                  chat, waiting, processing, dubbing, speaking, entering, continuing, due, voiced, lost>>
  BY DEF groupVars
<1>2. FlowInv
  BY <1>1 DEF GroupInv
<1>3. GroupTypeInv' /\ CallsInv' /\ AnswersInv' /\ OpenInv' /\ PreparedInv'
  <2>1. GroupTypeInv'
    BY <1>1, <1>2 DEF FlowInv, GroupTypeInv
  <2>2. CallsInv' /\ AnswersInv' /\ OpenInv' /\ PreparedInv'
    BY <1>1, <1>2 DEF FlowInv, CallsInv, AnswersInv, OpenInv, PreparedInv, Calls, Response, Said
  <2> QED BY <2>1, <2>2
<1>4. \A d : Interjecting(d)' <=> Interjecting(d)
  BY <1>1 DEF Interjecting
<1>5. (\A m : Coming(m)' <=> Coming(m)) /\ Calls' = Calls
  BY <1>1 DEF Coming, Calls
<1>6. InterjectedInv' /\ SpeakInv' /\ TimerInv' /\ VoiceInv'
  <2>1. InterjectedInv'
    BY <1>1, <1>2, <1>4, <1>5 DEF FlowInv, InterjectedInv
  <2>2. SpeakInv' /\ TimerInv' /\ VoiceInv'
    BY <1>1, <1>2 DEF FlowInv, SpeakInv, TimerInv, VoiceInv, Doomed, Response, Said
  <2> QED BY <2>1, <2>2
<1>7. FirstInv' /\ OrderInv'
  BY <1>1, <1>2, <1>4, <1>5, OrderStays DEF Doomed
<1> QED BY <1>3, <1>6, <1>7 DEF FlowInv

\* GroupChat and its specification count what is shown alike.
LEMMA GroupCounts ==
  ASSUME NEW U
  PROVE  G!Cardinality(U) = Cardinality(U)
BY Zenon DEF G!Cardinality, Cardinality

LEMMA GroupShows ==
  ASSUME GroupInv
  PROVE  G!ShownInOrder
<1> SUFFICES ASSUME FlowInv, NEW U, U = ({pending, typing} \cup {s.m : s \in speaking}) \ {0}
             PROVE  /\ \A i, j \in DOMAIN chat : i < j => chat[i] < chat[j]
                    /\ G!Cardinality(U) <= 1
                    /\ \A v \in voiced : v[1] = v[2] \/ v[2] \in lost
  BY DEF GroupInv, G!ShownInOrder
<1>1. \A i, j \in DOMAIN chat : i < j => chat[i] < chat[j]
  <2>1. chat \in Seq(Nat)
    BY DEF FlowInv, GroupTypeInv
  <2>2. DOMAIN chat = 1 .. Len(chat)
    BY <2>1
  <2> QED BY <2>2 DEF FlowInv, OrderInv
<1>2. PICK x : U \subseteq {x}
  <2>1. CASE typing = 0
    <3>1. \A s \in speaking : s.m = pending
      BY DEF FlowInv, SpeakInv
    <3>2. U \subseteq {pending}
      BY <2>1, <3>1
    <3> QED BY <3>2
  <2>2. CASE typing # 0
    <3>1. speaking = {} /\ pending = 0
      BY <2>2 DEF FlowInv, SpeakInv
    <3>2. U \subseteq {typing}
      BY <3>1
    <3> QED BY <3>2
  <2> QED BY <2>1, <2>2
<1>3. IsFiniteSet(U) /\ Cardinality(U) <= 1
  <2>1. IsFiniteSet({x}) /\ Cardinality({x}) = 1
    BY FS_Singleton
  <2>2. IsFiniteSet(U) /\ Cardinality(U) <= Cardinality({x})
    BY <1>2, <2>1, FS_Subset
  <2> QED BY <2>1, <2>2
<1>4. \A v \in voiced : v[1] = v[2] \/ v[2] \in lost
  BY DEF FlowInv, VoiceInv
<1> QED BY <1>1, <1>3, <1>4, GroupCounts

\* A conversation of any number of Qubes is shown in the order of the backend, each
\* message once, and spoken in its own words, one response at a time (GroupChat): the part
\* of it in NoOverlap.
THEOREM MessagesAreInOrder == Spec => [](component = "GroupChat" => G!ShownInOrder)
<1> DEFINE I == component = "GroupChat" => GroupInv
<1>1. Init => I
  BY GroupInit DEF Init
<1>2. I /\ [Next]_vars => I'
  <2> SUFFICES ASSUME I, [Next]_vars, component' = "GroupChat"
               PROVE  GroupInv'
    OBVIOUS
  <2>1. component = "GroupChat"
    BY DEF Next, vars
  <2>2. CASE G!Next
    BY <2>1, <2>2, GroupStep
  <2>3. CASE UNCHANGED groupVars
    BY <2>1, <2>3, GroupStutters
  <2> QED BY <2>1, <2>2, <2>3 DEF Next, vars
<1>3. I => (component = "GroupChat" => G!ShownInOrder)
  BY GroupShows
<1> QED BY <1>1, <1>2, <1>3, PTL DEF Spec

-----------------------------------------------------------------------------
(* GroupChat: types *)

Responses == {m \in Said : said[m].by \in Qube}

\* Interjections that the backend has kept and answered.
Interjections == {c \in Calls : call[c].user # 0 /\ call[c].m # 0}

\* Every message belongs to a call, which has at most two.
CallRanges ==
  /\ call \in Seq(CallRecord) /\ said \in Seq(SaidRecord) /\ Len(call) <= MaxCalls
  /\ \A c \in Calls :
       /\ call[c].user \in Said \cup {0} /\ call[c].m \in Responses \cup {0}
       /\ call[c].at = "given" => call[c].m # 0
       /\ call[c].at \in {"asked", "kept", "turn"} => call[c].m = 0
       /\ call[c].at = "asked" => call[c].user = 0
       /\ call[c].kind = "user" /\ call[c].at # "asked" => call[c].user # 0
  /\ \A m \in Said : \E c \in Calls : m \in {call[c].user, call[c].m}

AnswerRanges ==
  /\ busy \in Calls \cup {0}
  /\ answers \in Seq(Nat)
  /\ \A i \in 1 .. Len(answers) : answers[i] \in Calls /\ call[answers[i]].at \notin {"asked", "kept", "turn"}

Pipes ==
  [Qube -> [status : {"idle", "generating_tts", "ready"}, m : Responses \cup {0}, audio : Responses \cup {0}]]

ShownRanges ==
  /\ pending \in Responses \cup {0} /\ {typing, processing} \subseteq Said \cup {0} /\ next \in Qube \cup {None}
  /\ pipe \in Pipes
  /\ chat \in Seq(Nat) /\ \A i \in 1 .. Len(chat) : chat[i] \in Said

FlowRanges ==
  /\ dubbing \subseteq Responses
  /\ speaking \subseteq [m : Responses, audio : Responses, active : BOOLEAN, free : BOOLEAN]
  /\ voiced \subseteq Said \X Said /\ lost \subseteq Said

EnterRanges ==
  /\ interjected \in [of : Calls \cup {0}, ready : BOOLEAN]
  /\ interjected.ready => interjected.of \in Interjections
  /\ entering \subseteq [of : Interjections, stops : BOOLEAN]

FlagRanges ==
  /\ {known, loading, active, goOn, fetching, waiting, pauseAfter, continuing, ignored, crossed, cut}
       \subseteq BOOLEAN
  /\ due \subseteq {"speech", "continue", "user"} /\ failures \in 0 .. MaxTroubles

GroupRanges == CallRanges /\ AnswerRanges /\ ShownRanges /\ FlowRanges /\ EnterRanges /\ FlagRanges

LEMMA RangesOf ==
  ASSUME GroupRanges
  PROVE  GroupTypeInv /\ active \in BOOLEAN /\ Responses \subseteq Said /\ Said \subseteq Nat \ {0}
<1>1. Responses \subseteq Said /\ Said \subseteq Nat \ {0} /\ Calls \subseteq Nat /\ Interjections \subseteq Calls
  BY DEF Responses, Said, Calls, Interjections
<1>2. active \in BOOLEAN
  BY DEF GroupRanges, FlagRanges
<1>3. /\ pending \in Nat /\ typing \in Nat /\ processing \in Nat /\ next \in Qube \cup {None}
      /\ pipe \in [Qube -> [status : {"idle", "generating_tts", "ready"}, m : Nat, audio : Nat]]
  <2>1. Responses \cup {0} \subseteq Nat /\ Said \cup {0} \subseteq Nat
    BY <1>1
  <2>2. pending \in Nat /\ typing \in Nat /\ processing \in Nat /\ next \in Qube \cup {None}
    BY <2>1 DEF GroupRanges, ShownRanges
  <2>3. pipe \in [Qube -> [status : {"idle", "generating_tts", "ready"}, m : Nat, audio : Nat]]
    BY <2>1 DEF GroupRanges, ShownRanges, Pipes
  <2> QED BY <2>2, <2>3
<1>4. interjected \in [of : Nat, ready : BOOLEAN] /\ entering \subseteq [of : Nat, stops : BOOLEAN]
  <2>1. Calls \cup {0} \subseteq Nat /\ Interjections \subseteq Nat
    BY <1>1
  <2>2. interjected \in [of : Nat, ready : BOOLEAN]
    BY <2>1 DEF GroupRanges, EnterRanges
  <2>3. entering \subseteq [of : Nat, stops : BOOLEAN]
    BY <2>1 DEF GroupRanges, EnterRanges
  <2> QED BY <2>2, <2>3
<1>5. speaking \subseteq [m : Nat, audio : Nat, active : BOOLEAN, free : BOOLEAN]
  BY <1>1 DEF GroupRanges, FlowRanges
<1> QED BY <1>1, <1>2, <1>3, <1>4, <1>5 DEF GroupRanges, CallRanges, AnswerRanges, ShownRanges, GroupTypeInv

LEMMA RangesInit == G!Init => GroupRanges
<1> SUFFICES ASSUME G!Init PROVE GroupRanges
  OBVIOUS
<1>1. call = <<>> /\ said = <<>> /\ chat = <<>> /\ answers = <<>>
  BY DEF G!Init
<1>2. Calls = {} /\ Said = {}
  BY <1>1 DEF Calls, Said
<1>3. CallRanges
  BY <1>1, <1>2, GroupConstants DEF CallRanges
<1>4. AnswerRanges
  BY <1>1 DEF G!Init, AnswerRanges
<1>5. ShownRanges
  <2>1. pipe \in Pipes
    BY DEF G!Init, G!NoPipes, G!Empty, Pipes
  <2> QED BY <1>1, <2>1 DEF G!Init, ShownRanges
<1>6. FlowRanges /\ EnterRanges
  BY DEF G!Init, G!NoInterjection, FlowRanges, EnterRanges
<1>7. FlagRanges
  <2>1. MaxTroubles \in Nat
    BY SidecarAssumptions DEF G!GroupChatAssumption
  <2>2. /\ known \in BOOLEAN /\ loading \in BOOLEAN /\ active \in BOOLEAN /\ goOn \in BOOLEAN
        /\ fetching \in BOOLEAN /\ waiting \in BOOLEAN /\ pauseAfter \in BOOLEAN
        /\ continuing \in BOOLEAN /\ ignored \in BOOLEAN /\ crossed \in BOOLEAN /\ cut \in BOOLEAN
    BY DEF G!Init
  <2>3. due = {} /\ failures = 0
    BY DEF G!Init
  <2> QED BY <2>1, <2>2, <2>3 DEF FlagRanges
<1> QED BY <1>3, <1>4, <1>5, <1>6, <1>7 DEF GroupRanges

LEMMA FirstOnes ==
  ASSUME NEW n \in Nat
  PROVE  IsFiniteSet(1 .. n) /\ Cardinality(1 .. n) = n
<1>1. 1 \in Int /\ n \in Int
  OBVIOUS
<1>2. IsFiniteSet(1 .. n) /\ Cardinality(1 .. n) = IF 1 > n THEN 0 ELSE n - 1 + 1
  BY <1>1, FS_Interval
<1> QED BY <1>2

\* A message belongs to a call, and a call has two of them at most.
LEMMA FewMessages ==
  ASSUME GroupRanges
  PROVE  Len(said) <= 2 * MaxCalls
<1> DEFINE U == {call[c].user : c \in Calls}
           V == {call[c].m : c \in Calls}
<1>1. Len(call) \in Nat /\ Len(said) \in Nat /\ Len(call) <= MaxCalls /\ MaxCalls \in Nat
  BY GroupConstants DEF GroupRanges, CallRanges
<1>2. IsFiniteSet(Calls) /\ Cardinality(Calls) = Len(call)
  BY <1>1, FirstOnes DEF Calls
<1>3. IsFiniteSet(U) /\ Cardinality(U) <= Len(call)
  <2> DEFINE f == [c \in Calls |-> call[c].user]
  <2>1. f \in Surjection(Calls, U)
    BY DEF Surjection
  <2> QED BY <1>2, <2>1, FS_Surjection
<1>4. IsFiniteSet(V) /\ Cardinality(V) <= Len(call)
  <2> DEFINE f == [c \in Calls |-> call[c].m]
  <2>1. f \in Surjection(Calls, V)
    BY DEF Surjection
  <2> QED BY <1>2, <2>1, FS_Surjection
<1>5. Said \subseteq U \cup V
  BY DEF GroupRanges, CallRanges
<1> HIDE DEF U, V
<1>6. /\ IsFiniteSet(U \cup V)
      /\ Cardinality(U \cup V) = Cardinality(U) + Cardinality(V) - Cardinality(U \cap V)
  BY <1>3, <1>4, FS_Union
<1>7. Cardinality(U) \in Nat /\ Cardinality(V) \in Nat /\ Cardinality(U \cap V) \in Nat
  <2>1. IsFiniteSet(U \cap V)
    BY <1>3, FS_Subset
  <2> QED BY <1>3, <1>4, <2>1, FS_CardinalityType
<1>8. IsFiniteSet(Said) /\ Cardinality(Said) = Len(said)
  BY <1>1, FirstOnes DEF Said
<1>9. Cardinality(Said) <= Cardinality(U \cup V)
  BY <1>5, <1>6, FS_Subset
<1> QED BY <1>1, <1>3, <1>4, <1>6, <1>7, <1>8, <1>9

LEMMA GroupIsTyped ==
  ASSUME GroupRanges
  PROVE  G!TypeOK
<1>1. /\ call \in Seq(CallRecord) /\ said \in Seq(SaidRecord) /\ Len(call) <= MaxCalls
      /\ Len(said) \in Nat /\ Len(said) <= 2 * MaxCalls /\ MaxCalls \in Nat
  BY FewMessages, GroupConstants DEF GroupRanges, CallRanges
<1>2. Said \subseteq G!Message /\ Responses \subseteq G!Message /\ Interjections \subseteq Calls
  BY <1>1 DEF Said, Responses, Interjections, G!Message
<1>3. \A c \in 1 .. Len(call) :
        /\ call[c].kind \in {"start", "fresh", "ahead", "user"} /\ call[c].q \in Qube \cup {None}
        /\ call[c].at \in {"asked", "kept", "turn", "given", "nothing", "done"}
        /\ call[c].user \in 0 .. Len(said) /\ call[c].m \in 0 .. Len(said)
  <2> SUFFICES ASSUME NEW c \in Calls
               PROVE  /\ call[c].kind \in {"start", "fresh", "ahead", "user"} /\ call[c].q \in Qube \cup {None}
                      /\ call[c].at \in {"asked", "kept", "turn", "given", "nothing", "done"}
                      /\ call[c].user \in 0 .. Len(said) /\ call[c].m \in 0 .. Len(said)
    BY DEF Calls
  <2>1. call[c] \in CallRecord
    BY <1>1 DEF Calls
  <2>2. call[c].user \in Said \cup {0} /\ call[c].m \in Said \cup {0}
    BY DEF GroupRanges, CallRanges, Responses
  <2>3. \A m \in Said \cup {0} : m \in 0 .. Len(said)
    BY <1>1 DEF Said
  <2> QED BY <2>1, <2>2, <2>3 DEF CallRecord
<1>4. \A m \in 1 .. Len(said) : said[m].by \in Qube \cup {User} /\ said[m].then \in Qube \cup {None}
  <2> SUFFICES ASSUME NEW m \in 1 .. Len(said)
               PROVE  said[m].by \in Qube \cup {User} /\ said[m].then \in Qube \cup {None}
    OBVIOUS
  <2>1. said[m] \in SaidRecord
    BY <1>1
  <2> QED BY <2>1 DEF SaidRecord
<1>5. busy \in 0 .. Len(call) /\ G!ToSet(answers) \subseteq 1 .. Len(call)
  <2>1. busy \in 0 .. Len(call)
    BY <1>1 DEF GroupRanges, AnswerRanges, Calls
  <2>2. DOMAIN answers = 1 .. Len(answers)
    BY DEF GroupRanges, AnswerRanges
  <2>3. \A i \in DOMAIN answers : answers[i] \in 1 .. Len(call)
    BY <2>2 DEF GroupRanges, AnswerRanges, Calls
  <2> QED BY <2>1, <2>3 DEF G!ToSet
<1>6. /\ {pending, typing, processing} \subseteq G!Message \cup {0} /\ next \in Qube \cup {None}
      /\ pipe \in [Qube -> [status : {"idle", "generating_tts", "ready"}, m : G!Message \cup {0},
                            audio : G!Message \cup {0}]]
      /\ G!ToSet(chat) \subseteq G!Message
  <2>1. /\ {pending, typing, processing} \subseteq G!Message \cup {0} /\ next \in Qube \cup {None}
        /\ pipe \in [Qube -> [status : {"idle", "generating_tts", "ready"}, m : G!Message \cup {0},
                              audio : G!Message \cup {0}]]
    BY <1>2 DEF GroupRanges, ShownRanges, Pipes
  <2>2. DOMAIN chat = 1 .. Len(chat)
    BY DEF GroupRanges, ShownRanges
  <2>3. \A i \in DOMAIN chat : chat[i] \in G!Message
    BY <1>2, <2>2 DEF GroupRanges, ShownRanges
  <2> QED BY <2>1, <2>3 DEF G!ToSet
<1>7. /\ interjected.of \in 0 .. Len(call)
      /\ entering \subseteq [of : 1 .. Len(call), stops : BOOLEAN]
  <2>1. interjected.of \in Calls \cup {0} /\ entering \subseteq [of : Calls, stops : BOOLEAN]
    BY <1>2 DEF GroupRanges, EnterRanges
  <2>2. Calls \cup {0} \subseteq 0 .. Len(call)
    BY <1>1 DEF Calls
  <2> QED BY <2>1, <2>2 DEF Calls
<1>8. /\ dubbing \subseteq G!Message
      /\ speaking \subseteq [m : G!Message, audio : G!Message, active : BOOLEAN, free : BOOLEAN]
      /\ voiced \subseteq G!Message \X G!Message /\ lost \subseteq G!Message
  BY <1>2 DEF GroupRanges, FlowRanges
<1>9. /\ {known, loading, active, goOn, fetching, waiting, pauseAfter, continuing, ignored, crossed}
           \subseteq BOOLEAN
      /\ cut \in BOOLEAN /\ due \subseteq {"speech", "continue", "user"} /\ failures \in 0 .. MaxTroubles
  BY DEF GroupRanges, FlagRanges
<1> QED BY <1>1, <1>3, <1>4, <1>5, <1>6, <1>7, <1>8, <1>9 DEF G!TypeOK

\* Messages and responses are those of before.
LEMMA SayingIs ==
  ASSUME GroupRanges, NEW m \in Responses
  PROVE  m \in Said /\ m \in Nat /\ m # 0 /\ said[m].by \in Qube /\ said[m].then \in Qube \cup {None}
<1>1. m \in Said /\ said[m].by \in Qube
  BY DEF Responses
<1>2. said[m] \in SaidRecord
  BY <1>1 DEF GroupRanges, CallRanges, Said
<1> QED BY <1>1, <1>2 DEF SaidRecord, Said

\* What a step of the GUI keeps of the backend.
CallsGoOn ==
  /\ CallRanges' /\ AnswerRanges' /\ Said' = Said /\ Responses' = Responses
  /\ Calls \subseteq Calls' /\ Interjections \subseteq Interjections'

LEMMA CallsStay ==
  ASSUME GroupRanges, UNCHANGED <<call, busy, answers, said>>
  PROVE  CallsGoOn
<1>1. Said' = Said /\ Responses' = Responses /\ Calls' = Calls /\ Interjections' = Interjections
  BY DEF Said, Responses, Calls, Interjections
<1> QED BY <1>1 DEF GroupRanges, CallRanges, AnswerRanges, CallsGoOn

\* The state of a call changes.
LEMMA CallsMove ==
  ASSUME GroupRanges, NEW c \in Calls, NEW a \in {"turn", "nothing", "done"}, G!Ends(c, a), said' = said,
         call[c].kind = "user" => call[c].at # "asked", a = "turn" => call[c].m = 0
  PROVE  /\ CallRanges' /\ Said' = Said /\ Responses' = Responses /\ Calls' = Calls /\ crossed' = crossed
         /\ Interjections' = Interjections
         /\ \A d \in Calls : call'[d].at = IF d = c THEN a ELSE call[d].at
<1>1. /\ call' \in Seq(CallRecord) /\ Len(call') = Len(call) /\ Calls' = Calls
      /\ \A d \in Calls : /\ call'[d].kind = call[d].kind /\ call'[d].q = call[d].q
                          /\ call'[d].user = call[d].user /\ call'[d].m = call[d].m
                          /\ call'[d].at = IF d = c THEN a ELSE call[d].at
  <2>1. call' = [call EXCEPT ![c].at = a] /\ GroupTypeInv
    BY RangesOf DEF G!Ends
  <2>2. a \in {"asked", "kept", "turn", "given", "nothing", "done"}
    OBVIOUS
  <2> QED BY <2>1, <2>2, CallEnds
<1>2. Said' = Said /\ Responses' = Responses /\ crossed' = crossed
  BY DEF Said, Responses, G!Ends
<1>3. Interjections' = Interjections
  BY <1>1 DEF Interjections
<1>4. CallRanges'
  <2>1. /\ call \in Seq(CallRecord) /\ said \in Seq(SaidRecord) /\ Len(call) <= MaxCalls
        /\ \A m \in Said : \E d \in Calls : m \in {call[d].user, call[d].m}
    BY DEF GroupRanges, CallRanges
  <2>2. \A m \in Said' : \E d \in Calls' : m \in {call'[d].user, call'[d].m}
    BY <1>1, <1>2, <2>1
  <2>3. ASSUME NEW d \in Calls
        PROVE  /\ call'[d].user \in Said \cup {0} /\ call'[d].m \in Responses \cup {0}
               /\ call'[d].at = "given" => call'[d].m # 0
               /\ call'[d].at \in {"asked", "kept", "turn"} => call'[d].m = 0
               /\ call'[d].at = "asked" => call'[d].user = 0
               /\ call'[d].kind = "user" /\ call'[d].at # "asked" => call'[d].user # 0
    BY <1>1 DEF GroupRanges, CallRanges
  <2> QED BY <1>1, <1>2, <2>1, <2>2, <2>3 DEF CallRanges
<1> QED BY <1>1, <1>2, <1>3, <1>4

\* The GUI has the answer to a call.
LEMMA CallsArrive ==
  ASSUME GroupRanges, NEW c \in Calls, NEW kind, G!Arrives(c, kind), UNCHANGED <<busy, said>>
  PROVE  /\ CallsGoOn /\ crossed' = crossed /\ call[c].kind = kind
         /\ call[c].at = "given" => call[c].m \in Responses
         /\ call[c].at = "given" /\ kind = "user" => c \in Interjections'
<1>1. /\ answers # <<>> /\ c = Head(answers) /\ answers' = Tail(answers) /\ call[c].kind = kind
      /\ G!Ends(c, "done")
  BY DEF G!Arrives
<1>2. answers \in Seq(Nat) /\ Len(answers) \in Nat /\ Len(answers) > 0
  BY <1>1 DEF GroupRanges, AnswerRanges
<1>3. \A i \in 1 .. Len(answers) : answers[i] \in Calls /\ call[answers[i]].at \notin {"asked", "kept", "turn"}
  BY DEF GroupRanges, AnswerRanges
<1>4. call[c].at \notin {"asked", "kept", "turn"}
  <2>1. c = answers[1] /\ 1 \in 1 .. Len(answers)
    BY <1>1, <1>2
  <2> QED BY <1>3, <2>1
<1>5. /\ CallRanges' /\ Said' = Said /\ Responses' = Responses /\ Calls' = Calls /\ crossed' = crossed
      /\ Interjections' = Interjections
      /\ \A d \in Calls : call'[d].at = IF d = c THEN "done" ELSE call[d].at
  <2>1. "done" \in {"turn", "nothing", "done"} /\ "done" # "turn"
    OBVIOUS
  <2> QED BY <1>1, <1>4, <2>1, CallsMove
<1>6. AnswerRanges'
  <2>1. /\ answers' \in Seq(Nat) /\ Len(answers') = Len(answers) - 1
        /\ \A i \in 1 .. Len(answers') : answers'[i] = answers[i + 1] /\ i + 1 \in 1 .. Len(answers)
    BY <1>1, <1>2
  <2>2. \A i \in 1 .. Len(answers') :
          answers'[i] \in Calls' /\ call'[answers'[i]].at \notin {"asked", "kept", "turn"}
    BY <1>3, <1>5, <2>1
  <2> QED BY <1>5, <2>1, <2>2 DEF GroupRanges, AnswerRanges
<1>7. call[c].at = "given" => call[c].m \in Responses /\ (kind = "user" => c \in Interjections')
  <2>1. call[c].at = "given" => call[c].m \in Responses /\ call[c].m # 0 /\ (kind = "user" => call[c].user # 0)
    BY <1>1 DEF GroupRanges, CallRanges
  <2> QED BY <1>5, <2>1 DEF Interjections
<1> QED BY <1>1, <1>5, <1>6, <1>7 DEF CallsGoOn

\* A call is made.
LEMMA CallsAsk ==
  ASSUME GroupRanges, NEW kind \in {"start", "fresh", "ahead", "user"}, NEW q \in Qube \cup {None},
         G!CanAsk, G!Asks(kind, q), UNCHANGED <<busy, answers, said>>
  PROVE  CallsGoOn /\ crossed' \in BOOLEAN /\ Len(call') \in Calls'
<1>1. /\ call' \in Seq(CallRecord) /\ Len(call') = Len(call) + 1 /\ Len(call) \in Nat
      /\ \A d \in Calls : call'[d] = call[d]
      /\ Calls' = Calls \cup {Len(call) + 1} /\ Len(call) + 1 \notin Calls
      /\ call'[Len(call) + 1].kind = kind /\ call'[Len(call) + 1].at = "asked"
      /\ call'[Len(call) + 1].user = 0 /\ call'[Len(call) + 1].m = 0
  BY RangesOf, CallAsked
<1>2. Said' = Said /\ Responses' = Responses
  BY DEF Said, Responses
<1>3. Interjections \subseteq Interjections'
  BY <1>1 DEF Interjections
<1>4. crossed' \in BOOLEAN
  BY DEF G!Asks, GroupRanges, FlagRanges
<1>5. Len(call') <= MaxCalls
  BY <1>1, GroupConstants DEF G!CanAsk
<1>6. CallRanges'
  <2>1. /\ said \in Seq(SaidRecord)
        /\ \A m \in Said : \E d \in Calls : m \in {call[d].user, call[d].m}
    BY DEF GroupRanges, CallRanges
  <2>2. \A m \in Said' : \E d \in Calls' : m \in {call'[d].user, call'[d].m}
    BY <1>1, <1>2, <2>1
  <2>3. ASSUME NEW d \in Calls'
        PROVE  /\ call'[d].user \in Said \cup {0} /\ call'[d].m \in Responses \cup {0}
               /\ call'[d].at = "given" => call'[d].m # 0
               /\ call'[d].at \in {"asked", "kept", "turn"} => call'[d].m = 0
               /\ call'[d].at = "asked" => call'[d].user = 0
               /\ call'[d].kind = "user" /\ call'[d].at # "asked" => call'[d].user # 0
    <3>1. CASE d = Len(call) + 1
      BY <1>1, <3>1
    <3>2. CASE d \in Calls
      BY <1>1, <3>2 DEF GroupRanges, CallRanges
    <3> QED BY <1>1, <3>1, <3>2
  <2> QED BY <1>1, <1>2, <1>5, <2>1, <2>2, <2>3 DEF CallRanges
<1>7. AnswerRanges'
  BY <1>1 DEF GroupRanges, AnswerRanges
<1>8. Len(call') \in Calls'
  BY <1>1 DEF Calls
<1> QED BY <1>1, <1>2, <1>3, <1>4, <1>6, <1>7, <1>8 DEF CallsGoOn

\* What is shown, goes on and is remembered, after a step that says nothing.
LEMMA ShownAfter ==
  ASSUME CallsGoOn, pending' \in Responses \cup {0}, typing' \in Said \cup {0}, processing' \in Said \cup {0},
         next' \in Qube \cup {None}, pipe' \in Pipes,
         chat' \in Seq(Nat), \A i \in 1 .. Len(chat') : chat'[i] \in Said
  PROVE  ShownRanges'
<1>1. Said' = Said /\ Responses' = Responses
  BY DEF CallsGoOn
<1>2. Pipes' = Pipes
  BY <1>1 DEF Pipes
<1> QED BY <1>1, <1>2 DEF ShownRanges

LEMMA ShownStays ==
  ASSUME GroupRanges, CallsGoOn, pending' \in Responses \cup {0}, next' \in Qube \cup {None},
         pipe' \in Pipes, UNCHANGED <<typing, processing, chat>>
  PROVE  ShownRanges'
BY ShownAfter DEF GroupRanges, ShownRanges

LEMMA FlowAfter ==
  ASSUME CallsGoOn, dubbing' \subseteq Responses,
         speaking' \subseteq [m : Responses, audio : Responses, active : BOOLEAN, free : BOOLEAN],
         voiced' \subseteq Said \X Said, lost' \subseteq Said
  PROVE  FlowRanges'
<1>1. Said' = Said /\ Responses' = Responses
  BY DEF CallsGoOn
<1> QED BY <1>1 DEF FlowRanges

LEMMA FlowStays ==
  ASSUME GroupRanges, CallsGoOn, UNCHANGED <<dubbing, speaking, voiced>>, lost' \subseteq Said
  PROVE  FlowRanges'
BY FlowAfter DEF GroupRanges, FlowRanges

LEMMA EnterStays ==
  ASSUME GroupRanges, CallsGoOn, UNCHANGED <<interjected, entering>>
  PROVE  EnterRanges'
<1>1. Calls \subseteq Calls' /\ Interjections \subseteq Interjections'
  BY DEF CallsGoOn
<1>2. [of : Calls \cup {0}, ready : BOOLEAN] \subseteq [of : Calls' \cup {0}, ready : BOOLEAN]
  BY <1>1
<1>3. [of : Interjections, stops : BOOLEAN] \subseteq [of : Interjections', stops : BOOLEAN]
  BY <1>1
<1> QED BY <1>1, <1>2, <1>3 DEF GroupRanges, EnterRanges

LEMMA FlagsAfter ==
  ASSUME known' \in BOOLEAN, loading' \in BOOLEAN, active' \in BOOLEAN, goOn' \in BOOLEAN,
         fetching' \in BOOLEAN, waiting' \in BOOLEAN, pauseAfter' \in BOOLEAN, continuing' \in BOOLEAN,
         ignored' \in BOOLEAN, crossed' \in BOOLEAN, cut' \in BOOLEAN,
         due' \subseteq {"speech", "continue", "user"}, failures' \in 0 .. MaxTroubles
  PROVE  FlagRanges'
BY DEF FlagRanges

LEMMA FlagsAre ==
  ASSUME GroupRanges
  PROVE  /\ known \in BOOLEAN /\ loading \in BOOLEAN /\ active \in BOOLEAN /\ goOn \in BOOLEAN
         /\ fetching \in BOOLEAN /\ waiting \in BOOLEAN /\ pauseAfter \in BOOLEAN /\ continuing \in BOOLEAN
         /\ ignored \in BOOLEAN /\ crossed \in BOOLEAN /\ cut \in BOOLEAN
         /\ due \subseteq {"speech", "continue", "user"} /\ failures \in 0 .. MaxTroubles
BY DEF GroupRanges, FlagRanges

LEMMA RendersDue ==
  ASSUME GroupRanges, NEW u, G!Renders(u)
  PROVE  due' \subseteq {"speech", "continue", "user"}
BY FlagsAre DEF G!Renders

LEMMA TroubleCounts ==
  ASSUME GroupRanges, G!Trouble \/ failures' = failures
  PROVE  failures' \in 0 .. MaxTroubles
<1>1. MaxTroubles \in Nat
  BY SidecarAssumptions DEF G!GroupChatAssumption
<1> QED BY <1>1, FlagsAre DEF G!Trouble

LEMMA DropsSaid ==
  ASSUME GroupRanges, NEW ms, ms \subseteq Said \cup {0}, G!Drops(ms)
  PROVE  lost' \subseteq Said
BY DEF G!Drops, GroupRanges, FlowRanges

\* What waits in the pipelines.
LEMMA PipesAre ==
  ASSUME GroupRanges
  PROVE  /\ pipe \in Pipes /\ G!NoPipes \in Pipes /\ G!InPipes \subseteq Said \cup {0}
         /\ \A q \in Qube : /\ pipe[q].m \in Responses \cup {0} /\ pipe[q].audio \in Responses \cup {0}
                            /\ [pipe EXCEPT ![q] = G!Empty] \in Pipes
<1>1. pipe \in Pipes
  BY DEF GroupRanges, ShownRanges
<1>2. Responses \subseteq Said
  BY RangesOf
<1>3. \A q \in Qube : pipe[q].m \in Responses \cup {0} /\ pipe[q].audio \in Responses \cup {0}
  BY <1>1 DEF Pipes
<1>4. G!Empty \in [status : {"idle", "generating_tts", "ready"}, m : Responses \cup {0},
                   audio : Responses \cup {0}]
  BY DEF G!Empty
<1>5. G!NoPipes \in Pipes /\ \A q \in Qube : [pipe EXCEPT ![q] = G!Empty] \in Pipes
  BY <1>1, <1>4 DEF G!NoPipes, Pipes
<1>6. G!InPipes \subseteq Said \cup {0}
  BY <1>2, <1>3 DEF G!InPipes
<1> QED BY <1>1, <1>3, <1>5, <1>6

LEMMA TakesResponse ==
  ASSUME GroupRanges, NEW q \in Qube, G!Take(q)
  PROVE  pending' \in Responses \cup {0} /\ pipe' \in Pipes
BY PipesAre DEF G!Take

\* What a step of the backend leaves of the GUI.
LEMMA GuiStays ==
  ASSUME GroupRanges, UNCHANGED <<G!gui, crossed>>, CallRanges', AnswerRanges', Said \subseteq Said',
         Responses \subseteq Responses', Calls' = Calls, Interjections \subseteq Interjections',
         cut' \in BOOLEAN, G!Trouble \/ failures' = failures
  PROVE  GroupRanges'
<1>1. UNCHANGED <<known, loading, active, pending, typing, next, pipe, interjected, chat, goOn, fetching,
                  waiting, pauseAfter, processing, dubbing, speaking, entering, continuing, due, voiced,
                  lost, ignored, crossed>>
  BY DEF G!gui, G!refs, G!flow, G!history
<1>2. ShownRanges'
  <2>1. Pipes \subseteq Pipes'
    <3>1. [status : {"idle", "generating_tts", "ready"}, m : Responses \cup {0}, audio : Responses \cup {0}]
            \subseteq [status : {"idle", "generating_tts", "ready"}, m : Responses' \cup {0},
                       audio : Responses' \cup {0}]
      OBVIOUS
    <3> QED BY <3>1 DEF Pipes
  <2>2. pipe' \in Pipes'
    BY <1>1, <2>1 DEF GroupRanges, ShownRanges
  <2> QED BY <1>1, <2>2 DEF GroupRanges, ShownRanges
<1>3. FlowRanges'
  <2>1. [m : Responses, audio : Responses, active : BOOLEAN, free : BOOLEAN]
          \subseteq [m : Responses', audio : Responses', active : BOOLEAN, free : BOOLEAN]
    OBVIOUS
  <2>2. Said \X Said \subseteq Said' \X Said'
    OBVIOUS
  <2> QED BY <1>1, <2>1, <2>2 DEF GroupRanges, FlowRanges
<1>4. EnterRanges'
  <2>1. [of : Interjections, stops : BOOLEAN] \subseteq [of : Interjections', stops : BOOLEAN]
    OBVIOUS
  <2> QED BY <1>1, <2>1 DEF GroupRanges, EnterRanges
<1>5. FlagRanges'
  BY <1>1, FlagsAre, FlagsAfter, TroubleCounts
<1> QED BY <1>2, <1>3, <1>4, <1>5 DEF GroupRanges

LEMMA RangesKeep ==
  ASSUME GroupRanges, NEW c \in Calls, G!Keep(c)
  PROVE  GroupRanges'
<1>1. call[c].kind = "user" /\ call[c].at = "asked" /\ GroupTypeInv
  BY RangesOf DEF G!Keep, G!At
<1>2. /\ UNCHANGED <<crossed, busy, answers, G!gui, failures>> /\ cut' = TRUE
      /\ said' = Append(said, [by |-> User, then |-> None])
      /\ call' = [call EXCEPT ![c].at = "kept", ![c].user = Len(said')]
  BY DEF G!Keep
<1>0. PICK n \in Nat : n = Len(said) + 1
  BY <1>1, GroupLengths
<1>3. /\ said' \in Seq(SaidRecord) /\ Len(said') = n /\ Len(said) \in Nat
      /\ \A m \in Said : said'[m] = said[m]
  BY <1>0, <1>1, <1>2, SaidMore
<1> DEFINE r == [call[c] EXCEPT !.at = "kept", !.user = Len(said')]
<1>4. /\ r \in CallRecord /\ r.kind = "user" /\ r.user = n /\ r.m = call[c].m /\ r.at = "kept"
      /\ call' = [call EXCEPT ![c] = r]
  <2>1. call[c] \in CallRecord
    BY <1>1, GroupLengths
  <2>2. call' = [call EXCEPT ![c] = r]
    BY <1>2
  <2>3. r \in CallRecord /\ r.kind = call[c].kind /\ r.user = Len(said') /\ r.m = call[c].m /\ r.at = "kept"
    BY <1>3, <2>1 DEF CallRecord
  <2> QED BY <1>1, <1>3, <2>2, <2>3
<1> HIDE DEF r
<1>5. /\ call' \in Seq(CallRecord) /\ Len(call') = Len(call) /\ Calls' = Calls
      /\ \A d \in Calls : call'[d] = IF d = c THEN r ELSE call[d]
  BY <1>1, <1>4, CallSet
<1>6. call[c].user = 0 /\ call[c].m = 0
  BY <1>1 DEF GroupRanges, CallRanges
<1>7. Said' = Said \cup {n} /\ n # 0
  BY <1>0, <1>3 DEF Said
<1>8. Responses \subseteq Responses'
  BY <1>3, <1>7 DEF Responses
<1>9. Interjections \subseteq Interjections'
  BY <1>5, <1>6 DEF Interjections
<1>10. CallRanges'
  <2>1. \A m \in Said' : \E d \in Calls' : m \in {call'[d].user, call'[d].m}
    <3> SUFFICES ASSUME NEW m \in Said' PROVE \E d \in Calls' : m \in {call'[d].user, call'[d].m}
      OBVIOUS
    <3>1. CASE m = n
      BY <1>4, <1>5, <3>1
    <3>2. CASE m \in Said
      <4>1. m # 0
        BY <3>2, RangesOf
      <4>2. PICK d \in Calls : m \in {call[d].user, call[d].m}
        BY <3>2 DEF GroupRanges, CallRanges
      <4>3. d # c
        BY <1>6, <4>1, <4>2
      <4> QED BY <1>5, <4>2, <4>3
    <3> QED BY <1>7, <3>1, <3>2
  <2>2. ASSUME NEW d \in Calls
        PROVE  /\ call'[d].user \in Said' \cup {0} /\ call'[d].m \in Responses' \cup {0}
               /\ call'[d].at = "given" => call'[d].m # 0
               /\ call'[d].at \in {"asked", "kept", "turn"} => call'[d].m = 0
               /\ call'[d].at = "asked" => call'[d].user = 0
               /\ call'[d].kind = "user" /\ call'[d].at # "asked" => call'[d].user # 0
    <3>1. CASE d = c
      BY <1>4, <1>5, <1>6, <1>7, <3>1
    <3>2. CASE d # c
      <4>1. call'[d] = call[d]
        BY <1>5, <3>2
      <4>2. /\ call[d].user \in Said \cup {0} /\ call[d].m \in Responses \cup {0}
            /\ call[d].at = "given" => call[d].m # 0
            /\ call[d].at \in {"asked", "kept", "turn"} => call[d].m = 0
            /\ call[d].at = "asked" => call[d].user = 0
            /\ call[d].kind = "user" /\ call[d].at # "asked" => call[d].user # 0
        BY DEF GroupRanges, CallRanges
      <4>3. call[d].user \in Said' \cup {0} /\ call[d].m \in Responses' \cup {0}
        BY <1>7, <1>8, <4>2
      <4> QED BY <4>1, <4>2, <4>3
    <3> QED BY <3>1, <3>2
  <2>3. Len(call') <= MaxCalls
    BY <1>5 DEF GroupRanges, CallRanges
  <2> QED BY <1>3, <1>5, <2>1, <2>2, <2>3 DEF CallRanges
<1>11. AnswerRanges'
  <2>1. \A i \in 1 .. Len(answers) : answers[i] \in Calls /\ answers[i] # c
    BY <1>1 DEF GroupRanges, AnswerRanges
  <2>2. \A i \in 1 .. Len(answers) : call'[answers[i]] = call[answers[i]]
    BY <1>5, <2>1
  <2> QED BY <1>2, <1>5, <2>1, <2>2 DEF GroupRanges, AnswerRanges
<1>12. UNCHANGED <<G!gui, crossed>> /\ cut' \in BOOLEAN /\ failures' = failures
  BY <1>2
<1>13. Said \subseteq Said'
  BY <1>7
<1> QED BY <1>5, <1>8, <1>9, <1>10, <1>11, <1>12, <1>13, GuiStays

\* An answer is given.
LEMMA AnswersMore ==
  ASSUME GroupRanges, NEW c \in Calls, G!Answers(c), Calls' = Calls, busy' \in Calls \cup {0},
         \A d \in Calls : d # c => call'[d].at = call[d].at,
         call'[c].at \notin {"asked", "kept", "turn"}
  PROVE  AnswerRanges'
<1>1. answers \in Seq(Nat) /\ c \in Nat /\ answers' = Append(answers, c)
  BY DEF GroupRanges, AnswerRanges, G!Answers, Calls
<1>2. \A i \in 1 .. Len(answers) : answers[i] \in Calls /\ call[answers[i]].at \notin {"asked", "kept", "turn"}
  BY DEF GroupRanges, AnswerRanges
<1>3. /\ answers' \in Seq(Nat)
      /\ \A i \in 1 .. Len(answers') : answers'[i] = c \/ (i \in 1 .. Len(answers) /\ answers'[i] = answers[i])
  BY <1>1
<1>4. \A i \in 1 .. Len(answers') :
        answers'[i] \in Calls' /\ call'[answers'[i]].at \notin {"asked", "kept", "turn"}
  BY <1>2, <1>3
<1> QED BY <1>3, <1>4 DEF AnswerRanges

LEMMA RangesBegin ==
  ASSUME GroupRanges, NEW c \in Calls, G!Begin(c)
  PROVE  GroupRanges'
<1>1. /\ call[c].at \in {"asked", "kept"} /\ (call[c].kind = "user" => call[c].at # "asked")
      /\ UNCHANGED <<said, G!gui, failures>>
  BY DEF G!Begin, G!At
<1>2. call[c].m = 0 /\ c \in Nat
  BY <1>1 DEF GroupRanges, CallRanges, Calls
<1>3. CASE busy = 0
  <2>1. G!Ends(c, "turn") /\ busy' = c /\ cut' = FALSE /\ UNCHANGED answers
    BY <1>3 DEF G!Begin, G!Works
  <2>2. /\ CallRanges' /\ Said' = Said /\ Responses' = Responses /\ Calls' = Calls /\ crossed' = crossed
        /\ Interjections' = Interjections
        /\ \A d \in Calls : call'[d].at = IF d = c THEN "turn" ELSE call[d].at
    <3>1. "turn" \in {"turn", "nothing", "done"}
      OBVIOUS
    <3> QED BY <1>1, <1>2, <2>1, <3>1, CallsMove
  <2>3. AnswerRanges'
    <3>1. \A i \in 1 .. Len(answers) : /\ answers[i] \in Calls /\ answers[i] # c
                                       /\ call[answers[i]].at \notin {"asked", "kept", "turn"}
      BY <1>1 DEF GroupRanges, AnswerRanges
    <3>2. \A i \in 1 .. Len(answers) : call'[answers[i]].at \notin {"asked", "kept", "turn"}
      BY <2>2, <3>1
    <3> QED BY <2>1, <2>2, <3>1, <3>2 DEF GroupRanges, AnswerRanges
  <2>4. UNCHANGED <<G!gui, crossed>> /\ cut' \in BOOLEAN /\ failures' = failures
    BY <1>1, <2>1, <2>2
  <2> QED BY <2>2, <2>3, <2>4, GuiStays
<1>4. CASE busy # 0
  <2>1. G!Ends(c, "nothing") /\ G!Answers(c) /\ busy' = busy /\ cut' = cut
    BY <1>4 DEF G!Begin
  <2>2. /\ CallRanges' /\ Said' = Said /\ Responses' = Responses /\ Calls' = Calls /\ crossed' = crossed
        /\ Interjections' = Interjections
        /\ \A d \in Calls : call'[d].at = IF d = c THEN "nothing" ELSE call[d].at
    <3>1. "nothing" \in {"turn", "nothing", "done"} /\ "nothing" # "turn"
      OBVIOUS
    <3> QED BY <1>1, <2>1, <3>1, CallsMove
  <2>3. AnswerRanges'
    <3>1. busy' \in Calls \cup {0}
      BY <2>1 DEF GroupRanges, AnswerRanges
    <3>2. call'[c].at = "nothing" /\ \A d \in Calls : d # c => call'[d].at = call[d].at
      BY <2>2
    <3> QED BY <2>1, <2>2, <3>1, <3>2, AnswersMore
  <2>4. UNCHANGED <<G!gui, crossed>> /\ cut' \in BOOLEAN /\ failures' = failures
    BY <1>1, <2>1, <2>2, FlagsAre
  <2> QED BY <2>2, <2>3, <2>4, GuiStays
<1> QED BY <1>3, <1>4

LEMMA RangesGiveUp ==
  ASSUME GroupRanges, NEW c \in Calls, G!GiveUp(c)
  PROVE  GroupRanges'
<1>1. /\ call[c].at = "turn" /\ G!Ends(c, "nothing") /\ busy' = 0 /\ G!Answers(c)
      /\ UNCHANGED <<said, cut, G!gui>> /\ (G!Trouble \/ failures' = failures)
  BY DEF G!GiveUp, G!At
<1>2. /\ CallRanges' /\ Said' = Said /\ Responses' = Responses /\ Calls' = Calls /\ crossed' = crossed
      /\ Interjections' = Interjections
      /\ \A d \in Calls : call'[d].at = IF d = c THEN "nothing" ELSE call[d].at
  <2>1. "nothing" \in {"turn", "nothing", "done"} /\ "nothing" # "turn" /\ call[c].at # "asked"
    BY <1>1
  <2> QED BY <1>1, <2>1, CallsMove
<1>3. AnswerRanges'
  <2>1. call'[c].at = "nothing" /\ \A d \in Calls : d # c => call'[d].at = call[d].at
    BY <1>2
  <2> QED BY <1>1, <1>2, <2>1, AnswersMore
<1>4. UNCHANGED <<G!gui, crossed>> /\ cut' \in BOOLEAN
  BY <1>1, <1>2, FlagsAre
<1> QED BY <1>1, <1>2, <1>3, <1>4, GuiStays

LEMMA RangesRespond ==
  ASSUME GroupRanges, NEW c \in Calls, NEW q \in Qube, NEW guess \in Qube, G!Respond(c, q, guess)
  PROVE  GroupRanges'
<1>1. call[c].at = "turn" /\ GroupTypeInv
  BY RangesOf DEF G!Respond, G!At
<1>2. /\ UNCHANGED <<crossed, cut, G!gui, failures>> /\ busy' = 0 /\ G!Answers(c)
      /\ said' = Append(said, [by |-> q, then |-> guess])
      /\ call' = [call EXCEPT ![c].at = "given", ![c].m = Len(said')]
  BY DEF G!Respond
<1>0. PICK n \in Nat : n = Len(said) + 1
  BY <1>1, GroupLengths
<1>3. /\ said' \in Seq(SaidRecord) /\ Len(said') = n /\ Len(said) \in Nat
      /\ \A m \in Said : said'[m] = said[m]
      /\ said'[n].by = q
  <2>1. q \in Qube \cup {User} /\ guess \in Qube \cup {None}
    OBVIOUS
  <2> QED BY <1>0, <1>1, <1>2, <2>1, SaidMore
<1> DEFINE r == [call[c] EXCEPT !.at = "given", !.m = Len(said')]
<1>4. /\ r \in CallRecord /\ r.kind = call[c].kind /\ r.user = call[c].user /\ r.m = n /\ r.at = "given"
      /\ call' = [call EXCEPT ![c] = r]
  <2>1. call[c] \in CallRecord
    BY <1>1, GroupLengths
  <2>2. call' = [call EXCEPT ![c] = r]
    BY <1>2
  <2>3. r \in CallRecord /\ r.kind = call[c].kind /\ r.user = call[c].user /\ r.m = Len(said') /\ r.at = "given"
    BY <1>3, <2>1 DEF CallRecord
  <2> QED BY <1>3, <2>2, <2>3
<1> HIDE DEF r
<1>5. /\ call' \in Seq(CallRecord) /\ Len(call') = Len(call) /\ Calls' = Calls
      /\ \A d \in Calls : call'[d] = IF d = c THEN r ELSE call[d]
  BY <1>1, <1>4, CallSet
<1>6. /\ call[c].m = 0 /\ call[c].user \in Said \cup {0}
      /\ call[c].kind = "user" => call[c].user # 0
  BY <1>1 DEF GroupRanges, CallRanges
<1>7. Said' = Said \cup {n} /\ n # 0
  BY <1>0, <1>3 DEF Said
<1>8. Responses \subseteq Responses' /\ n \in Responses'
  BY <1>3, <1>7 DEF Responses
<1>9. Interjections \subseteq Interjections'
  BY <1>5, <1>6 DEF Interjections
<1>10. CallRanges'
  <2>1. \A m \in Said' : \E d \in Calls' : m \in {call'[d].user, call'[d].m}
    <3> SUFFICES ASSUME NEW m \in Said' PROVE \E d \in Calls' : m \in {call'[d].user, call'[d].m}
      OBVIOUS
    <3>1. CASE m = n
      BY <1>4, <1>5, <3>1
    <3>2. CASE m \in Said
      <4>1. m # 0
        BY <3>2, RangesOf
      <4>2. PICK d \in Calls : m \in {call[d].user, call[d].m}
        BY <3>2 DEF GroupRanges, CallRanges
      <4>3. call'[d].user = call[d].user /\ (call[d].m # 0 => call'[d].m = call[d].m)
        BY <1>4, <1>5, <1>6
      <4> QED BY <1>5, <4>1, <4>2, <4>3
    <3> QED BY <1>7, <3>1, <3>2
  <2>2. ASSUME NEW d \in Calls
        PROVE  /\ call'[d].user \in Said' \cup {0} /\ call'[d].m \in Responses' \cup {0}
               /\ call'[d].at = "given" => call'[d].m # 0
               /\ call'[d].at \in {"asked", "kept", "turn"} => call'[d].m = 0
               /\ call'[d].at = "asked" => call'[d].user = 0
               /\ call'[d].kind = "user" /\ call'[d].at # "asked" => call'[d].user # 0
    <3>1. CASE d = c
      BY <1>4, <1>5, <1>6, <1>7, <1>8, <3>1
    <3>2. CASE d # c
      <4>1. call'[d] = call[d]
        BY <1>5, <3>2
      <4>2. /\ call[d].user \in Said \cup {0} /\ call[d].m \in Responses \cup {0}
            /\ call[d].at = "given" => call[d].m # 0
            /\ call[d].at \in {"asked", "kept", "turn"} => call[d].m = 0
            /\ call[d].at = "asked" => call[d].user = 0
            /\ call[d].kind = "user" /\ call[d].at # "asked" => call[d].user # 0
        BY DEF GroupRanges, CallRanges
      <4>3. call[d].user \in Said' \cup {0} /\ call[d].m \in Responses' \cup {0}
        BY <1>7, <1>8, <4>2
      <4> QED BY <4>1, <4>2, <4>3
    <3> QED BY <3>1, <3>2
  <2>3. Len(call') <= MaxCalls
    BY <1>5 DEF GroupRanges, CallRanges
  <2> QED BY <1>3, <1>5, <2>1, <2>2, <2>3 DEF CallRanges
<1>11. AnswerRanges'
  <2>1. call'[c].at = "given" /\ \A d \in Calls : d # c => call'[d].at = call[d].at
    BY <1>4, <1>5
  <2> QED BY <1>2, <1>5, <2>1, AnswersMore
<1>12. UNCHANGED <<G!gui, crossed>> /\ cut' \in BOOLEAN /\ failures' = failures
  BY <1>2, FlagsAre
<1>13. Said \subseteq Said'
  BY <1>7
<1> QED BY <1>5, <1>8, <1>9, <1>10, <1>11, <1>12, <1>13, GuiStays

\* A response is asked for, or its call fails.
LEMMA RangesStart ==
  ASSUME GroupRanges, G!Start
  PROVE  GroupRanges'
<1>1. /\ G!CanAsk /\ G!Asks("start", None) /\ loading' = TRUE /\ active' = TRUE /\ goOn' = TRUE
      /\ UNCHANGED <<busy, cut, answers, said, known, pending, typing, next, pipe, interjected, chat, fetching,
                     waiting, pauseAfter, processing, dubbing, speaking, entering, continuing, voiced, lost,
                     ignored, failures>>
      /\ G!Renders(FALSE)
  BY DEF G!Start, G!flow, G!history
<1>2. CallsGoOn /\ crossed' \in BOOLEAN
  BY <1>1, CallsAsk
<1>3. ShownRanges' /\ FlowRanges' /\ EnterRanges'
  BY <1>1, <1>2, ShownStays, FlowStays, EnterStays DEF GroupRanges, ShownRanges, FlowRanges
<1>4. FlagRanges'
  BY <1>1, <1>2, FlagsAre, FlagsAfter, RendersDue
<1> QED BY <1>2, <1>3, <1>4 DEF GroupRanges, CallsGoOn

\* The speaker who is expected after a response.
LEMMA ThenSpeaks ==
  ASSUME GroupRanges, NEW m \in Responses
  PROVE  said[m].then \in Qube \cup {None}
BY SayingIs

LEMMA RangesStarted ==
  ASSUME GroupRanges, NEW c \in Calls, G!Started(c)
  PROVE  GroupRanges'
<1>1. /\ G!Arrives(c, "start")
      /\ UNCHANGED <<busy, cut, said, typing, pipe, interjected, chat, goOn, fetching, waiting, pauseAfter,
                     processing, dubbing, speaking, entering, continuing, voiced, lost, ignored, failures>>
      /\ G!Renders(FALSE)
  BY DEF G!Started, G!refs, G!flow, G!history
<1>2. /\ CallsGoOn /\ crossed' = crossed
      /\ call[c].at = "given" => call[c].m \in Responses
  BY <1>1, CallsArrive
<1>3. \/ /\ call[c].at = "given" /\ known' = TRUE /\ next' = said[call[c].m].then /\ pending' = call[c].m
         /\ UNCHANGED <<loading, active>>
      \/ loading' = FALSE /\ active' = FALSE /\ UNCHANGED <<known, next, pending>>
  BY DEF G!Started, G!At
<1>4. pending' \in Responses \cup {0} /\ next' \in Qube \cup {None}
  BY <1>2, <1>3, ThenSpeaks DEF GroupRanges, ShownRanges
<1>5. known' \in BOOLEAN /\ loading' \in BOOLEAN /\ active' \in BOOLEAN
  BY <1>3, FlagsAre
<1>6. ShownRanges' /\ FlowRanges' /\ EnterRanges'
  BY <1>1, <1>2, <1>4, ShownStays, FlowStays, EnterStays DEF GroupRanges, ShownRanges, FlowRanges
<1>7. FlagRanges'
  BY <1>1, <1>2, <1>5, FlagsAre, FlagsAfter, RendersDue
<1> QED BY <1>2, <1>6, <1>7 DEF GroupRanges, CallsGoOn

LEMMA RangesContinue ==
  ASSUME GroupRanges, G!Continue
  PROVE  GroupRanges'
<1>1. /\ UNCHANGED <<busy, cut, answers, said, known, loading, active, pending, typing, next, pipe, interjected,
                     chat, goOn, waiting, pauseAfter, processing, dubbing, speaking, entering, due, voiced, lost,
                     ignored, failures>>
      /\ continuing' = FALSE
  BY DEF G!Continue, G!history
<1>2. CallsGoOn /\ crossed' \in BOOLEAN /\ fetching' \in BOOLEAN
  <2>1. CASE fetching
    <3>1. UNCHANGED <<call, crossed, fetching>>
      BY <2>1 DEF G!Continue
    <3> QED BY <1>1, <3>1, CallsStay, FlagsAre
  <2>2. CASE ~fetching
    <3>1. G!CanAsk /\ G!Asks("fresh", None) /\ fetching' = TRUE
      BY <2>2 DEF G!Continue
    <3> QED BY <1>1, <3>1, CallsAsk
  <2> QED BY <2>1, <2>2
<1>3. ShownRanges' /\ FlowRanges' /\ EnterRanges'
  BY <1>1, <1>2, ShownStays, FlowStays, EnterStays DEF GroupRanges, ShownRanges, FlowRanges
<1>4. FlagRanges'
  BY <1>1, <1>2, FlagsAre, FlagsAfter
<1> QED BY <1>2, <1>3, <1>4 DEF GroupRanges, CallsGoOn

LEMMA RangesContinued ==
  ASSUME GroupRanges, NEW c \in Calls, G!Continued(c)
  PROVE  GroupRanges'
<1>1. /\ G!Arrives(c, "fresh") /\ fetching' = FALSE
      /\ UNCHANGED <<busy, cut, said, known, typing, pipe, interjected, chat, goOn, waiting, pauseAfter,
                     processing, dubbing, speaking, entering, continuing, voiced, lost, ignored, failures>>
      /\ G!Renders(FALSE)
  BY DEF G!Continued, G!flow, G!history
<1>2. /\ CallsGoOn /\ crossed' = crossed
      /\ call[c].at = "given" => call[c].m \in Responses
  BY <1>1, CallsArrive
<1>3. \/ /\ call[c].at = "given" /\ next' = said[call[c].m].then /\ pending' = call[c].m
         /\ UNCHANGED <<loading, active>>
      \/ loading' = FALSE /\ active' = FALSE /\ UNCHANGED <<next, pending>>
  BY DEF G!Continued, G!At
<1>4. pending' \in Responses \cup {0} /\ next' \in Qube \cup {None}
  BY <1>2, <1>3, ThenSpeaks DEF GroupRanges, ShownRanges
<1>5. loading' \in BOOLEAN /\ active' \in BOOLEAN
  BY <1>3, FlagsAre
<1>6. ShownRanges' /\ FlowRanges' /\ EnterRanges'
  BY <1>1, <1>2, <1>4, ShownStays, FlowStays, EnterStays DEF GroupRanges, ShownRanges, FlowRanges
<1>7. FlagRanges'
  BY <1>1, <1>2, <1>5, FlagsAre, FlagsAfter, RendersDue
<1> QED BY <1>2, <1>6, <1>7 DEF GroupRanges, CallsGoOn

LEMMA RangesPrefetched ==
  ASSUME GroupRanges, NEW c \in Calls, G!Prefetched(c)
  PROVE  GroupRanges'
<1>1. /\ G!Arrives(c, "ahead")
      /\ UNCHANGED <<busy, cut, said, known, loading, active, pending, typing, interjected, chat, goOn, waiting,
                     pauseAfter, processing, speaking, entering, continuing, voiced, lost, ignored, failures>>
      /\ G!Renders(TRUE)
  BY DEF G!Prefetched, G!history
<1>2. /\ CallsGoOn /\ crossed' = crossed
      /\ call[c].at = "given" => call[c].m \in Responses
  BY <1>1, CallsArrive
<1>3. CASE call[c].at = "given"
  <2>1. PICK m \in Responses : m = call[c].m
    BY <1>2, <1>3
  <2>2. PICK q \in Qube : q = said[m].by
    BY SayingIs
  <2> DEFINE others == [pipe EXCEPT ![call[c].q] = IF call[c].q = q THEN @ ELSE G!Empty]
  <2>3. /\ pipe' = [others EXCEPT ![q].status = "generating_tts", ![q].m = m]
        /\ next' = q /\ dubbing' = dubbing \cup {m} /\ fetching' = fetching
    BY <1>3, <2>1, <2>2 DEF G!Prefetched, G!At
  <2>4. others \in Pipes
    <3>1. CASE call[c].q \in Qube /\ call[c].q # q
      BY <3>1, PipesAre
    <3>2. CASE ~(call[c].q \in Qube /\ call[c].q # q)
      <4>1. others = pipe
        BY <3>2, PipesAre DEF Pipes
      <4> QED BY <4>1, PipesAre
    <3> QED BY <3>1, <3>2
  <2> HIDE DEF others
  <2>5. pipe' \in Pipes
    BY <2>3, <2>4 DEF Pipes
  <2>6. ShownRanges' /\ EnterRanges'
    BY <1>1, <1>2, <2>3, <2>5, ShownStays, EnterStays DEF GroupRanges, ShownRanges
  <2>7. FlowRanges'
    BY <1>1, <1>2, <2>3, FlowAfter DEF GroupRanges, FlowRanges
  <2>8. FlagRanges'
    BY <1>1, <1>2, <2>3, FlagsAre, FlagsAfter, RendersDue
  <2> QED BY <1>2, <2>6, <2>7, <2>8 DEF GroupRanges, CallsGoOn
<1>4. CASE call[c].at # "given"
  <2>1. /\ pipe' = [pipe EXCEPT ![call[c].q].status = "idle"]
        /\ fetching' = FALSE /\ UNCHANGED <<next, dubbing>>
    BY <1>4 DEF G!Prefetched, G!At
  <2>2. pipe' \in Pipes
    <3> DEFINE P == [status : {"idle", "generating_tts", "ready"}, m : Responses \cup {0},
                     audio : Responses \cup {0}]
    <3>1. \A p \in P : [p EXCEPT !.status = "idle"] \in P
      OBVIOUS
    <3>2. pipe \in [Qube -> P]
      BY PipesAre DEF Pipes
    <3> HIDE DEF P
    <3>3. pipe' \in [Qube -> P]
      BY <2>1, <3>1, <3>2
    <3> QED BY <1>2, <3>3 DEF P, Pipes
  <2>3. ShownRanges' /\ FlowRanges' /\ EnterRanges'
    BY <1>1, <1>2, <2>1, <2>2, ShownStays, FlowStays, EnterStays DEF GroupRanges, ShownRanges, FlowRanges
  <2>4. FlagRanges'
    BY <1>1, <1>2, <2>1, FlagsAre, FlagsAfter, RendersDue
  <2> QED BY <1>2, <2>3, <2>4 DEF GroupRanges, CallsGoOn
<1> QED BY <1>3, <1>4

LEMMA RangesInterjected ==
  ASSUME GroupRanges, NEW c \in Calls, G!Interjected(c)
  PROVE  GroupRanges'
<1>1. /\ G!Arrives(c, "user")
      /\ UNCHANGED <<busy, cut, said, known, loading, active, pending, typing, next, pipe, chat, goOn, fetching,
                     pauseAfter, processing, dubbing, speaking, entering, continuing, voiced, lost, failures>>
      /\ G!Renders(FALSE)
  BY DEF G!Interjected, G!flow
<1>2. /\ CallsGoOn /\ crossed' = crossed
      /\ call[c].at = "given" => c \in Interjections'
  BY <1>1, CallsArrive
<1>3. \/ /\ call[c].at = "given" /\ interjected' = [of |-> c, ready |-> TRUE] /\ UNCHANGED <<waiting, ignored>>
      \/ interjected' = G!NoInterjection /\ waiting' = FALSE /\ ignored' = TRUE
  BY DEF G!Interjected, G!At
<1>4. ShownRanges' /\ FlowRanges'
  BY <1>1, <1>2, ShownStays, FlowStays DEF GroupRanges, ShownRanges, FlowRanges
<1>5. EnterRanges'
  <2>1. c \in Calls' /\ Interjections \subseteq Interjections'
    BY <1>2 DEF CallsGoOn
  <2>2. interjected' \in [of : Calls' \cup {0}, ready : BOOLEAN]
    <3>1. [of |-> c, ready |-> TRUE] \in [of : Calls' \cup {0}, ready : BOOLEAN]
      BY <2>1
    <3>2. G!NoInterjection \in [of : Calls' \cup {0}, ready : BOOLEAN]
      BY DEF G!NoInterjection
    <3> QED BY <1>3, <3>1, <3>2
  <2>3. interjected'.ready => interjected'.of \in Interjections'
    BY <1>2, <1>3 DEF G!NoInterjection
  <2>4. [of : Interjections, stops : BOOLEAN] \subseteq [of : Interjections', stops : BOOLEAN]
    BY <2>1
  <2> QED BY <1>1, <2>2, <2>3, <2>4 DEF GroupRanges, EnterRanges
<1>6. waiting' \in BOOLEAN /\ ignored' \in BOOLEAN
  BY <1>3, FlagsAre
<1>7. FlagRanges'
  BY <1>1, <1>2, <1>6, FlagsAre, FlagsAfter, RendersDue
<1> QED BY <1>2, <1>4, <1>5, <1>7 DEF GroupRanges, CallsGoOn

LEMMA RangesDubbed ==
  ASSUME GroupRanges, NEW m \in dubbing, NEW ok \in BOOLEAN, G!Dubbed(m, ok)
  PROVE  GroupRanges'
<1>1. m \in Responses
  BY DEF GroupRanges, FlowRanges
<1>2. PICK q \in Qube : q = said[m].by
  BY <1>1, SayingIs
<1>3. /\ dubbing' = dubbing \ {m} /\ (G!Trouble \/ failures' = failures)
      /\ \/ pipe' = [pipe EXCEPT ![q].status = "ready", ![q].audio = m]
         \/ pipe' = [pipe EXCEPT ![q].status = "ready", ![q].m = m]
      /\ next' = said[m].then /\ fetching' = FALSE
      /\ UNCHANGED <<call, crossed, busy, cut, answers, said, known, loading, active, pending, typing, interjected,
                     chat, goOn, waiting, pauseAfter, processing, speaking, entering, continuing, voiced, lost,
                     ignored>>
      /\ G!Renders(TRUE)
  BY <1>2 DEF G!Dubbed, G!backend, G!history
<1>4. CallsGoOn
  BY <1>3, CallsStay
<1>5. pipe' \in Pipes
  <2> DEFINE P == [status : {"idle", "generating_tts", "ready"}, m : Responses \cup {0},
                   audio : Responses \cup {0}]
  <2>1. \A p \in P : /\ [p EXCEPT !.status = "ready", !.audio = m] \in P
                     /\ [p EXCEPT !.status = "ready", !.m = m] \in P
    BY <1>1
  <2>2. pipe \in [Qube -> P]
    BY PipesAre DEF Pipes
  <2>3. \/ pipe' = [pipe EXCEPT ![q] = [pipe[q] EXCEPT !.status = "ready", !.audio = m]]
        \/ pipe' = [pipe EXCEPT ![q] = [pipe[q] EXCEPT !.status = "ready", !.m = m]]
    BY <1>3, <2>2
  <2> HIDE DEF P
  <2>4. pipe' \in [Qube -> P]
    BY <2>1, <2>2, <2>3
  <2> QED BY <2>4 DEF P, Pipes
<1>6. next' \in Qube \cup {None}
  BY <1>1, <1>3, ThenSpeaks
<1>7. ShownRanges' /\ EnterRanges'
  BY <1>3, <1>4, <1>5, <1>6, ShownStays, EnterStays DEF GroupRanges, ShownRanges
<1>8. FlowRanges'
  BY <1>3, <1>4, FlowAfter DEF GroupRanges, FlowRanges
<1>9. FlagRanges'
  BY <1>3, FlagsAre, FlagsAfter, RendersDue, TroubleCounts
<1> QED BY <1>4, <1>7, <1>8, <1>9 DEF GroupRanges, CallsGoOn

\* What is spoken.
LEMMA SpeechIs ==
  ASSUME GroupRanges, NEW s \in speaking
  PROVE  s.m \in Responses /\ s.audio \in Responses /\ s.m \in Said /\ s.audio \in Said
BY RangesOf DEF GroupRanges, FlowRanges

LEMMA RangesSpeechBegins ==
  ASSUME GroupRanges, NEW s \in speaking, G!SpeechBegins(s)
  PROVE  GroupRanges'
<1>1. PICK m \in Responses, a \in Responses, g \in Qube \cup {None}, b \in Qube :
        m = s.m /\ a = s.audio /\ g = said[m].then /\ b = said[m].by
  BY SpeechIs, SayingIs
<1>2. m \in Said /\ a \in Said /\ m \in Nat
  BY <1>1, SpeechIs, SayingIs
<1>3. /\ speaking' = speaking \ {s} /\ typing' = m /\ chat' = Append(chat, m)
      /\ pending' = 0 /\ loading' = FALSE
      /\ pipe' = [pipe EXCEPT ![b] = G!Empty] \/ pipe' = pipe
      /\ voiced' = voiced \cup {<<m, a>>}
      /\ UNCHANGED <<busy, cut, answers, said, known, active, interjected, goOn, waiting, pauseAfter, processing,
                     dubbing, entering, continuing, lost, ignored, failures>>
      /\ G!Renders(a # m)
  BY <1>1 DEF G!SpeechBegins
<1>4. \/ next' = g /\ G!Prefetch(g, s.free)
      \/ UNCHANGED <<call, crossed, fetching, next>>
  BY <1>1 DEF G!SpeechBegins
<1>5. \/ G!CanAsk /\ G!Asks("ahead", g) /\ fetching' = TRUE
      \/ UNCHANGED <<call, crossed, fetching>>
  BY <1>4 DEF G!Prefetch
<1>6. CallsGoOn /\ crossed' \in BOOLEAN /\ fetching' \in BOOLEAN
  <2>1. CASE UNCHANGED <<call, crossed, fetching>>
    BY <1>3, <2>1, CallsStay, FlagsAre
  <2>2. CASE G!CanAsk /\ G!Asks("ahead", g) /\ fetching' = TRUE
    <3>1. "ahead" \in {"start", "fresh", "ahead", "user"}
      OBVIOUS
    <3> QED BY <1>3, <2>2, <3>1, CallsAsk
  <2> QED BY <1>5, <2>1, <2>2
<1>7. next' \in Qube \cup {None} /\ pipe' \in Pipes
  BY <1>3, <1>4, PipesAre DEF GroupRanges, ShownRanges
<1>8. chat' \in Seq(Nat) /\ \A i \in 1 .. Len(chat') : chat'[i] \in Said
  <2>1. chat \in Seq(Nat) /\ \A i \in 1 .. Len(chat) : chat[i] \in Said
    BY DEF GroupRanges, ShownRanges
  <2> QED BY <1>2, <1>3, <2>1
<1>9. ShownRanges'
  BY <1>2, <1>3, <1>6, <1>7, <1>8, ShownAfter DEF GroupRanges, ShownRanges
<1>10. FlowRanges'
  BY <1>2, <1>3, <1>6, FlowAfter DEF GroupRanges, FlowRanges
<1>11. EnterRanges'
  BY <1>3, <1>6, EnterStays
<1>12. FlagRanges'
  BY <1>3, <1>6, FlagsAre, FlagsAfter, RendersDue
<1> QED BY <1>6, <1>9, <1>10, <1>11, <1>12 DEF GroupRanges, CallsGoOn

LEMMA RangesSpeechFails ==
  ASSUME GroupRanges, NEW s \in speaking, G!SpeechFails(s)
  PROVE  GroupRanges'
<1>1. /\ speaking' = speaking \ {s} /\ G!Trouble /\ pending' = 0 /\ loading' = FALSE /\ processing' = 0
      /\ G!Drops({s.m})
      /\ UNCHANGED <<call, crossed, busy, cut, answers, said, known, active, typing, next, pipe, interjected, chat,
                     goOn, fetching, waiting, pauseAfter, dubbing, entering, continuing, voiced, ignored>>
      /\ G!Renders(FALSE)
  BY DEF G!SpeechFails, G!backend
<1>2. CallsGoOn
  BY <1>1, CallsStay
<1>3. lost' \subseteq Said
  BY <1>1, SpeechIs, DropsSaid
<1>4. ShownRanges'
  BY <1>1, <1>2, ShownAfter DEF GroupRanges, ShownRanges
<1>5. FlowRanges'
  BY <1>1, <1>2, <1>3, FlowAfter DEF GroupRanges, FlowRanges
<1>6. EnterRanges'
  BY <1>1, <1>2, EnterStays
<1>7. FlagRanges'
  BY <1>1, FlagsAre, FlagsAfter, RendersDue, TroubleCounts
<1> QED BY <1>2, <1>4, <1>5, <1>6, <1>7 DEF GroupRanges, CallsGoOn

LEMMA RangesTyped ==
  ASSUME GroupRanges, G!Typed
  PROVE  GroupRanges'
<1>1. /\ typing' = 0 /\ processing' = 0
      /\ UNCHANGED <<call, crossed, busy, cut, answers, said, known, loading, active, pending, next, pipe,
                     interjected, chat, goOn, fetching, waiting, pauseAfter, dubbing, speaking, entering,
                     continuing, voiced, lost, ignored, failures>>
      /\ G!Renders(FALSE)
  BY DEF G!Typed, G!backend, G!flow, G!history
<1>2. CallsGoOn
  BY <1>1, CallsStay
<1>3. ShownRanges'
  BY <1>1, <1>2, ShownAfter DEF GroupRanges, ShownRanges
<1>4. FlowRanges' /\ EnterRanges'
  BY <1>1, <1>2, FlowStays, EnterStays DEF GroupRanges, FlowRanges
<1>5. FlagRanges'
  BY <1>1, FlagsAre, FlagsAfter, RendersDue
<1> QED BY <1>2, <1>3, <1>4, <1>5 DEF GroupRanges, CallsGoOn

LEMMA RangesInterject ==
  ASSUME GroupRanges, G!Interject
  PROVE  GroupRanges'
<1>1. /\ G!CanAsk /\ G!Asks("user", None)
      /\ pipe' = G!NoPipes /\ next' = None /\ fetching' = FALSE /\ waiting' = TRUE
      /\ G!Drops(G!InPipes \cup {IF interjected.ready THEN call[interjected.of].m ELSE 0})
      /\ interjected' = [of |-> Len(call'), ready |-> FALSE]
      /\ UNCHANGED <<busy, cut, answers, said, known, loading, active, pending, typing, chat, goOn, pauseAfter,
                     processing, dubbing, speaking, entering, continuing, voiced, ignored, failures>>
      /\ G!Renders(TRUE)
  BY DEF G!Interject, G!ClearPipes, G!flow
<1>2. CallsGoOn /\ crossed' \in BOOLEAN /\ Len(call') \in Calls'
  <2>1. "user" \in {"start", "fresh", "ahead", "user"}
    OBVIOUS
  <2> QED BY <1>1, <2>1, CallsAsk
<1>3. lost' \subseteq Said
  <2> DEFINE d == IF interjected.ready THEN call[interjected.of].m ELSE 0
  <2>1. interjected.ready => call[interjected.of].m \in Responses \cup {0}
    BY DEF GroupRanges, EnterRanges, CallRanges, Interjections
  <2>2. d \in Said \cup {0}
    BY <2>1, RangesOf
  <2>3. G!Drops(G!InPipes \cup {d})
    BY <1>1
  <2> HIDE DEF d
  <2>4. G!InPipes \cup {d} \subseteq Said \cup {0}
    BY <2>2, PipesAre
  <2> QED BY <2>3, <2>4, DropsSaid
<1>4. ShownRanges'
  BY <1>1, <1>2, PipesAre, ShownStays DEF GroupRanges, ShownRanges
<1>5. FlowRanges'
  BY <1>1, <1>2, <1>3, FlowStays
<1>6. EnterRanges'
  <2>1. interjected' \in [of : Calls' \cup {0}, ready : BOOLEAN] /\ ~interjected'.ready
    BY <1>1, <1>2
  <2>2. [of : Interjections, stops : BOOLEAN] \subseteq [of : Interjections', stops : BOOLEAN]
    BY <1>2 DEF CallsGoOn
  <2> QED BY <1>1, <2>1, <2>2 DEF GroupRanges, EnterRanges
<1>7. FlagRanges'
  BY <1>1, <1>2, FlagsAre, FlagsAfter, RendersDue
<1> QED BY <1>2, <1>4, <1>5, <1>6, <1>7 DEF GroupRanges, CallsGoOn

LEMMA RangesEnter ==
  ASSUME GroupRanges, NEW e \in entering, G!Enter(e)
  PROVE  GroupRanges'
<1>1. /\ entering' = (entering \ {e}) \cup {[e EXCEPT !.stops = TRUE]}
      /\ waiting' = FALSE /\ interjected' = G!NoInterjection /\ next' = said[call[e.of].m].then
      /\ UNCHANGED <<call, crossed, busy, cut, answers, said, known, loading, active, pending, typing, pipe, chat,
                     goOn, fetching, pauseAfter, processing, dubbing, speaking, continuing, voiced, lost, ignored,
                     failures>>
      /\ G!Renders(FALSE)
  BY DEF G!Enter, G!backend, G!history
<1>2. CallsGoOn
  BY <1>1, CallsStay
<1>3. e \in [of : Interjections, stops : BOOLEAN] /\ e.of \in Interjections
  BY DEF GroupRanges, EnterRanges
<1>4. next' \in Qube \cup {None}
  <2>1. call[e.of].m \in Responses
    BY <1>3 DEF Interjections, GroupRanges, CallRanges
  <2> QED BY <1>1, <2>1, ThenSpeaks
<1>5. ShownRanges'
  BY <1>1, <1>2, <1>4, ShownStays DEF GroupRanges, ShownRanges
<1>6. FlowRanges'
  BY <1>1, <1>2, FlowStays DEF GroupRanges, FlowRanges
<1>7. EnterRanges'
  <2>1. [e EXCEPT !.stops = TRUE] \in [of : Interjections, stops : BOOLEAN]
    BY <1>3
  <2>2. entering' \subseteq [of : Interjections, stops : BOOLEAN]
    BY <1>1, <2>1 DEF GroupRanges, EnterRanges
  <2>3. interjected' \in [of : Calls' \cup {0}, ready : BOOLEAN] /\ ~interjected'.ready
    BY <1>1 DEF G!NoInterjection
  <2>4. Interjections' = Interjections
    BY <1>1 DEF Interjections, Calls
  <2> QED BY <2>2, <2>3, <2>4 DEF EnterRanges
<1>8. FlagRanges'
  BY <1>1, FlagsAre, FlagsAfter, RendersDue
<1> QED BY <1>2, <1>5, <1>6, <1>7, <1>8 DEF GroupRanges, CallsGoOn

LEMMA RangesEntered ==
  ASSUME GroupRanges, NEW e \in entering, G!Entered(e)
  PROVE  GroupRanges'
<1>1. /\ entering' = entering \ {e} /\ pending' = call[e.of].m /\ crossed' = (crossed \/ pending # 0)
      /\ UNCHANGED <<call, busy, cut, answers, said, known, loading, active, typing, next, pipe, interjected, chat,
                     goOn, fetching, waiting, pauseAfter, processing, dubbing, speaking, continuing, voiced, lost,
                     ignored, failures>>
      /\ G!Renders(FALSE)
  BY DEF G!Entered, G!refs, G!history
<1>2. CallsGoOn
  BY <1>1, CallsStay
<1>3. pending' \in Responses \cup {0}
  <2>1. e.of \in Interjections
    BY DEF GroupRanges, EnterRanges
  <2> QED BY <1>1, <2>1 DEF Interjections, GroupRanges, CallRanges
<1>4. ShownRanges' /\ FlowRanges'
  BY <1>1, <1>2, <1>3, ShownStays, FlowStays DEF GroupRanges, ShownRanges, FlowRanges
<1>5. EnterRanges'
  <2>1. Interjections' = Interjections /\ Calls' = Calls
    BY <1>1 DEF Interjections, Calls
  <2> QED BY <1>1, <2>1 DEF GroupRanges, EnterRanges
<1>6. crossed' \in BOOLEAN
  BY <1>1, FlagsAre
<1>7. FlagRanges'
  BY <1>1, <1>6, FlagsAre, FlagsAfter, RendersDue
<1> QED BY <1>2, <1>4, <1>5, <1>7 DEF GroupRanges, CallsGoOn

LEMMA RangesPause ==
  ASSUME GroupRanges, G!Pause
  PROVE  GroupRanges'
<1>1. /\ goOn' = FALSE /\ fetching' = FALSE
      /\ UNCHANGED <<call, crossed, busy, cut, answers, said, known, loading, typing, interjected, chat, waiting,
                     processing, dubbing, speaking, entering, continuing, voiced, ignored, failures>>
      /\ G!Renders(TRUE)
  BY DEF G!Pause, G!backend, G!flow
<1>2. \/ /\ G!ReadyAt(next) /\ pauseAfter' = TRUE /\ UNCHANGED <<active, next, lost>>
         /\ G!Take(next) \/ UNCHANGED <<pending, pipe>>
      \/ /\ pauseAfter' = FALSE /\ active' = FALSE /\ pipe' = G!NoPipes /\ next' = None
         /\ G!Drops(G!InPipes) /\ UNCHANGED pending
  BY DEF G!Pause, G!ClearPipes
<1>3. CallsGoOn
  BY <1>1, CallsStay
<1>4. next \in Qube \cup {None} /\ (G!ReadyAt(next) => next \in Qube)
  BY DEF GroupRanges, ShownRanges, G!ReadyAt
<1>5. /\ pending' \in Responses \cup {0} /\ next' \in Qube \cup {None} /\ pipe' \in Pipes
      /\ lost' \subseteq Said /\ pauseAfter' \in BOOLEAN /\ active' \in BOOLEAN
  <2>1. CASE G!ReadyAt(next) /\ G!Take(next) /\ pauseAfter' = TRUE /\ UNCHANGED <<active, next, lost>>
    BY <1>4, <2>1, TakesResponse, FlagsAre DEF GroupRanges, FlowRanges
  <2>2. CASE UNCHANGED <<pending, pipe>> /\ pauseAfter' = TRUE /\ UNCHANGED <<active, next, lost>>
    BY <2>2, FlagsAre DEF GroupRanges, ShownRanges, FlowRanges
  <2>3. CASE /\ pauseAfter' = FALSE /\ active' = FALSE /\ pipe' = G!NoPipes /\ next' = None
             /\ G!Drops(G!InPipes) /\ UNCHANGED pending
    BY <2>3, PipesAre, DropsSaid DEF GroupRanges, ShownRanges
  <2> QED BY <1>2, <2>1, <2>2, <2>3
<1>6. ShownRanges' /\ FlowRanges' /\ EnterRanges'
  BY <1>1, <1>3, <1>5, ShownStays, FlowStays, EnterStays
<1>7. FlagRanges'
  BY <1>1, <1>5, FlagsAre, FlagsAfter, RendersDue
<1> QED BY <1>3, <1>6, <1>7 DEF GroupRanges, CallsGoOn

LEMMA RangesResume ==
  ASSUME GroupRanges, G!Resume
  PROVE  GroupRanges'
<1>1. /\ active' = TRUE /\ goOn' = TRUE /\ pauseAfter' = FALSE
      /\ (G!ReadyAt(next) /\ G!Take(next)) \/ UNCHANGED <<pending, pipe>>
      /\ crossed' = (crossed \/ (pending' # pending /\ typing # 0))
      /\ UNCHANGED <<call, busy, cut, answers, said, known, loading, typing, next, interjected, chat, fetching,
                     waiting, processing, dubbing, speaking, entering, continuing, voiced, lost, ignored, failures>>
      /\ G!Renders(pending' # pending)
  BY DEF G!Resume, G!flow, G!history
<1>2. CallsGoOn
  BY <1>1, CallsStay
<1>3. next \in Qube \cup {None} /\ (G!ReadyAt(next) => next \in Qube)
  BY DEF GroupRanges, ShownRanges, G!ReadyAt
<1>4. pending' \in Responses \cup {0} /\ pipe' \in Pipes
  BY <1>1, <1>3, TakesResponse DEF GroupRanges, ShownRanges
<1>5. ShownRanges' /\ FlowRanges' /\ EnterRanges'
  BY <1>1, <1>2, <1>3, <1>4, ShownStays, FlowStays, EnterStays DEF GroupRanges, FlowRanges
<1>6. crossed' \in BOOLEAN
  BY <1>1, FlagsAre
<1>7. FlagRanges'
  BY <1>1, <1>6, FlagsAre, FlagsAfter, RendersDue
<1> QED BY <1>2, <1>5, <1>7 DEF GroupRanges, CallsGoOn

\* The three effects.
LEMMA RangesSpeechEffect ==
  ASSUME GroupRanges, G!SpeechEffect
  PROVE  /\ processing' \in Said \cup {0}
         /\ speaking' \subseteq [m : Responses, audio : Responses, active : BOOLEAN, free : BOOLEAN]
<1>1. CASE "speech" \in due /\ pending \notin {0, processing}
  <2>1. pending \in Responses /\ pending \in Said
    BY <1>1, RangesOf DEF GroupRanges, ShownRanges
  <2>2. PICK q \in Qube, g \in Qube \cup {None} : q = said[pending].by /\ g = said[pending].then
    BY <2>1, SayingIs
  <2> DEFINE ahead == pipe[q].status = "ready" /\ pipe[q].audio # 0
             r == [m |-> pending, audio |-> IF ahead THEN pipe[q].audio ELSE pending,
                   active |-> active, free |-> pipe[g].status = "idle"]
  <2>3. processing' = pending /\ speaking' = speaking \cup {r}
    BY <1>1, <2>2 DEF G!SpeechEffect
  <2>4. ahead => pipe[q].audio \in Responses
    BY PipesAre
  <2>5. r \in [m : Responses, audio : Responses, active : BOOLEAN, free : BOOLEAN]
    BY <2>1, <2>4, FlagsAre
  <2> HIDE DEF r
  <2> QED BY <2>1, <2>3, <2>5 DEF GroupRanges, FlowRanges
<1>2. CASE ~("speech" \in due /\ pending \notin {0, processing})
  BY <1>2 DEF G!SpeechEffect, GroupRanges, ShownRanges, FlowRanges
<1> QED BY <1>1, <1>2

LEMMA RangesContinueEffect ==
  ASSUME GroupRanges, G!ContinueEffect
  PROVE  /\ pending' \in Responses \cup {0} /\ next' \in Qube \cup {None} /\ pipe' \in Pipes
         /\ lost' \subseteq Said /\ pauseAfter' \in BOOLEAN /\ active' \in BOOLEAN /\ continuing' \in BOOLEAN
<1>1. next \in Qube \cup {None} /\ (G!ReadyAt(next) => next \in Qube)
  BY DEF GroupRanges, ShownRanges, G!ReadyAt
<1>2. \A q \in G!Chosen : q \in Qube
  BY DEF G!Chosen, G!Working
<1>3. \/ UNCHANGED <<pending, pipe, next, active, pauseAfter, lost>>
      \/ (\E q \in Qube : G!Take(q)) /\ UNCHANGED <<next, active, pauseAfter, lost>>
      \/ /\ active' = FALSE /\ pauseAfter' = FALSE /\ pipe' = G!NoPipes /\ next' = None
         /\ G!Drops(G!InPipes) /\ UNCHANGED pending
  <2>1. CASE "continue" \notin due
    BY <2>1 DEF G!ContinueEffect
  <2>2. CASE "continue" \in due /\ G!PausesNow
    BY <1>1, <2>2 DEF G!ContinueEffect, G!ClearPipes
  <2>3. CASE "continue" \in due /\ ~G!PausesNow
    BY <1>2, <2>3 DEF G!ContinueEffect
  <2> QED BY <2>1, <2>2, <2>3
<1>4. continuing' \in BOOLEAN
  <2>1. \/ continuing' = continuing \/ continuing' = FALSE \/ continuing' = G!Starts
        \/ \E q \in Qube : continuing' = (pipe[q].status = "ready" /\ G!Starts)
    BY <1>2 DEF G!ContinueEffect
  <2>2. G!Starts \in BOOLEAN
    BY DEF G!Starts
  <2> QED BY <2>1, <2>2, FlagsAre
<1>5. CASE UNCHANGED <<pending, pipe, next, active, pauseAfter, lost>>
  BY <1>4, <1>5, FlagsAre DEF GroupRanges, ShownRanges, FlowRanges
<1>6. CASE (\E q \in Qube : G!Take(q)) /\ UNCHANGED <<next, active, pauseAfter, lost>>
  BY <1>1, <1>4, <1>6, TakesResponse, FlagsAre DEF GroupRanges, FlowRanges
<1>7. CASE /\ active' = FALSE /\ pauseAfter' = FALSE /\ pipe' = G!NoPipes /\ next' = None
           /\ G!Drops(G!InPipes) /\ UNCHANGED pending
  BY <1>4, <1>7, PipesAre, DropsSaid DEF GroupRanges, ShownRanges
<1> QED BY <1>3, <1>5, <1>6, <1>7

LEMMA RangesUserEffect ==
  ASSUME GroupRanges, G!UserEffect
  PROVE  /\ entering' \subseteq [of : Interjections, stops : BOOLEAN]
         /\ chat' \in Seq(Nat) /\ \A i \in 1 .. Len(chat') : chat'[i] \in Said
<1>1. CASE "user" \in due /\ interjected.ready /\ typing = 0 /\ pending = 0 /\ processing = 0
  <2>1. PICK c \in Interjections, u \in Said : c = interjected.of /\ u = call[c].user
    <3>1. interjected.of \in Interjections
      BY <1>1 DEF GroupRanges, EnterRanges
    <3> QED BY <3>1 DEF Interjections, GroupRanges, CallRanges
  <2>2. entering' = entering \cup {[of |-> c, stops |-> FALSE]} /\ chat' = Append(chat, u)
    BY <1>1, <2>1 DEF G!UserEffect
  <2>3. [of |-> c, stops |-> FALSE] \in [of : Interjections, stops : BOOLEAN] /\ u \in Nat
    BY RangesOf
  <2>4. chat \in Seq(Nat) /\ \A i \in 1 .. Len(chat) : chat[i] \in Said
    BY DEF GroupRanges, ShownRanges
  <2>5. entering' \subseteq [of : Interjections, stops : BOOLEAN]
    BY <2>2, <2>3 DEF GroupRanges, EnterRanges
  <2>6. chat' \in Seq(Nat) /\ \A i \in 1 .. Len(chat') : chat'[i] \in Said
    BY <2>2, <2>3, <2>4
  <2> QED BY <2>5, <2>6
<1>2. CASE ~("user" \in due /\ interjected.ready /\ typing = 0 /\ pending = 0 /\ processing = 0)
  BY <1>2 DEF G!UserEffect, GroupRanges, ShownRanges, EnterRanges
<1> QED BY <1>1, <1>2

LEMMA RangesEffects ==
  ASSUME GroupRanges, G!Effects
  PROVE  GroupRanges'
<1>1. /\ G!SpeechEffect /\ G!ContinueEffect /\ G!UserEffect
      /\ due' \subseteq {"speech", "continue", "user"}
      /\ UNCHANGED <<call, crossed, busy, cut, answers, said, known, loading, typing, interjected, goOn, fetching,
                     waiting, dubbing, voiced, ignored, failures>>
  BY DEF G!Effects, G!backend
<1>2. CallsGoOn
  BY <1>1, CallsStay
<1>3. ShownRanges'
  <2>1. typing' \in Said \cup {0}
    BY <1>1 DEF GroupRanges, ShownRanges
  <2> QED BY <1>1, <1>2, <2>1, RangesSpeechEffect, RangesContinueEffect, RangesUserEffect, ShownAfter
<1>4. FlowRanges'
  <2>1. dubbing' \subseteq Responses /\ voiced' \subseteq Said \X Said
    BY <1>1 DEF GroupRanges, FlowRanges
  <2> QED BY <1>1, <1>2, <2>1, RangesSpeechEffect, RangesContinueEffect, FlowAfter
<1>5. EnterRanges'
  <2>1. Interjections' = Interjections /\ Calls' = Calls
    BY <1>1 DEF Interjections, Calls
  <2> QED BY <1>1, <2>1, RangesUserEffect DEF GroupRanges, EnterRanges
<1>6. FlagRanges'
  BY <1>1, RangesContinueEffect, FlagsAre, FlagsAfter
<1> QED BY <1>2, <1>3, <1>4, <1>5, <1>6 DEF GroupRanges, CallsGoOn

LEMMA RangesStep ==
  ASSUME GroupRanges, G!Next
  PROVE  GroupRanges'
<1>1. DOMAIN call = Calls
  BY RangesOf, GroupLengths
<1>2. ASSUME NEW c \in Calls, G!Backend(c)
      PROVE  GroupRanges'
  BY <1>2, RangesKeep, RangesBegin, RangesGiveUp, RangesRespond DEF G!Backend
<1>3. ASSUME NEW c \in Calls, G!Answered(c)
      PROVE  GroupRanges'
  BY <1>3, RangesStarted, RangesContinued, RangesPrefetched, RangesInterjected DEF G!Answered
<1>4. CASE G!Fast
  BY <1>1, <1>2, <1>3, <1>4, RangesDubbed, RangesEnter, RangesEntered, RangesContinue DEF G!Fast
<1>5. CASE G!Slow
  BY <1>5, RangesSpeechBegins, RangesSpeechFails, RangesTyped, RangesStart, RangesInterject, RangesPause,
     RangesResume DEF G!Slow
<1> QED BY <1>4, <1>5, RangesEffects DEF G!Next, G!Handlers

LEMMA RangesStutters ==
  ASSUME GroupRanges, UNCHANGED groupVars
  PROVE  GroupRanges'
<1>1. UNCHANGED <<call, crossed, busy, cut, answers, said, known, loading, active, pending, typing, next, pipe,
                  interjected, chat, goOn, fetching, waiting, pauseAfter, processing, dubbing, speaking, entering,
                  continuing, due, voiced, lost, ignored, failures>>
  BY DEF groupVars
<1>2. CallsGoOn
  BY <1>1, CallsStay
<1>3. ShownRanges' /\ FlowRanges' /\ EnterRanges'
  BY <1>1, <1>2, ShownStays, FlowStays, EnterStays DEF GroupRanges, ShownRanges, FlowRanges
<1>4. FlagRanges'
  BY <1>1, FlagsAre, FlagsAfter
<1> QED BY <1>2, <1>3, <1>4 DEF GroupRanges, CallsGoOn

LEMMA GroupRuns == Spec => [](component = "GroupChat" => G!TypeOK)
<1> DEFINE I == component = "GroupChat" => GroupRanges
<1>1. Init => I
  BY RangesInit DEF Init
<1>2. I /\ [Next]_vars => I'
  <2> SUFFICES ASSUME I, [Next]_vars, component' = "GroupChat"
               PROVE  GroupRanges'
    OBVIOUS
  <2>1. component = "GroupChat"
    BY DEF Next, vars
  <2>2. CASE G!Next
    BY <2>1, <2>2, RangesStep
  <2>3. CASE UNCHANGED groupVars
    BY <2>1, <2>3, RangesStutters
  <2> QED BY <2>1, <2>2, <2>3 DEF Next, vars
<1>3. I => (component = "GroupChat" => G!TypeOK)
  BY GroupIsTyped
<1> QED BY <1>1, <1>2, <1>3, PTL DEF Spec

-----------------------------------------------------------------------------
(* The three components *)

\* No command runs beside its earlier attempt, sentences are played one at a time and in
\* their order, and messages shown in the order of the backend: the property of each
\* component, whichever one runs.
THEOREM NothingOverlaps == Spec => []NoOverlap
<1>1. /\ component = "Sidecar" => B!TypeOK /\ B!NoOverlap
      /\ component = "Speech" => S!TypeOK /\ S!PlayedInOrder
      /\ component = "GroupChat" => G!ShownInOrder
      => NoOverlap
  BY DEF NoOverlap
<1> QED BY <1>1, CommandsRunApart, SentencesPlayApart, MessagesAreInOrder, PTL

\* All variables of the sidecar, of speech and of the conversation of several Qubes have
\* values of their types, for any number of commands, sentences and Qubes: what the effects
\* and handlers look up in messages, calls and pipelines is there.
THEOREM SidecarTypes == Spec => []TypeOK
<1>1. /\ component = "Sidecar" => B!TypeOK /\ B!NoOverlap
      /\ component = "Speech" => S!TypeOK /\ S!PlayedInOrder
      /\ component = "GroupChat" => G!TypeOK
      => TypeOK
  BY DEF TypeOK
<1> QED BY <1>1, CommandsRunApart, SentencesPlayApart, GroupRuns, PTL

=============================================================================
