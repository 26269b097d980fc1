------------------------------ MODULE Reasoner ------------------------------
(***************************************************************************)
(* The reasoner of a loaded Qube: the loop of requests to a language model *)
(* and of tool calls that answers one message, and the choice of the model *)
(* by the mode of the Qube.  One reasoner object serves all calls of       *)
(* process_input: while a chat awaits its model, the self-evaluation of an *)
(* anchoring or the chat of a game can begin.  The fallback chain, the     *)
(* model, the signatures of tool calls, the pending revolver switch and    *)
(* the model used last belong to the object, the rest to the call.         *)
(*                                                                         *)
(* Every model stands for its provider.  The settings are taken as the     *)
(* file has them; stale copies are the subject of ChainState.              *)
(***************************************************************************)
EXTENDS Naturals, FiniteSets, Sequences

CONSTANTS
  Call,           \* calls of process_input, each made once
  NoCall,         \* no revolver switch is pending
  Model,          \* the models that can be asked, one for each provider
  NoModel,        \* no model
  Local,          \* models of Ollama, which have no API key
  Genesis,        \* the model of the genesis block
  Work,           \* tools other than switch_model, with their parameters
  MaxIterations,  \* bound: requests of a chat (max_iterations)
  MaxChanges      \* bound: changes of the settings

ReasonerAssumption ==
  /\ NoModel \notin Model /\ Genesis \in Model /\ Local \subseteq Model /\ NoCall \notin Call
  /\ Work \cap Model = {} /\ MaxIterations \in Nat \ {0} /\ MaxChanges \in Nat

VARIABLES
  \* The settings:
  modelMode,    \* get_model_mode
  lock,         \* model_locked
  lockedTo,     \* model_locked_to
  override,     \* current_model_override
  changes,
  \* The Qube and its reasoner:
  current,      \* current_ai_model
  chain,        \* primary_model of fallback_chain
  model,        \* self.model
  seen,         \* _tool_call_signatures
  pending,      \* _pending_revolver_switch: the call it was made by
  last,         \* last_model_used
  \* The calls:
  call

settings == <<modelMode, lock, lockedTo, override, changes>>
object == <<current, chain, model, seen, pending, last>>
vars == <<settings, object, call>>

\* A tool call: switch_model to a model, or another tool.
Tool == Model \cup Work
Responses == {<<t>> : t \in Tool} \cup {<<t, u>> : t \in Tool, u \in Tool}

Pc == {"new", "switching",  \* shows the switch of the revolver for a second
       "ready",             \* builds the context
       "asked",             \* awaits a model
       "tools",             \* runs the tools of a response
       "forced",            \* awaits a response without tools
       "returned",          \* the response goes to the caller, the block is not made yet
       "done"}

NewCall == [pc |-> "new", chat |-> TRUE, use |-> NoModel, by |-> NoModel, revolver |-> FALSE, fallback |-> FALSE,
            tried |-> {}, todo |-> <<>>, left |-> MaxIterations, block |-> NoModel, first |-> NoModel,
            locked |-> FALSE, crossed |-> FALSE, changed |-> FALSE, fell |-> FALSE, keyless |-> FALSE, deferred |-> FALSE]

Calls == [pc : Pc, chat : BOOLEAN,
          use : Model \cup {NoModel},    \* model_to_use
          by : Model \cup {NoModel},     \* the model that is asked, or wrote the response
          revolver : BOOLEAN,            \* is_revolver_active, of this request
          fallback : BOOLEAN,            \* after the first model of the revolver failed
          tried : SUBSET Model,          \* tried_providers
          todo : {<<>>} \cup Responses,  \* tool calls to run
          left : 0 .. MaxIterations,     \* iterations left
          block : Model \cup {NoModel},  \* the model that the revolver_switch block names
          \* History:
          first : Model \cup {NoModel},  \* the model that wrote the first response
          locked : BOOLEAN,              \* begun with a locked model
          crossed : BOOLEAN,             \* another call was in progress meanwhile
          changed : BOOLEAN,             \* the settings have changed meanwhile
          fell : BOOLEAN,                \* it has gone over to a fallback
          keyless : BOOLEAN,             \* it has gone over to a model without a key
          deferred : BOOLEAN]            \* its first response left its revolver switch pending

TypeOK ==
  /\ modelMode \in {"manual", "autonomous", "revolver"} /\ lock \in BOOLEAN
  /\ {lockedTo, override, current, chain, model, last} \subseteq Model \cup {NoModel}
  /\ changes \in 0 .. MaxChanges /\ seen \subseteq Tool /\ pending \in Call \cup {NoCall}
  /\ call \in [Call -> Calls]

\* A call that is over, of which nothing is needed any more.
Over == [NewCall EXCEPT !.pc = "done"]

Active(c) == call[c].pc \notin {"new", "done"}

Init ==
  /\ modelMode = "manual" /\ lock = TRUE /\ lockedTo = Genesis /\ override = NoModel /\ changes = 0
  /\ current = NoModel /\ chain = NoModel /\ model = NoModel /\ seen = {}
  /\ pending = NoCall /\ last = NoModel
  /\ call = [c \in Call |-> NewCall]

-----------------------------------------------------------------------------
(* The settings *)

\* A command of the GUI, also while calls are in progress.
Changed ==
  /\ changes < MaxChanges /\ changes' = changes + 1
  /\ call' = [c \in Call |-> IF Active(c) THEN [call[c] EXCEPT !.changed = TRUE] ELSE call[c]]
  /\ UNCHANGED object

\* set_model_lock, also from a choice of the model in manual mode.
SetModelLock(m) ==
  /\ Changed
  /\ modelMode' = "manual" /\ lock' = TRUE /\ lockedTo' = m /\ override' = NoModel

Unlock ==
  /\ Changed /\ lock
  /\ lock' = FALSE /\ lockedTo' = NoModel
  /\ UNCHANGED <<modelMode, override>>

\* set_revolver_mode and set_autonomous_mode; the latter leaves the override.
SetRevolverMode(on) ==
  /\ Changed
  /\ modelMode' = IF on THEN "revolver" ELSE IF modelMode = "revolver" THEN "manual" ELSE modelMode
  /\ lock' = (lock /\ ~on)
  /\ override' = IF on THEN NoModel ELSE override
  /\ UNCHANGED lockedTo

SetAutonomousMode(on) ==
  /\ Changed
  /\ modelMode' = IF on THEN "autonomous" ELSE IF modelMode = "autonomous" THEN "manual" ELSE modelMode
  /\ lock' = (lock /\ ~on)
  /\ UNCHANGED <<lockedTo, override>>

\* update_qube_config with a model, in another mode than the manual one.
ChooseModel(m) ==
  /\ modelMode # "manual" /\ Changed
  /\ override' = m
  /\ UNCHANGED <<modelMode, lock, lockedTo>>

-----------------------------------------------------------------------------
(* The beginning of a call *)

Begin(c, r) ==
  LET others == {d \in Call \ {c} : Active(d)} IN
  /\ call[c].pc = "new"
  /\ call' = [d \in Call |->
                IF d = c THEN [r EXCEPT !.crossed = others # {}]
                ELSE IF d \in others THEN [call[d] EXCEPT !.crossed = TRUE] ELSE call[d]]

\* The fallback chain is rebuilt if it was made for another model.
Prepared(m) == chain' = m /\ model' = m

Configured ==
  CASE modelMode = "manual" /\ lockedTo # NoModel -> lockedTo
    [] modelMode = "autonomous" /\ override # NoModel -> override
    [] OTHER -> Genesis

\* A chat in manual or autonomous mode.
BeginChat(c) ==
  /\ modelMode # "revolver"
  /\ Begin(c, [NewCall EXCEPT !.pc = "ready", !.use = Configured,
                              !.locked = modelMode = "manual" /\ lock])
  /\ Prepared(Configured) /\ current' = Configured
  /\ UNCHANGED <<settings, seen, pending, last>>

\* A chat in revolver mode: a random model, of another provider than the last one,
\* is put in a revolver_switch block.
BeginRevolver(c, m) ==
  /\ modelMode = "revolver" /\ (Model # {last} => m # last)
  /\ Begin(c, [NewCall EXCEPT !.pc = "switching", !.use = m, !.block = m])
  /\ current' = m
  /\ UNCHANGED <<settings, chain, model, seen, pending, last>>

\* A second later the switch is pending and the model is prepared.
Switched(c) ==
  /\ call[c].pc = "switching"
  /\ pending' = c /\ Prepared(call[c].use)
  /\ call' = [call EXCEPT ![c].pc = "ready"]
  /\ UNCHANGED <<settings, current, seen, last>>

\* An internal call, of the self-evaluation: one iteration with the model it names.
BeginEvaluation(c, m) ==
  /\ Begin(c, [NewCall EXCEPT !.pc = "ready", !.chat = FALSE, !.use = m, !.left = 1])
  /\ Prepared(m)
  /\ UNCHANGED <<settings, current, seen, pending, last>>

-----------------------------------------------------------------------------
(* Requests *)

\* The next iteration of a call r, when the chain is ch and the model is mo: the
\* revolver asks the model, otherwise the chain is asked, if there is one.
Asked(r, ch, mo) ==
  IF r.left = 0
  THEN [r EXCEPT !.pc = "returned", !.by = NoModel]
  ELSE [r EXCEPT !.pc = "asked", !.left = @ - 1, !.fallback = FALSE, !.tried = {r.use},
                 !.revolver = modelMode = "revolver",
                 !.by = IF modelMode = "revolver" \/ ch = NoModel THEN mo ELSE ch]

\* The context is built.  The signatures are forgotten, whosever they are.
Ask(c) ==
  /\ call[c].pc = "ready"
  /\ seen' = {}
  /\ call' = [call EXCEPT ![c] = Asked(@, chain, model)]
  /\ UNCHANGED <<settings, current, chain, model, pending, last>>

\* In revolver mode another provider is tried after a failure.  A request to the
\* chain is repeated to the same model.
Fallback(c, m) ==
  /\ call[c].pc = "asked" /\ call[c].revolver /\ m \notin call[c].tried
  /\ call' = [call EXCEPT ![c].fallback = TRUE, ![c].by = m, ![c].tried = @ \cup {m}]
  /\ UNCHANGED <<settings, object>>

\* The call ends with an error, or is cancelled when its time is over.
Fail(c) ==
  /\ Active(c) /\ call[c].pc # "returned"
  /\ call' = [call EXCEPT ![c] = Over]
  /\ UNCHANGED <<settings, object>>

\* Mutant of Followed: a fallback does not become the model of the call.
FollowedLater(c) == call[c]

\* The call c after a response: the fallback that wrote it becomes its model.
Followed(c) == IF call[c].fallback THEN [call[c] EXCEPT !.use = call[c].by, !.fell = TRUE] ELSE call[c]

\* A response for c, which makes the call r.  It settles the revolver switch that is
\* pending, whosever it is: its block names the model of c by then.
Responded(c, r) ==
  /\ call[c].pc = "asked"
  /\ call' = [d \in Call |->
                LET s == IF d # c THEN call[d] ELSE IF r.first # NoModel THEN r
                         ELSE [r EXCEPT !.first = call[c].by,
                                        !.deferred = pending = c /\ ~call[c].revolver] IN
                IF call[c].revolver /\ d = pending /\ Active(d) THEN [s EXCEPT !.block = r.use] ELSE s]
  /\ pending' = IF call[c].revolver THEN NoCall ELSE pending
  /\ IF call[c].fallback THEN model' = r.use /\ current' = r.use ELSE UNCHANGED <<model, current>>
  /\ UNCHANGED <<settings, chain>>

\* A response without tool calls.
Text(c) ==
  /\ Responded(c, [Followed(c) EXCEPT !.pc = "returned"])
  /\ last' = Followed(c).use
  /\ UNCHANGED seen

\* The response has tool calls ts that this object has not seen.
ToolCalls(c, ts) ==
  /\ \A i \in DOMAIN ts : ts[i] \notin seen \cup {ts[j] : j \in 1 .. i - 1}
  /\ seen' = seen \cup {ts[i] : i \in DOMAIN ts}
  /\ Responded(c, [Followed(c) EXCEPT !.pc = "tools", !.todo = ts])
  /\ UNCHANGED last

\* One of them has been seen: a loop.  self.model is asked once more, without tools.
ToolLoop(c, ts) ==
  LET old == {i \in DOMAIN ts : ts[i] \in seen \cup {ts[j] : j \in 1 .. i - 1}} IN
  /\ old # {}
  /\ seen' = seen \cup {ts[i] : i \in {j \in DOMAIN ts : \A k \in old : j < k}}
  /\ Responded(c, [Followed(c) EXCEPT !.pc = "forced", !.by = IF call[c].fallback THEN @ ELSE model])
  /\ UNCHANGED last

\* The response that was forced.
Forced(c) ==
  /\ call[c].pc = "forced"
  /\ last' = call[c].use
  /\ call' = [call EXCEPT ![c].pc = "returned"]
  /\ UNCHANGED <<settings, current, chain, model, seen, pending>>

\* The caller takes the model used last for its block.
Recorded(c) ==
  /\ call[c].pc = "returned"
  /\ call' = [call EXCEPT ![c] = Over]
  /\ UNCHANGED <<settings, object>>

-----------------------------------------------------------------------------
(* Tools *)

\* The call goes on to its next tool, or to its next request.
Proceed(c, r) ==
  LET s == [r EXCEPT !.todo = Tail(@)] IN
  call' = [call EXCEPT ![c] = IF s.todo = <<>> THEN Asked(s, chain', model') ELSE s]

\* A tool other than switch_model.
RunTool(c) ==
  /\ call[c].pc = "tools" /\ Head(call[c].todo) \in Work
  /\ UNCHANGED <<settings, object>>
  /\ Proceed(c, call[c])

\* switch_model, if the mode allows it and m is not the current model.
Switches(m) == modelMode # "revolver" /\ (modelMode = "autonomous" \/ ~lock) /\ m # current

\* switch_model to m, if it succeeds.  In any case the call goes over to the
\* override, if that is another model: with its key the model is set and the chain
\* dropped, without one only model_to_use is changed.
SwitchModel(c, m, ok) ==
  LET o == override' IN
  /\ call[c].pc = "tools" /\ Head(call[c].todo) = m /\ m \in Model
  /\ ok => Switches(m)
  /\ override' = IF ok THEN m ELSE override
  /\ current' = IF ok THEN m ELSE current
  /\ IF o \notin {NoModel, call[c].use}
     THEN /\ model' = IF o \notin Local THEN o ELSE IF ok THEN m ELSE model
          /\ chain' = IF o \notin Local THEN NoModel ELSE chain
          /\ Proceed(c, [call[c] EXCEPT !.use = o, !.keyless = @ \/ o \in Local])
     ELSE /\ model' = IF ok THEN m ELSE model
          /\ chain' = chain
          /\ Proceed(c, call[c])
  /\ UNCHANGED <<modelMode, lock, lockedTo, changes, seen, pending, last>>

Next ==
  \/ Unlock \/ \E on \in BOOLEAN : SetRevolverMode(on) \/ SetAutonomousMode(on)
  \/ \E m \in Model : SetModelLock(m) \/ ChooseModel(m)
  \/ \E c \in Call :
       \/ BeginChat(c) \/ Switched(c) \/ Ask(c) \/ Fail(c) \/ Text(c)
       \/ Forced(c) \/ Recorded(c) \/ RunTool(c)
       \/ \E ts \in Responses : ToolCalls(c, ts) \/ ToolLoop(c, ts)
       \/ \E m \in Model :
            \/ BeginRevolver(c, m) \/ BeginEvaluation(c, m) \/ Fallback(c, m)
            \/ \E ok \in BOOLEAN : SwitchModel(c, m, ok)

Spec == Init /\ [][Next]_vars

-----------------------------------------------------------------------------
(* Properties *)

\* The block of a response names the model that wrote it, and the revolver_switch
\* block the one that wrote the first, whatever switches, failed providers and
\* loops the call went through; not if another call was in progress,
\* if it went over to a model without a key, or if the settings changed in a call
\* with a fallback.  If the revolver mode is left before the first response, the
\* switch is settled by a later one, or by none.
RecordedModel ==
  \A c \in Call :
    LET r == call[c] IN
    r.pc = "returned" /\ r.by # NoModel /\ ~r.crossed /\ ~r.keyless /\ ~(r.fell /\ r.changed) =>
      last = r.by /\ (r.block \in {NoModel, r.first} \/ r.deferred)

\* A chat that is begun with a locked model asks that model in all its iterations,
\* whatever an earlier autonomous mode has left behind, if no other call is in
\* progress.
LockedModelAnswers ==
  \A c \in Call :
    LET r == call[c] IN
    r.pc \in {"asked", "forced"} /\ r.locked /\ ~r.changed /\ ~r.crossed => r.by = lockedTo

=============================================================================
