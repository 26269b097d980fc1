------------------------------ MODULE MCSidecar ------------------------------
(***************************************************************************)
(* Small instances of what is between the user and the backend: two        *)
(* commands of the GUI over two backend processes; a response of three     *)
(* sentences that is spoken while it is written; and a conversation of two *)
(* Qubes.  Each is checked alone: the component that runs is chosen at the *)
(* beginning, and the others stay in their initial states.                 *)
(***************************************************************************)
EXTENDS Naturals

CONSTANTS
  Command, Launch, None, MaxStarts, MaxCrashes,
  MaxMessages, MaxChunks, MaxTroubles,
  Qube, User, MaxCalls

VARIABLES
  component,  \* the component that runs
  \* Sidecar:
  current, holder, isReady, started, process, step, attempt, target, died, late,
  \* Speech:
  reply, task, partial, cancelled, tracked, cancelling, events, audio, player, pid, ends,
  sending, turn, full, timer, shown, played, interrupted, mixed, overtaken, bare, troubles,
  astray,
  \* GroupChat:
  call, crossed, busy, cut, answers, said, known, loading, active, pending, typing, next, pipe,
  interjected, chat, goOn, fetching, waiting, pauseAfter, processing, dubbing, speaking,
  entering, continuing, due, voiced, lost, ignored, failures

B == INSTANCE Sidecar
S == INSTANCE Speech
G == INSTANCE GroupChat WITH Nobody <- None, timer <- continuing, troubles <- failures

ASSUME SidecarAssumptions ==
  B!SidecarAssumption /\ S!SpeechAssumption /\ G!GroupChatAssumption

sidecarVars == <<current, holder, isReady, started, process, step, attempt, target, died, late>>
speechVars == <<reply, task, partial, cancelled, tracked, cancelling, events, audio, player, pid,
                ends, sending, turn, full, timer, shown, played, interrupted, mixed, overtaken,
                bare, troubles, astray>>
groupVars == <<call, crossed, busy, cut, answers, said, known, loading, active, pending, typing,
               next, pipe, interjected, chat, goOn, fetching, waiting, pauseAfter, processing,
               dubbing, speaking, entering, continuing, due, voiced, lost, ignored, failures>>
vars == <<component, sidecarVars, speechVars, groupVars>>

Init == component \in {"Sidecar", "Speech", "GroupChat"} /\ B!Init /\ S!Init /\ G!Init

Next ==
  /\ UNCHANGED component
  /\ \/ component = "Sidecar" /\ B!Next /\ UNCHANGED <<speechVars, groupVars>>
     \/ component = "Speech" /\ S!Next /\ UNCHANGED <<sidecarVars, groupVars>>
     \/ component = "GroupChat" /\ G!Next /\ UNCHANGED <<sidecarVars, speechVars>>

\* What is fair in one component needs somebody to have begun: it is not enabled in the
\* initial state, in which the component that does not run stays.
Spec == Init /\ [][Next]_vars /\ B!Fairness /\ S!Fairness /\ G!Fairness

-----------------------------------------------------------------------------
(* The properties of the components *)

\* All variables have values of their types.
TypeOK ==
  /\ component = "Sidecar" => B!TypeOK
  /\ component = "Speech" => S!TypeOK
  /\ component = "GroupChat" => G!TypeOK

\* A command that is tried again never runs beside its earlier attempt, whoever stops
\* and starts the process meanwhile, but for one whose second attempt takes too long;
\* and the sentences of a response are played one at a time and in their order,
\* in whichever order they became ready, but for players that are forgotten and
\* responses that are mixed; and the messages of a conversation are shown in the order of
\* the backend, each once, and spoken in their own words, unless calls cross.
NoOverlap ==
  /\ component = "Sidecar" => B!NoOverlap
  /\ component = "Speech" => S!PlayedInOrder
  /\ component = "GroupChat" => G!ShownInOrder

\* Every command of the GUI is answered, even if its handler hangs, the process
\* cannot be started or other commands stop it again and again.  Every sentence that is
\* ready is played, and the text of every response shown at last, unless it is interrupted,
\* its last sentence overtakes another, or its stream ends when nothing is being played.
\* A conversation that is not paused goes on, and shows every response of the backend.
Answered == B!Answered /\ S!AllPlayed /\ S!ShownAtLast /\ G!GoesOn /\ G!AllShown

=============================================================================
