------------------------------ MODULE GroupChat ------------------------------
(***************************************************************************)
(* The conversation of several Qubes in the GUI                            *)
(* (MultiQubeChatInterface.tsx).  It asks the backend for one turn after   *)
(* another, and for the next one ahead while a response is typed and       *)
(* spoken; the user may pause and resume, and say something at any time,   *)
(* which goes to the backend at once and is shown when the speaker of the  *)
(* moment is done.                                                         *)
(*                                                                         *)
(* Of the backend (Conversation) only what the GUI sees is kept: it works  *)
(* at one turn, answers null to a call that comes meanwhile, and may give  *)
(* a turn up for an interjection.  All Qubes are local and have a voice.   *)
(* Answers arrive in order; effects run before the next event is handled;  *)
(* and an interjection is shown, within 200 ms, before anything of the     *)
(* user or of a voice.                                                     *)
(***************************************************************************)
EXTENDS Naturals, FiniteSets, SequencesExt

CONSTANTS
  Qube,         \* participants
  User,         \* the sender of interjections
  Nobody,       \* no speaker
  MaxCalls,     \* bound: calls of the backend
  MaxTroubles   \* bound: turns and voices that fail

GroupChatAssumption ==
  /\ IsFiniteSet(Qube) /\ Cardinality(Qube) > 1 /\ {User, Nobody} \cap Qube = {} /\ User # Nobody
  /\ MaxCalls \in Nat /\ MaxTroubles \in Nat

VARIABLES
  \* The backend:
  call,        \* calls, in their order
  busy,        \* the call whose turn is in progress, or 0
  cut,         \* the user has interjected since that turn began
  answers,     \* calls whose answers are on their way to the GUI
  said,        \* messages: who speaks, and who is expected to speak then
  \* Component state:
  known,       \* conversationId
  loading,     \* isLoading
  active,      \* isConversationActive
  pending,     \* pendingTTSMessage, or 0
  typing,      \* activeTypewriterMessageId, or 0
  next,        \* nextSpeakerId
  pipe,        \* qubePipelines
  interjected, \* pendingUserMessage: its call, or 0, and whether the answer is there
  chat,        \* conversationHistory
  \* Refs:
  goOn,        \* shouldContinueRef
  fetching,    \* isFetchingNextRef
  waiting,     \* waitingForUserResponseRef
  pauseAfter,  \* pauseAfterCurrentMessageRef
  processing,  \* processingMessageRef, or 0
  \* What goes on:
  dubbing,     \* responses whose speech is made ahead
  speaking,    \* responses whose playback is awaited
  entering,    \* interjections that are being shown: the call, and whether the audio is being stopped
  timer,       \* the timer of auto-continue runs
  due,         \* effects to be run
  \* History:
  voiced,      \* responses with the response whose speech was played
  lost,        \* responses that an interjection, a pause or a failed voice has dropped
  ignored,     \* an interjection failed
  crossed,     \* a call was made while another was on its way or a response waited in a
               \* pipeline, or a response shown while another was
  troubles     \* so far

backend == <<call, crossed, busy, cut, answers, said>>
refs == <<goOn, fetching, waiting, pauseAfter, processing>>
flow == <<dubbing, speaking, entering, timer>>
history == <<voiced, lost, ignored>>
vars == <<backend, known, loading, active, pending, typing, next, pipe, interjected, chat,
          refs, flow, due, history, troubles>>

Message == 1 .. 2 * MaxCalls
Empty == [status |-> "idle", m |-> 0, audio |-> 0]
NoPipes == [q \in Qube |-> Empty]
NoInterjection == [of |-> 0, ready |-> FALSE]

TypeOK ==
  /\ \A c \in 1 .. Len(call) :
       /\ call[c].kind \in {"start", "fresh", "ahead", "user"} /\ call[c].q \in Qube \cup {Nobody}
       /\ call[c].at \in {"asked", "kept", "turn", "given", "nothing", "done"}
       /\ call[c].user \in 0 .. Len(said) /\ call[c].m \in 0 .. Len(said)
  /\ Len(call) <= MaxCalls /\ busy \in 0 .. Len(call) /\ cut \in BOOLEAN
  /\ ToSet(answers) \subseteq 1 .. Len(call)
  /\ \A m \in 1 .. Len(said) : said[m].by \in Qube \cup {User} /\ said[m].then \in Qube \cup {Nobody}
  /\ {known, loading, active, goOn, fetching, waiting, pauseAfter, timer, ignored, crossed} \subseteq BOOLEAN
  /\ {pending, typing, processing} \subseteq Message \cup {0} /\ next \in Qube \cup {Nobody}
  /\ pipe \in [Qube -> [status : {"idle", "generating_tts", "ready"}, m : Message \cup {0},
                        audio : Message \cup {0}]]
  /\ interjected.of \in 0 .. Len(call) /\ ToSet(chat) \subseteq Message
  /\ dubbing \subseteq Message /\ entering \subseteq [of : 1 .. Len(call), stops : BOOLEAN]
  /\ speaking \subseteq [m : Message, audio : Message, active : BOOLEAN, free : BOOLEAN]
  /\ due \subseteq {"speech", "continue", "user"}
  /\ voiced \subseteq Message \X Message /\ lost \subseteq Message /\ troubles \in 0 .. MaxTroubles

Init ==
  /\ call = <<>> /\ busy = 0 /\ cut = FALSE /\ answers = <<>> /\ said = <<>>
  /\ known = FALSE /\ loading = FALSE /\ active = FALSE /\ pending = 0 /\ typing = 0
  /\ next = Nobody /\ pipe = NoPipes /\ interjected = NoInterjection /\ chat = <<>>
  /\ goOn = FALSE /\ fetching = FALSE /\ waiting = FALSE /\ pauseAfter = FALSE /\ processing = 0
  /\ dubbing = {} /\ speaking = {} /\ entering = {} /\ timer = FALSE /\ due = {}
  /\ voiced = {} /\ lost = {} /\ ignored = FALSE /\ crossed = FALSE /\ troubles = 0

-----------------------------------------------------------------------------
(* The backend *)

Trouble == troubles < MaxTroubles /\ troubles' = troubles + 1

gui == <<known, loading, active, pending, typing, next, pipe, interjected, chat, refs, flow, due,
         history>>

CanAsk == Len(call) < MaxCalls
\* Some call is not answered, or speech is made ahead.
Fetches == dubbing # {} \/ \E c \in DOMAIN call : call[c].at # "done"
InPipes == {pipe[q].m : q \in Qube}

Asks(kind, q) ==
  /\ crossed' = (crossed \/ Fetches \/ (kind # "user" /\ InPipes # {0}))
  /\ call' = Append(call, [kind |-> kind, q |-> q, at |-> "asked", user |-> 0, m |-> 0])
At(c, states) == call[c].at \in states
Ends(c, state) == call' = [call EXCEPT ![c].at = state] /\ UNCHANGED crossed
Answers(c) == answers' = Append(answers, c)
Works(c) == Ends(c, "turn") /\ busy' = c /\ cut' = FALSE /\ UNCHANGED answers

\* The user's message is kept first.
Keep(c) ==
  /\ call[c].kind = "user" /\ At(c, {"asked"})
  /\ said' = Append(said, [by |-> User, then |-> Nobody])
  /\ call' = [call EXCEPT ![c].at = "kept", ![c].user = Len(said')]
  /\ cut' = TRUE
  /\ UNCHANGED <<crossed, busy, answers, gui, troubles>>

\* continue_conversation begins a turn unless one is in progress.  An interjection is then
\* answered with an error, since the orchestrator looks into the response.
Begin(c) ==
  /\ At(c, IF call[c].kind = "user" THEN {"kept"} ELSE {"asked"})
  /\ IF busy = 0 THEN Works(c) ELSE Ends(c, "nothing") /\ Answers(c) /\ UNCHANGED <<busy, cut>>
  /\ UNCHANGED <<said, gui, troubles>>

Spoke == {m \in 1 .. Len(said) : said[m].by # User}
LastSpeaker == IF Spoke = {} THEN Nobody ELSE said[CHOOSE m \in Spoke : \A k \in Spoke : k <= m].by

\* Nobody speaks twice in a row; who speaks then is a guess.
Respond(c, q, guess) ==
  /\ At(c, {"turn"}) /\ q # LastSpeaker /\ guess # q
  /\ said' = Append(said, [by |-> q, then |-> guess])
  /\ call' = [call EXCEPT ![c].at = "given", ![c].m = Len(said')]
  /\ busy' = 0 /\ Answers(c)
  /\ UNCHANGED <<crossed, cut, gui, troubles>>

\* The turn is given up for an interjection, or fails.
GiveUp(c) ==
  /\ At(c, {"turn"}) /\ (IF cut THEN UNCHANGED troubles ELSE Trouble)
  /\ Ends(c, "nothing") /\ busy' = 0 /\ Answers(c)
  /\ UNCHANGED <<said, cut, gui>>

-----------------------------------------------------------------------------
(* Effects and what handlers have in common *)

\* An effect runs when what it depends on has changed; every update makes the pipelines new.
Renders(updated) ==
  LET shift == pending' # pending
      typed == typing' # typing
  IN  due' = due
        \cup (IF shift \/ updated THEN {"speech"} ELSE {})
        \cup (IF shift \/ typed \/ updated \/ active' # active \/ loading' # loading \/ next' # next
              THEN {"continue"} ELSE {})
        \cup (IF shift \/ typed \/ interjected' # interjected THEN {"user"} ELSE {})

Drops(ms) == lost' = lost \cup (ms \ {0})

\* clearAllPipelines
ClearPipes == pipe' = NoPipes /\ next' = Nobody

\* The response in the pipeline of q is taken.
Take(q) == pending' = pipe[q].m /\ pipe' = [pipe EXCEPT ![q] = Empty]

ReadyAt(q) == q # Nobody /\ pipe[q].status = "ready" /\ pipe[q].m # 0

\* Mutant of SpeechEffect: a response is played whenever the effect runs.
SpeechEffectAlways ==
  IF "speech" \in due /\ pending # 0
  THEN /\ processing' = pending
       /\ speaking' = speaking \cup {[m |-> pending, audio |-> pending, active |-> active, free |-> FALSE]}
  ELSE UNCHANGED <<processing, speaking>>

\* playMessageTTS, up to its wait for the playback; speech that was made ahead is used.
SpeechEffect ==
  LET q == said[pending].by
      ahead == pipe[q].status = "ready" /\ pipe[q].audio # 0
      guess == said[pending].then
  IN  IF "speech" \in due /\ pending \notin {0, processing}
      THEN /\ processing' = pending
           /\ speaking' = speaking \cup {[m |-> pending, audio |-> IF ahead THEN pipe[q].audio ELSE pending,
                                          active |-> active, free |-> pipe[guess].status = "idle"]}
      ELSE UNCHANGED <<processing, speaking>>

\* The pipeline of the expected speaker is looked at first.
Working == {q \in Qube : pipe[q].status # "idle"}
Chosen == IF next \in Working THEN {next} ELSE Working

\* Nothing is shown, typed or awaited: the next response is taken, waited for or asked for later.
Quiet ==
  /\ typing = 0 /\ pending = 0 /\ processing = 0

Proceeds == Quiet /\ active /\ goOn /\ ~loading /\ ~waiting

PausesNow == Quiet /\ pauseAfter

\* The timer of an effect, which the response to an interjection ends before its time.
Starts == ~fetching /\ \A e \in entering : ~e.stops

\* The effect of auto-continue, which ends a pause that was asked for, or goes on.
ContinueEffect ==
  IF "continue" \notin due
  THEN UNCHANGED <<timer, pending, pipe, next, active, pauseAfter, lost>>
  ELSE \/ /\ PausesNow /\ timer' = FALSE
          /\ IF ReadyAt(next) /\ pipe[next].audio # 0
             THEN Take(next) /\ UNCHANGED <<next, active, pauseAfter, lost>>
             ELSE active' = FALSE /\ pauseAfter' = FALSE /\ ClearPipes /\ Drops(InPipes)
                  /\ UNCHANGED pending
       \/ /\ Proceeds /\ ~PausesNow /\ UNCHANGED <<next, active, pauseAfter, lost>>
          /\ \/ \E q \in Chosen :
                  \/ ReadyAt(q) /\ Take(q) /\ timer' = FALSE
                  \/ ~ReadyAt(q) /\ timer' = (pipe[q].status = "ready" /\ Starts)
                     /\ UNCHANGED <<pending, pipe>>
             \/ Working = {} /\ timer' = Starts /\ UNCHANGED <<pending, pipe>>
       \/ /\ ~Proceeds /\ ~PausesNow /\ timer' = FALSE
          /\ UNCHANGED <<pending, pipe, next, active, pauseAfter, lost>>

\* The answer to an interjection is there, and the speaker of the moment done.
UserEffect ==
  IF "user" \in due /\ interjected.ready /\ typing = 0 /\ pending = 0 /\ processing = 0
  THEN entering' = entering \cup {[of |-> interjected.of, stops |-> FALSE]}
       /\ chat' = Append(chat, call[interjected.of].user)
  ELSE UNCHANGED <<entering, chat>>

\* The effects of one rendering see the same state.
Effects ==
  /\ due # {}
  /\ SpeechEffect /\ ContinueEffect /\ UserEffect
  /\ due' = (IF pending' # pending THEN {"speech", "continue", "user"} ELSE {})
            \cup (IF pipe' # pipe THEN {"speech", "continue"} ELSE {})
            \cup (IF active' # active \/ next' # next THEN {"continue"} ELSE {})
  /\ UNCHANGED <<backend, known, loading, typing, interjected, goOn, fetching, waiting, dubbing,
                 voiced, ignored, troubles>>

-----------------------------------------------------------------------------
(* Calls and their answers *)

Arrives(c, kind) ==
  /\ answers # <<>> /\ c = Head(answers) /\ answers' = Tail(answers)
  /\ call[c].kind = kind /\ Ends(c, "done")

\* handleStartConversation
Start ==
  /\ ~known /\ ~loading /\ CanAsk /\ Asks("start", Nobody)
  /\ loading' = TRUE /\ active' = TRUE /\ goOn' = TRUE
  /\ UNCHANGED <<busy, cut, answers, said, known, pending, typing, next, pipe, interjected, chat, fetching,
                 waiting, pauseAfter, processing, flow, history, troubles>>
  /\ Renders(FALSE)

\* The first response, or an error.
Started(c) ==
  /\ Arrives(c, "start")
  /\ IF At(c, {"given"})
     THEN /\ known' = TRUE /\ next' = said[call[c].m].then /\ pending' = call[c].m
          /\ UNCHANGED <<loading, active>>
     ELSE loading' = FALSE /\ active' = FALSE /\ UNCHANGED <<known, next, pending>>
  /\ UNCHANGED <<busy, cut, said, typing, pipe, interjected, chat, refs, flow, history, troubles>>
  /\ Renders(FALSE)

\* The timer of auto-continue: continueConversation, unless a fetch has begun.
Continue ==
  /\ timer /\ timer' = FALSE
  /\ IF fetching THEN UNCHANGED <<call, crossed, fetching>>
                 ELSE CanAsk /\ Asks("fresh", Nobody) /\ fetching' = TRUE
  /\ UNCHANGED <<busy, cut, answers, said, known, loading, active, pending, typing, next, pipe, interjected, chat,
                 goOn, waiting, pauseAfter, processing, dubbing, speaking, entering, due, history, troubles>>

\* Its response; null and errors end the activity.
Continued(c) ==
  /\ Arrives(c, "fresh")
  /\ fetching' = FALSE
  /\ IF At(c, {"given"})
     THEN next' = said[call[c].m].then /\ pending' = call[c].m /\ UNCHANGED <<loading, active>>
     ELSE loading' = FALSE /\ active' = FALSE /\ UNCHANGED <<next, pending>>
  /\ UNCHANGED <<busy, cut, said, known, typing, pipe, interjected, chat, goOn, waiting, pauseAfter,
                 processing, flow, history, troubles>>
  /\ Renders(FALSE)

\* startPipelinePrefetch, up to its call
Prefetch(q, free) ==
  IF free /\ ~fetching /\ CanAsk THEN Asks("ahead", q) /\ fetching' = TRUE
                                 ELSE UNCHANGED <<call, crossed, fetching>>

\* Mutant of Prefetched: the fetch is not ended when there is no response.
PrefetchedNever(c) ==
  LET m == call[c].m IN
  /\ Arrives(c, "ahead")
  /\ IF At(c, {"given"})
     THEN /\ pipe' = [pipe EXCEPT ![said[m].by].status = "generating_tts", ![said[m].by].m = m]
          /\ next' = said[m].by /\ dubbing' = dubbing \cup {m}
     ELSE UNCHANGED <<pipe, next, dubbing>>
  /\ UNCHANGED <<busy, cut, said, known, loading, active, pending, typing, interjected, chat, goOn,
                 fetching, waiting, pauseAfter, processing, speaking, entering, timer, history, troubles>>
  /\ Renders(TRUE)

\* Its response, for which speech is made; null and errors leave the pipeline idle.
Prefetched(c) ==
  LET m == call[c].m
      q == said[m].by
      others == [pipe EXCEPT ![call[c].q] = IF call[c].q = q THEN @ ELSE Empty]
  IN  /\ Arrives(c, "ahead")
      /\ IF At(c, {"given"})
         THEN /\ pipe' = [others EXCEPT ![q].status = "generating_tts", ![q].m = m]
              /\ next' = q /\ dubbing' = dubbing \cup {m} /\ UNCHANGED fetching
         ELSE /\ pipe' = [pipe EXCEPT ![call[c].q].status = "idle"]
              /\ fetching' = FALSE /\ UNCHANGED <<next, dubbing>>
      /\ UNCHANGED <<busy, cut, said, known, loading, active, pending, typing, interjected, chat, goOn,
                     waiting, pauseAfter, processing, speaking, entering, timer, history, troubles>>
      /\ Renders(TRUE)

\* The speech is made, or is to be made when the response is shown.
Dubbed(m, ok) ==
  LET q == said[m].by IN
  /\ m \in dubbing /\ dubbing' = dubbing \ {m}
  /\ (IF ok THEN UNCHANGED troubles ELSE Trouble)
  /\ pipe' = IF ok THEN [pipe EXCEPT ![q].status = "ready", ![q].audio = m]
                   ELSE [pipe EXCEPT ![q].status = "ready", ![q].m = m]
  /\ next' = said[m].then /\ fetching' = FALSE
  /\ UNCHANGED <<backend, known, loading, active, pending, typing, interjected, chat, goOn, waiting,
                 pauseAfter, processing, speaking, entering, timer, history>>
  /\ Renders(TRUE)

-----------------------------------------------------------------------------
(* A response is spoken and typed *)

\* The playback has begun: the response is shown, and the next one asked for.
SpeechBegins(s) ==
  LET guess == said[s.m].then
      ahead == s.audio # s.m
  IN  /\ s \in speaking /\ speaking' = speaking \ {s}
      /\ typing' = s.m /\ chat' = Append(chat, s.m) /\ pending' = 0 /\ loading' = FALSE
      /\ pipe' = IF ahead THEN [pipe EXCEPT ![said[s.m].by] = Empty] ELSE pipe
      /\ voiced' = voiced \cup {<<s.m, s.audio>>}
      /\ IF s.active /\ goOn THEN next' = guess /\ Prefetch(guess, s.free)
                             ELSE UNCHANGED <<call, crossed, fetching, next>>
      /\ UNCHANGED <<busy, cut, answers, said, known, active, interjected, goOn, waiting, pauseAfter, processing,
                     dubbing, entering, timer, lost, ignored, troubles>>
      /\ Renders(ahead)

\* No speech: the response is dropped.
SpeechFails(s) ==
  /\ s \in speaking /\ speaking' = speaking \ {s} /\ Trouble
  /\ pending' = 0 /\ loading' = FALSE /\ processing' = 0 /\ Drops({s.m})
  /\ UNCHANGED <<backend, known, active, typing, next, pipe, interjected, chat, goOn, fetching, waiting,
                 pauseAfter, dubbing, entering, timer, voiced, ignored>>
  /\ Renders(FALSE)

\* onComplete of the typewriter, whichever message is being processed.
Typed ==
  /\ typing # 0 /\ typing' = 0 /\ processing' = 0
  /\ UNCHANGED <<backend, known, loading, active, pending, next, pipe, interjected, chat, goOn, fetching,
                 waiting, pauseAfter, flow, history, troubles>>
  /\ Renders(FALSE)

-----------------------------------------------------------------------------
(* The user *)

\* handleInjectUserMessage: what was fetched ahead is dropped, and the backend called at once.
\* The answer to an earlier interjection that waits to be shown is replaced.
Interject ==
  /\ known /\ ~loading /\ CanAsk /\ Asks("user", Nobody)
  /\ ClearPipes /\ fetching' = FALSE /\ waiting' = TRUE
  /\ Drops(InPipes \cup {IF interjected.ready THEN call[interjected.of].m ELSE 0})
  /\ interjected' = [of |-> Len(call'), ready |-> FALSE]
  /\ UNCHANGED <<busy, cut, answers, said, known, loading, active, pending, typing, chat, goOn, pauseAfter,
                 processing, flow, voiced, ignored, troubles>>
  /\ Renders(TRUE)

\* The answer is kept until the speaker is done; after an error nothing is.
Interjected(c) ==
  /\ Arrives(c, "user")
  /\ IF At(c, {"given"})
     THEN interjected' = [of |-> c, ready |-> TRUE] /\ UNCHANGED <<waiting, ignored>>
     ELSE /\ interjected' = NoInterjection /\ waiting' = FALSE
          /\ ignored' = TRUE
  /\ UNCHANGED <<busy, cut, said, known, loading, active, pending, typing, next, pipe, chat, goOn, fetching,
                 pauseAfter, processing, flow, voiced, lost, troubles>>
  /\ Renders(FALSE)

\* The user's message is shown; what is played is stopped, during which time auto-continue
\* may take a response.
Enter(e) ==
  /\ e \in entering /\ ~e.stops
  /\ entering' = (entering \ {e}) \cup {[e EXCEPT !.stops = TRUE]}
  /\ waiting' = FALSE /\ interjected' = NoInterjection /\ next' = said[call[e.of].m].then
  /\ UNCHANGED <<backend, known, loading, active, pending, typing, pipe, chat, goOn, fetching, pauseAfter,
                 processing, dubbing, speaking, timer, history, troubles>>
  /\ Renders(FALSE)

\* Now the response is.
Entered(e) ==
  /\ e \in entering /\ e.stops /\ entering' = entering \ {e}
  /\ pending' = call[e.of].m
  /\ crossed' = (crossed \/ pending # 0)
  /\ UNCHANGED <<call, busy, cut, answers, said, known, loading, active, typing, next, pipe, interjected,
                 chat, refs, dubbing, speaking, timer, history, troubles>>
  /\ Renders(FALSE)

\* handlePauseConversation: a response that is ready is played first.
Pause ==
  /\ known /\ active /\ ~loading /\ ~pauseAfter
  /\ goOn' = FALSE /\ fetching' = FALSE
  /\ \/ /\ ReadyAt(next) /\ pauseAfter' = TRUE
        /\ IF pending = 0 /\ typing = 0 THEN Take(next) ELSE UNCHANGED <<pending, pipe>>
        /\ UNCHANGED <<active, next, lost>>
     \/ /\ ~ReadyAt(next) /\ pauseAfter' = FALSE /\ active' = FALSE
        /\ ClearPipes /\ Drops(InPipes) /\ UNCHANGED pending
  /\ UNCHANGED <<backend, known, loading, typing, interjected, chat, waiting, processing, flow, voiced,
                 ignored, troubles>>
  /\ Renders(TRUE)

\* handleResumeConversation.  Its call of continueConversation returns at once: it sees the
\* activity of before.
Resume ==
  /\ known /\ ~active /\ ~loading
  /\ active' = TRUE /\ goOn' = TRUE /\ pauseAfter' = FALSE
  /\ IF pending = 0 /\ ReadyAt(next) THEN Take(next) ELSE UNCHANGED <<pending, pipe>>
  /\ crossed' = (crossed \/ (pending' # pending /\ typing # 0))
  /\ UNCHANGED <<call, busy, cut, answers, said, known, loading, typing, next, interjected, chat, fetching,
                 waiting, processing, flow, history, troubles>>
  /\ Renders(pending' # pending)

-----------------------------------------------------------------------------
Backend(c) == Keep(c) \/ Begin(c) \/ GiveUp(c) \/ \E q, guess \in Qube : Respond(c, q, guess)
Answered(c) == Started(c) \/ Continued(c) \/ Prefetched(c) \/ Interjected(c)

\* What is fast, and what takes longer than to show an interjection.
Fast ==
  \/ \E c \in DOMAIN call : Backend(c) \/ Answered(c)
  \/ \E m \in dubbing, ok \in BOOLEAN : Dubbed(m, ok)
  \/ \E e \in entering : Enter(e) \/ Entered(e)
  \/ Continue
Slow ==
  \/ \E s \in speaking : SpeechBegins(s) \/ SpeechFails(s)
  \/ Typed
  \/ Start \/ Interject \/ Pause \/ Resume

Handlers == Fast \/ (entering = {} /\ Slow)

Next == Effects \/ (due = {} /\ Handlers)

\* Calls are worked at and answered, voices begin or fail, texts are typed and timers expire.
Fairness ==
  /\ WF_vars(Effects)
  /\ \A c \in 1 .. MaxCalls : WF_vars(due = {} /\ c \in DOMAIN call /\ (Backend(c) \/ Answered(c)))
  /\ WF_vars(due = {} /\ \E m \in dubbing, ok \in BOOLEAN : Dubbed(m, ok))
  /\ WF_vars(due = {} /\ \E e \in entering : Enter(e) \/ Entered(e))
  /\ WF_vars(due = {} /\ entering = {} /\ \E s \in speaking : SpeechBegins(s) \/ SpeechFails(s))
  /\ WF_vars(due = {} /\ entering = {} /\ Typed)
  /\ WF_vars(due = {} /\ Continue)

Spec == Init /\ [][Next]_vars /\ Fairness

-----------------------------------------------------------------------------
(* Properties *)

\* Messages are shown in the order in which the backend has them, each once, and
\* responses are spoken one at a time, each in its own words, in whatever order responses,
\* speech made ahead, interjections and pauses come.  Excepted are turns that are asked for
\* while another is on its way or while a response waits in a pipeline that is not looked
\* at, a resumption before the speaker is done, a response that is taken while an
\* interjection is being shown, and speech that was made ahead for one that a pause had
\* dropped.
ShownInOrder ==
  ~crossed =>
    /\ \A i, j \in DOMAIN chat : i < j => chat[i] < chat[j]
    /\ Cardinality(({pending, typing} \cup {s.m : s \in speaking}) \ {0}) <= 1
    /\ \A v \in voiced : v[1] = v[2] \/ v[2] \in lost

Goes == known /\ active /\ goOn

\* A conversation that is not paused goes on: again and again a turn is asked for, until
\* a call fails or the calls are used up.  An interjection that fails may stop it.
GoesOn == []<>(~Goes \/ ~CanAsk \/ ignored)

\* Every response of the backend is shown, unless an interjection, a pause or a failed
\* voice has dropped it, calls have crossed, or an interjection failed.
AllShown ==
  []<>(Spoke \subseteq ToSet(chat) \cup lost \/ ~Goes \/ crossed \/ ignored)

=============================================================================
