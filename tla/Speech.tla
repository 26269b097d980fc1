------------------------------- MODULE Speech -------------------------------
(***************************************************************************)
(* A response that is spoken while it is written (send_message_streaming,  *)
(* AudioContext.tsx, ChatInterface.tsx, play_audio_native).  The backend   *)
(* cuts it into sentences and speaks each in a task of its own, two at a   *)
(* time, so that they become ready in any order; events take them to the   *)
(* GUI, which plays them one after the other in processes of their own and *)
(* shows the text when the last has ended.  The user may interrupt it and  *)
(* send the next message at any time.                                      *)
(*                                                                         *)
(* One Qube.  A player ends some time, so the timer of the GUI that        *)
(* replaces its event is left out.                                         *)
(***************************************************************************)
EXTENDS Naturals, FiniteSets, SequencesExt

CONSTANTS
  MaxMessages,  \* bound: messages sent
  MaxChunks,    \* bound: sentences of the first response
  MaxTroubles   \* bound: sentences, players and models that fail, uses of the space bar
                \* and of Escape

SpeechAssumption ==
  /\ MaxMessages \in Nat \ {0} /\ MaxChunks \in Nat \ {0}
  /\ MaxTroubles \in Nat

Message == 1 .. MaxMessages
Chunk == 1 .. MaxChunks
Sentence == Message \X Chunk
Absent == <<>>
Broken == <<0, 0>>   \* a sentence that could not be spoken
NoPlayer == <<>>

VARIABLES
  \* The backend:
  reply,      \* reply[m]: how far the command for m is
  task,       \* task[m][k]: the task that speaks a sentence
  partial,    \* partial[m]: the chunk that is marked as the last, or 0
  cancelled,  \* _cancel_streaming
  tracked,    \* the message whose tasks are in _active_tts_tasks, or 0
  cancelling, \* cancel_stream is on its way
  events,     \* on their way to the GUI
  \* AudioContext:
  audio,
  \* The players:
  player,     \* player[p]: "none", "asked", "running" or "killed"
  pid,        \* NATIVE_AUDIO_PID
  ends,       \* audio-playback-ended events on their way
  \* ChatInterface:
  sending,    \* isSendingRef
  turn,       \* the message that is streamed, 0 when isStreaming is false
  full,       \* the message whose text is in streamEndFullTextRef, or 0
  timer,      \* the finalization timer runs
  shown,      \* messages in the chat: whose place, and whose text
  \* History:
  played,     \* sentences, in the order in which they were asked to be played
  interrupted,\* messages
  mixed,      \* a message was left or begun while the backend was at an earlier one
  overtaken,  \* the last sentence, or the end, came before another one and ended the queue
  bare,       \* messages whose stream ended when nothing was being played
  troubles,   \* so far
  astray      \* a player was not stopped or is forgotten, or its end taken for another's

backend == <<reply, task, partial, cancelled, tracked>>
players == <<player, pid, ends>>
chat == <<sending, turn, full, shown, interrupted>>
history == <<played, mixed, overtaken, bare, astray>>
vars == <<backend, cancelling, events, audio, players, chat, timer, troubles, history>>

Reply == {"none", "typed", "sent", "thinking", "speaking", "draining", "ended", "answered"}

TypeOK ==
  /\ reply \in [Message -> Reply]
  /\ task \in [Message -> [Chunk -> {"none", "blank", "open", "ready", "failed", "gone"}]]
  /\ partial \in [Message -> 0 .. MaxChunks]
  /\ cancelled \in BOOLEAN /\ cancelling \in BOOLEAN /\ tracked \in 0 .. MaxMessages
  /\ \A i \in 1 .. Len(events) : events[i].of \in Message
  /\ audio \in [map : [Chunk -> Sentence \cup {Absent, Broken}], next : 1 .. MaxChunks + 1,
                active : BOOLEAN, done : BOOLEAN, busy : BOOLEAN, playing : BOOLEAN]
  /\ player \in [Sentence -> {"none", "asked", "running", "killed"}]
  /\ pid \in Sentence \cup {NoPlayer} /\ ToSet(ends) \subseteq Sentence
  /\ sending \in BOOLEAN /\ turn \in 0 .. MaxMessages /\ full \in 0 .. MaxMessages
  /\ timer \in BOOLEAN /\ shown \subseteq Message \X Message /\ interrupted \subseteq Message
  /\ ToSet(played) \subseteq Sentence /\ bare \subseteq Message
  /\ troubles \in 0 .. MaxTroubles
  /\ mixed \in BOOLEAN /\ overtaken \in BOOLEAN /\ astray \in BOOLEAN

Init ==
  /\ reply = [m \in Message |-> "none"] /\ task = [m \in Message |-> [k \in Chunk |-> "none"]]
  /\ partial = [m \in Message |-> 0] /\ cancelled = FALSE /\ tracked = 0
  /\ cancelling = FALSE /\ events = <<>>
  /\ audio = [map |-> [k \in Chunk |-> Absent], next |-> 1,
              active |-> FALSE, done |-> FALSE, busy |-> FALSE, playing |-> FALSE]
  /\ player = [p \in Sentence |-> "none"] /\ pid = NoPlayer /\ ends = <<>>
  /\ sending = FALSE /\ turn = 0 /\ full = 0 /\ timer = FALSE /\ shown = {}
  /\ played = <<>> /\ interrupted = {} /\ mixed = FALSE /\ overtaken = FALSE
  /\ bare = {} /\ astray = FALSE /\ troubles = 0

-----------------------------------------------------------------------------
(* The backend *)

Trouble == troubles < MaxTroubles /\ troubles' = troubles + 1

At(m, states) == reply[m] \in states
Moves(m, state) == reply' = [reply EXCEPT ![m] = state]

Open == {s \in Sentence : task[s[1]][s[2]] = "open"}
Older(s, t) == s[1] < t[1] \/ (s[1] = t[1] /\ s[2] < t[2])

\* Those that hold the semaphore.
Speaking == {s \in Open : Cardinality({t \in Open : Older(t, s)}) < 2}

\* Later responses are shorter.
Unsaid(m) == {k \in 1 .. MaxChunks + 1 - m : task[m][k] = "none"}
NextChunk(m) == CHOOSE k \in Unsaid(m) : \A j \in Unsaid(m) : k <= j

\* The next sentence, if cleaning leaves something to speak of it; a number is used up anyway.
Says(m) ==
  /\ Unsaid(m) # {}
  /\ \E t \in {"open", "blank"} : task' = [task EXCEPT ![m][NextChunk(m)] = t]

\* The lock of the Qube is free.
Begin(m) ==
  /\ At(m, {"sent"}) /\ \A n \in Message : ~At(n, {"thinking", "speaking", "draining"})
  /\ Moves(m, "thinking") /\ tracked' = m
  /\ UNCHANGED <<task, partial, cancelled, cancelling, events, audio, players, chat, timer, troubles, history>>

\* The model has answered; a cancellation that came before is forgotten.
Speak(m) ==
  /\ At(m, {"thinking"}) /\ Moves(m, "speaking") /\ cancelled' = FALSE
  /\ UNCHANGED <<task, partial, tracked, cancelling, events, audio, players, chat, timer, troubles, history>>

\* on_token completes a sentence.
Token(m) ==
  /\ At(m, {"speaking"}) /\ ~cancelled /\ Says(m)
  /\ UNCHANGED <<reply, partial, cancelled, tracked, cancelling, events, audio, players, chat,
                 timer, troubles, history>>

\* process_message returns; what it left of a sentence is spoken, cancelled or not.
Returns(m) ==
  /\ At(m, {"speaking"}) /\ Moves(m, "draining")
  /\ \/ Says(m) /\ partial' = [partial EXCEPT ![m] = NextChunk(m)]
     \/ UNCHANGED <<task, partial>>
  /\ UNCHANGED <<cancelled, tracked, cancelling, events, audio, players, chat, timer, troubles, history>>

StreamEnd(m) == [of |-> m, chunk |-> 0]

\* process_message raises: the tasks go on, and are not waited for.
Raises(m) ==
  /\ At(m, {"thinking", "speaking"}) /\ Moves(m, "ended")
  /\ Trouble /\ events' = Append(events, StreamEnd(m))
  /\ UNCHANGED <<task, partial, cancelled, tracked, cancelling, audio, players, chat, timer, history>>

\* All its tasks have ended, or taken too long.
End(m) ==
  /\ At(m, {"draining"}) /\ \A s \in Open : s[1] # m
  /\ Moves(m, "ended") /\ tracked' = 0
  /\ events' = Append(events, StreamEnd(m))
  /\ UNCHANGED <<task, partial, cancelled, cancelling, audio, players, chat, timer, troubles, history>>

\* _generate_and_emit_sentence
Spoken(s, ok) ==
  /\ s \in Speaking /\ (IF ok THEN UNCHANGED troubles ELSE Trouble)
  /\ task' = [task EXCEPT ![s[1]][s[2]] = IF ok THEN "ready" ELSE "failed"]
  /\ events' = Append(events, [of |-> s[1], chunk |-> s[2], ok |-> ok, final |-> partial[s[1]] = s[2]])
  /\ UNCHANGED <<reply, partial, cancelled, tracked, cancelling, audio, players, chat, timer, history>>

\* After its time the task is given up, and nobody told.
TimesOut(s) ==
  /\ s \in Open /\ Trouble
  /\ task' = [task EXCEPT ![s[1]][s[2]] = "gone"]
  /\ UNCHANGED <<reply, partial, cancelled, tracked, cancelling, events, audio, players, chat,
                 timer, history>>

\* _handle_cancel_stream, of the message of the moment
CancelStream ==
  /\ cancelling /\ cancelling' = FALSE /\ cancelled' = TRUE
  /\ task' = [m \in Message |-> [k \in Chunk |->
                IF m = tracked /\ task[m][k] = "open" THEN "gone" ELSE task[m][k]]]
  /\ UNCHANGED <<reply, partial, tracked, events, audio, players, chat, timer, troubles, history>>

-----------------------------------------------------------------------------
(* The GUI: what several handlers do *)

\* The effect that starts and clears the timer runs when one of its inputs has changed.
Effects ==
  timer' = IF turn' = turn /\ audio'.playing = audio.playing THEN timer
           ELSE turn' # 0 /\ ~audio'.playing /\ full' # 0

\* resetStreamingState
Reset(a) == [a EXCEPT !.map = [k \in Chunk |-> Absent], !.next = 1,
                      !.active = FALSE, !.done = FALSE, !.busy = FALSE]

\* What playNextStreamingChunk finds after those that are broken.
Found(a) == CHOOSE k \in a.next .. MaxChunks + 1 :
              /\ k \in Chunk => a.map[k] # Broken
              /\ \A j \in a.next .. k - 1 : a.map[j] = Broken
Ready(a) == Found(a) \in Chunk /\ a.map[Found(a)] # Absent

\* Something of the message is still to come.
Coming(m) ==
  \/ \E s \in Open : s[1] = m
  \/ \E i \in 1 .. Len(events) : events[i].of = m /\ events[i].chunk # 0

\* Nothing is ready: the queue ends if all has come, as far as is known.
Pauses(a) ==
  /\ audio' = IF a.done THEN [Reset(a) EXCEPT !.playing = FALSE] ELSE [a EXCEPT !.next = Found(a)]
  /\ overtaken' = (overtaken \/ (a.done /\ turn # 0 /\ Coming(turn)))
  /\ UNCHANGED played

GoesOn(a) ==
  /\ audio' = [a EXCEPT !.map[Found(a)] = Absent, !.next = Found(a) + 1, !.busy = TRUE, !.playing = TRUE]
  /\ played' = Append(played, a.map[Found(a)])
  /\ UNCHANGED overtaken

\* Mutant of PlayNext: a sentence is played beside the one that is being played.
PlayNextUnguarded(a, others) ==
  \/ ~Ready(a) /\ Pauses(a) /\ player' = others
  \/ Ready(a) /\ GoesOn(a) /\ player' = [others EXCEPT ![a.map[Found(a)]] = "asked"]

\* playNextStreamingChunk: the next in order, unless one is being played.
PlayNext(a, others) ==
  \/ a.busy /\ audio' = a /\ player' = others /\ UNCHANGED <<played, overtaken>>
  \/ ~a.busy /\ ~Ready(a) /\ Pauses(a) /\ player' = others
  \/ ~a.busy /\ Ready(a) /\ GoesOn(a) /\ player' = [others EXCEPT ![a.map[Found(a)]] = "asked"]

Sounding == {p \in Sentence : player[p] \in {"asked", "running"}}

\* A message but m is still being prepared or worked at, or what was sent of one is on its way.
Unfinished(m) ==
  \/ \E n \in Message \ {m} : At(n, {"typed", "sent", "thinking", "speaking", "draining"})
  \/ Open # {} \/ events # <<>>

\* stopAudio and resetStreamingState; the player that is known is killed.
Silence ==
  /\ audio' = [Reset(audio) EXCEPT !.playing = FALSE]
  /\ player' = IF pid = NoPlayer THEN player ELSE [player EXCEPT ![pid] = "killed"]
  /\ pid' = NoPlayer
  /\ astray' = (astray \/ Sounding \ {pid} # {})
  /\ interrupted' = IF turn = 0 THEN interrupted ELSE interrupted \cup {turn}
  /\ mixed' = (mixed \/ Unfinished(0))
  /\ turn' = 0
  /\ Effects

-----------------------------------------------------------------------------
(* Events that reach the GUI *)

\* tts-audio-ready, whichever message it belongs to
AudioReady ==
  LET e == Head(events)
      a == [audio EXCEPT !.map[e.chunk] = IF e.ok THEN <<e.of, e.chunk>> ELSE Broken,
                         !.done = @ \/ e.final]
  IN  /\ events # <<>> /\ e.chunk # 0 /\ events' = Tail(events)
      /\ IF e.chunk = audio.next THEN PlayNext(a, player)
         ELSE audio' = a /\ UNCHANGED <<player, played, overtaken>>
      /\ UNCHANGED <<backend, cancelling, pid, ends, chat, mixed, bare, astray, troubles>>
      /\ Effects

\* tts-stream-end: AudioContext cleans up only if it is not active; ChatInterface keeps the text.
StreamEnded ==
  LET e == Head(events)
      idle == ~audio.active /\ \A k \in Chunk : audio.map[k] = Absent
  IN  /\ events # <<>> /\ e.chunk = 0 /\ events' = Tail(events)
      /\ audio' = IF idle THEN Reset(audio) ELSE [audio EXCEPT !.done = TRUE]
      /\ full' = IF turn = 0 THEN full ELSE e.of
      /\ bare' = IF audio.busy THEN bare ELSE bare \cup {e.of}
      /\ overtaken' = (overtaken \/ Coming(e.of))
      /\ astray' = (astray \/ (idle /\ Sounding # {}))
      /\ UNCHANGED <<backend, cancelling, players, sending, turn, shown, interrupted, timer,
                     played, mixed, troubles>>

\* The answer to the command, be it a failure
Answer(m) ==
  /\ At(m, {"ended"}) /\ Moves(m, "answered")
  /\ sending' = FALSE
  /\ UNCHANGED <<task, partial, cancelled, tracked, cancelling, events, audio, players,
                 turn, full, shown, interrupted, timer, troubles, history>>

-----------------------------------------------------------------------------
(* The players *)

\* play_audio_native starts a process, and stops none.
PlayerStarts(p) ==
  /\ player[p] = "asked" /\ player' = [player EXCEPT ![p] = "running"] /\ pid' = p
  /\ audio' = [audio EXCEPT !.playing = TRUE]
  /\ UNCHANGED <<backend, cancelling, events, ends, chat, troubles, history>>
  /\ Effects

\* Its file cannot be read: the next is tried.
PlayerFails(p) ==
  /\ player[p] = "asked" /\ Trouble
  /\ PlayNext([audio EXCEPT !.busy = FALSE], [player EXCEPT ![p] = "none"])
  /\ astray' = (astray \/ Sounding # {p})
  /\ UNCHANGED <<backend, cancelling, events, pid, ends, chat, mixed, bare>>
  /\ Effects

\* Its thread clears the number of whichever player is known.
PlayerEnds(p) ==
  /\ player[p] \in {"running", "killed"} /\ player' = [player EXCEPT ![p] = "none"]
  /\ pid' = NoPlayer /\ ends' = Append(ends, p)
  /\ UNCHANGED <<backend, cancelling, events, audio, chat, timer, troubles, history>>

\* Mutant of PlaybackEnded: the queue stays busy.
PlaybackEndedBusy ==
  /\ ends # <<>> /\ ends' = Tail(ends)
  /\ IF audio.active \/ \E k \in Chunk : audio.map[k] # Absent
     THEN PlayNext(audio, player)
     ELSE audio' = [audio EXCEPT !.playing = FALSE] /\ UNCHANGED <<player, played, overtaken>>
  /\ astray' = (astray \/ Sounding # {})
  /\ UNCHANGED <<backend, cancelling, events, pid, chat, mixed, bare, troubles>>
  /\ Effects

\* audio-playback-ended, which does not say of what
PlaybackEnded ==
  /\ ends # <<>> /\ ends' = Tail(ends)
  /\ IF audio.active \/ \E k \in Chunk : audio.map[k] # Absent
     THEN PlayNext([audio EXCEPT !.busy = FALSE], player)
     ELSE audio' = [audio EXCEPT !.playing = FALSE] /\ UNCHANGED <<player, played, overtaken>>
  /\ astray' = (astray \/ Sounding # {})
  /\ UNCHANGED <<backend, cancelling, events, pid, chat, mixed, bare, troubles>>
  /\ Effects

-----------------------------------------------------------------------------
(* The user *)

\* handleSend or handleStreamSend: what is being spoken is interrupted.
Send(m) ==
  /\ ~sending /\ At(m, {"none"}) /\ \A n \in 1 .. m - 1 : ~At(n, {"none"})
  /\ sending' = TRUE /\ Moves(m, "typed")
  /\ IF turn = 0
     THEN UNCHANGED <<cancelling, audio, player, pid, turn, full, timer, interrupted, mixed, astray>>
     ELSE cancelling' = TRUE /\ full' = 0 /\ Silence
  /\ UNCHANGED <<task, partial, cancelled, tracked, events, ends, shown, played, overtaken, bare, troubles>>

\* startStreamingText, startStreamingPlayback and the command
Start(m) ==
  /\ At(m, {"typed"}) /\ Moves(m, "sent")
  /\ turn' = m /\ full' = 0
  /\ audio' = [Reset(audio) EXCEPT !.active = TRUE]
  /\ mixed' = (mixed \/ Unfinished(m)) /\ astray' = (astray \/ Sounding # {})
  /\ UNCHANGED <<task, partial, cancelled, tracked, cancelling, events, players, sending, shown,
                 interrupted, played, overtaken, bare, troubles>>
  /\ Effects

\* The space bar, in stream mode
Interrupt ==
  /\ audio.playing \/ sending
  /\ Trouble
  /\ sending' = FALSE /\ cancelling' = TRUE /\ full' = 0 /\ Silence
  /\ UNCHANGED <<backend, events, ends, shown, played, overtaken, bare>>

\* Escape clears the chat.  Its listener cancels the stream if one ran when the
\* listener was made, which may be long ago.
Escape ==
  /\ turn # 0 \/ audio.playing
  /\ Trouble
  /\ sending' = FALSE /\ cancelling' \in {cancelling, TRUE} /\ shown' = {} /\ Silence
  /\ UNCHANGED <<backend, events, ends, full, played, overtaken, bare>>

\* The timer: the text is shown if there is no audio by now.
Finalize ==
  LET finalized == ~audio.playing /\ full # 0 IN
  /\ timer
  /\ IF finalized THEN shown' = shown \cup {<<turn, full>>} /\ turn' = 0 /\ full' = 0
                  ELSE UNCHANGED <<shown, turn, full>>
  /\ timer' = FALSE
  /\ UNCHANGED <<backend, cancelling, events, audio, players, sending, interrupted, troubles, history>>

\* Another input of the effect changes.
Rerender ==
  /\ timer' = (turn # 0 /\ ~audio.playing /\ full # 0)
  /\ UNCHANGED <<backend, cancelling, events, audio, players, chat, troubles, history>>

-----------------------------------------------------------------------------
Works(m) == Begin(m) \/ Speak(m) \/ Returns(m) \/ End(m) \/ Answer(m)
Synthesis(s) == \E ok \in BOOLEAN : Spoken(s, ok)
Plays(p) == PlayerStarts(p) \/ PlayerEnds(p)

Next ==
  \/ \E m \in Message : Works(m) \/ Token(m) \/ Raises(m) \/ Send(m) \/ Start(m)
  \/ \E s \in Sentence : Synthesis(s) \/ TimesOut(s) \/ Plays(s) \/ PlayerFails(s)
  \/ CancelStream \/ AudioReady \/ StreamEnded \/ PlaybackEnded
  \/ Interrupt \/ Escape \/ Finalize \/ Rerender

\* The backend answers and speaks, events arrive, players end and timers expire.
Fairness ==
  /\ \A m \in Message : WF_vars(Works(m)) /\ WF_vars(Start(m))
  /\ \A s \in Sentence : WF_vars(Synthesis(s)) /\ WF_vars(Plays(s))
  /\ WF_vars(CancelStream) /\ WF_vars(AudioReady) /\ WF_vars(StreamEnded)
  /\ WF_vars(PlaybackEnded) /\ WF_vars(Finalize)

Spec == Init /\ [][Next]_vars /\ Fairness

-----------------------------------------------------------------------------
(* Properties *)

\* Sentences are played in their order, each once and one at a time, in whichever
\* order they became ready: but for players that were not stopped, are forgotten or
\* whose end was taken for another's.  What is played or shown belongs to the message of the moment
\* unless that was begun, or another left, while the backend was still at an earlier one.
PlayedInOrder ==
  /\ \A i, j \in 1 .. Len(played) : i < j /\ ~mixed => Older(played[i], played[j])
  /\ ~astray => Cardinality(Sounding) <= 1
  /\ ~mixed => \A t \in shown : t[1] = t[2]

\* A sentence that is ready is played if none before it is missing, unless its message
\* is interrupted, mixed with another, or its last sentence came too early.
AllPlayed ==
  \A s \in Sentence :
    /\ task[s[1]][s[2]] = "ready"
    /\ \A j \in 1 .. s[2] - 1 : task[s[1]][j] \in {"ready", "failed"}
    ~> s \in ToSet(played) \/ s[1] \in interrupted \/ mixed \/ overtaken

\* A response is shown at last, or interrupted, unless its stream ended when nothing
\* was being played.
ShownAtLast == \A m \in Message : turn = m ~> turn # m \/ m \in bare \/ mixed \/ overtaken

=============================================================================
