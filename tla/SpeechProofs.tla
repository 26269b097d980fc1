----------------------------- MODULE SpeechProofs ------------------------------
(***************************************************************************)
(* Proofs about Speech, for any number of messages and sentences: what is  *)
(* invariant in it, which the compositions that run it use.                *)
(***************************************************************************)
EXTENDS Speech, FiniteSetTheorems, NaturalsInduction, TLAPS

-----------------------------------------------------------------------------
(* The inductive invariant *)

Event == [of : Message, chunk : {0}]
         \cup [of : Message, chunk : Chunk, ok : BOOLEAN, final : BOOLEAN]

Tasks == [Message -> [Chunk -> {"none", "blank", "open", "ready", "failed", "gone"}]]

Audios == [map : [Chunk -> Sentence \cup {Absent, Broken}], next : 1 .. MaxChunks + 1,
           active : BOOLEAN, done : BOOLEAN, busy : BOOLEAN, playing : BOOLEAN]

\* A sentence waits in the place of its number.
Placed(a) == \A k \in Chunk : a.map[k] \in Sentence => a.map[k][2] = k

\* The types of the variables, which need that the timer runs for a message only.
TypeInv ==
  /\ reply \in [Message -> Reply] /\ task \in Tasks /\ partial \in [Message -> 0 .. MaxChunks]
  /\ cancelled \in BOOLEAN /\ cancelling \in BOOLEAN /\ tracked \in 0 .. MaxMessages
  /\ events \in Seq(Event)
  /\ audio \in Audios /\ Placed(audio)
  /\ player \in [Sentence -> {"none", "asked", "running", "killed"}]
  /\ pid \in Sentence \cup {NoPlayer} /\ ends \in Seq(Sentence)
  /\ sending \in BOOLEAN /\ turn \in 0 .. MaxMessages /\ full \in 0 .. MaxMessages
  /\ timer \in BOOLEAN /\ (timer => turn # 0)
  /\ shown \subseteq Message \X Message /\ interrupted \subseteq Message
  /\ played \in Seq(Sentence) /\ bare \subseteq Message
  /\ troubles \in 0 .. MaxTroubles
  /\ mixed \in BOOLEAN /\ overtaken \in BOOLEAN /\ astray \in BOOLEAN

\* At most one player is heard, for which the queue waits.
OneSounds ==
  ~astray => /\ \A p, q \in Sounding : p = q
             /\ ~audio.busy => Sounding = {}

\* Messages are sent one after the other, and begun so unless they are mixed.
Quiet == {"none", "typed"}
InTurn ==
  /\ \A n \in Message : reply[n] # "none" => \A k \in 1 .. n - 1 : reply[k] # "none"
  /\ ~mixed => \A n \in Message : reply[n] \notin Quiet =>
                 \A k \in 1 .. n - 1 : reply[k] \in {"ended", "answered"}

Newest(rp, m) == rp[m] \notin Quiet /\ \A n \in Message : n > m => rp[n] \in Quiet

\* What comes belongs to the message that was begun last.
OfNewest ==
  ~mixed => /\ \A s \in Sentence : task[s[1]][s[2]] = "open" => Newest(reply, s[1])
            /\ \A i \in 1 .. Len(events) : Newest(reply, events[i].of)
            /\ turn # 0 => Newest(reply, turn) /\ full \in {0, turn}
            /\ \A t \in shown : t[1] = t[2]

\* A sentence comes once, after it was spoken.
ComesOnce ==
  /\ \A i \in 1 .. Len(events) : events[i].chunk # 0 =>
       task[events[i].of][events[i].chunk] \in {"ready", "failed"}
  /\ \A i, j \in 1 .. Len(events) : i < j /\ events[i].chunk # 0 =>
       events[i].of # events[j].of \/ events[i].chunk # events[j].chunk

\* An event for the sentence is on its way.
OnItsWay(ev, m, k) == \E i \in 1 .. Len(ev) : ev[i].of = m /\ ev[i].chunk = k

\* A sentence that has come and is not waiting any more.
Past(tk, ev, a, m, k) ==
  /\ tk[m][k] \in {"ready", "failed"} /\ ~OnItsWay(ev, m, k)
  /\ a.map[k] \in {Absent, Broken}

\* Nothing that waits, or is still to come, is older than what was played; what the queue
\* does not look for any more is past.
QueueInv(rp, tk, ev, a, pl) ==
  /\ \A k \in Chunk : a.map[k] \in Sentence => Newest(rp, a.map[k][1])
  /\ \A m \in Message, k \in Chunk : Newest(rp, m) /\ a.map[k] # Absent =>
       tk[m][k] \in {"ready", "failed"} /\ ~OnItsWay(ev, m, k)
  /\ \A i \in 1 .. Len(pl) : rp[pl[i][1]] \notin Quiet
  /\ \A i, j \in 1 .. Len(pl) : i < j => Older(pl[i], pl[j])
  /\ \A i \in 1 .. Len(pl) : Newest(rp, pl[i][1]) =>
       \A k \in 1 .. pl[i][2] : Past(tk, ev, a, pl[i][1], k)
  /\ \A m \in Message : Newest(rp, m) => \A k \in 1 .. a.next - 1 : Past(tk, ev, a, m, k)

SpeechInv ==
  /\ TypeInv
  /\ OneSounds
  /\ InTurn
  /\ OfNewest
  /\ ComesOnce
  /\ ~mixed => QueueInv(reply, task, events, audio, played)

-----------------------------------------------------------------------------
(* What the operators do *)

LEMMA SpeechConstants ==
  ASSUME SpeechAssumption
  PROVE  /\ MaxMessages \in Nat /\ MaxMessages >= 1 /\ MaxChunks \in Nat /\ MaxChunks >= 1
         /\ MaxTroubles \in Nat
BY DEF SpeechAssumption

LEMMA NoSentence ==
  ASSUME SpeechAssumption
  PROVE  Absent \notin Sentence /\ Broken \notin Sentence /\ Absent # Broken
         /\ NoPlayer \notin Sentence
<1>1. \A s \in Sentence : s = <<s[1], s[2]>> /\ s[1] >= 1 /\ s[1] \in Nat
  BY SpeechConstants DEF Sentence, Message, Chunk
<1>2. Broken \notin Sentence
  <2>1. Broken[1] = 0
    BY DEF Broken
  <2> QED BY <1>1, <2>1
<1>3. \A m, k : Len(<<m, k>>) = 2 /\ Len(<<>>) = 0
  OBVIOUS
<1>4. Len(Absent) = 0 /\ Len(NoPlayer) = 0 /\ Len(Broken) = 2 /\ \A s \in Sentence : Len(s) = 2
  BY <1>1, <1>3 DEF Absent, NoPlayer, Broken
<1> QED BY <1>2, <1>4

\* Of a set of numbers that is not empty one is the least.
LEMMA LeastExists ==
  ASSUME NEW N \in SUBSET Nat, N # {}
  PROVE  \E n \in N : \A k \in N : n <= k
<1>1. IsWellFoundedOn(OpToRel(<, Nat), Nat)
  BY NatLessThanWellFounded
<1>2. PICK n \in N : \A y \in N : ~(<<y, n>> \in OpToRel(<, Nat))
  BY <1>1, WFMin
<1>3. \A y \in N : ~(y < n)
  BY <1>2 DEF OpToRel
<1> QED BY <1>3

\* What the queue finds lies behind sentences that are broken.
LEMMA FoundIs ==
  ASSUME SpeechAssumption, NEW a \in Audios
  PROVE  /\ Found(a) \in a.next .. MaxChunks + 1
         /\ Found(a) \in Chunk => a.map[Found(a)] # Broken
         /\ \A j \in a.next .. Found(a) - 1 : j \in Chunk /\ a.map[j] = Broken
<1> DEFINE Ends == {k \in a.next .. MaxChunks + 1 : k \in Chunk => a.map[k] # Broken}
<1>1. a.next \in 1 .. MaxChunks + 1 /\ MaxChunks \in Nat
  BY SpeechConstants DEF Audios
<1>2. MaxChunks + 1 \in Ends /\ Ends \subseteq Nat
  BY <1>1 DEF Chunk
<1>3. PICK n \in Ends : \A k \in Ends : n <= k
  <2> HIDE DEF Ends
  <2> QED BY <1>2, LeastExists
<1>4. \A j \in a.next .. n - 1 : j \in Chunk /\ a.map[j] = Broken
  <2> SUFFICES ASSUME NEW j \in a.next .. n - 1
               PROVE  j \in Chunk /\ a.map[j] = Broken
    OBVIOUS
  <2>1. j \in a.next .. MaxChunks + 1 /\ j \in Chunk /\ ~(n <= j)
    BY <1>1, <1>3 DEF Chunk
  <2> QED BY <1>3, <2>1
<1>5. \E k \in a.next .. MaxChunks + 1 : /\ k \in Chunk => a.map[k] # Broken
                                         /\ \A j \in a.next .. k - 1 : a.map[j] = Broken
  BY <1>3, <1>4
<1>6. PICK f : f = Found(a)
  OBVIOUS
<1>7. /\ f \in a.next .. MaxChunks + 1 /\ (f \in Chunk => a.map[f] # Broken)
      /\ \A j \in a.next .. f - 1 : a.map[j] = Broken
  BY <1>5, <1>6 DEF Found
<1>8. \A j \in a.next .. f - 1 : j \in Chunk
  BY <1>1, <1>7 DEF Chunk
<1> QED BY <1>6, <1>7, <1>8

\* The next sentence is one that was not said.
LEMMA NextChunkIs ==
  ASSUME SpeechAssumption, NEW m \in Message, Unsaid(m) # {}
  PROVE  NextChunk(m) \in Chunk /\ task[m][NextChunk(m)] = "none"
<1>1. Unsaid(m) \subseteq Nat /\ \A k \in Unsaid(m) : k \in Chunk /\ task[m][k] = "none"
  BY SpeechConstants DEF Unsaid, Chunk, Message
<1>2. \E n \in Unsaid(m) : \A k \in Unsaid(m) : n <= k
  BY <1>1, LeastExists
<1>3. NextChunk(m) \in Unsaid(m)
  BY <1>2 DEF NextChunk
<1> QED BY <1>1, <1>3

LEMMA ResetIs ==
  ASSUME SpeechAssumption, NEW a \in Audios
  PROVE  /\ Reset(a) \in Audios /\ Placed(Reset(a))
         /\ \A k \in Chunk : Reset(a).map[k] = Absent
         /\ Reset(a).next = 1 /\ Reset(a).busy = FALSE /\ Reset(a).playing = a.playing
         /\ \A b \in BOOLEAN : /\ [Reset(a) EXCEPT !.playing = b] \in Audios
                               /\ [Reset(a) EXCEPT !.active = b] \in Audios
         /\ \A b : /\ [Reset(a) EXCEPT !.playing = b].map = Reset(a).map
                   /\ [Reset(a) EXCEPT !.playing = b].next = 1
                   /\ [Reset(a) EXCEPT !.playing = b].busy = FALSE
                   /\ [Reset(a) EXCEPT !.playing = b].playing = b
                   /\ [Reset(a) EXCEPT !.active = b].map = Reset(a).map
                   /\ [Reset(a) EXCEPT !.active = b].next = 1
                   /\ [Reset(a) EXCEPT !.active = b].busy = FALSE
                   /\ [Reset(a) EXCEPT !.active = b].playing = a.playing
<1>1. Reset(a) \in Audios
  <2>1. 1 \in 1 .. MaxChunks + 1
    BY SpeechConstants
  <2>2. [k \in Chunk |-> Absent] \in [Chunk -> Sentence \cup {Absent, Broken}]
    OBVIOUS
  <2> QED BY <2>1, <2>2 DEF Reset, Audios
<1>2. \A k \in Chunk : Reset(a).map[k] = Absent
  BY DEF Reset, Audios
<1>3. Placed(Reset(a))
  BY <1>2, NoSentence DEF Placed
<1>4. Reset(a).next = 1 /\ Reset(a).busy = FALSE /\ Reset(a).playing = a.playing
  BY DEF Reset, Audios
<1>5. \A r \in Audios : \A b \in BOOLEAN : /\ [r EXCEPT !.playing = b] \in Audios
                                           /\ [r EXCEPT !.active = b] \in Audios
  BY DEF Audios
<1>6. \A r \in Audios : \A b : /\ [r EXCEPT !.playing = b].map = r.map
                               /\ [r EXCEPT !.playing = b].next = r.next
                               /\ [r EXCEPT !.playing = b].busy = r.busy
                               /\ [r EXCEPT !.playing = b].playing = b
                               /\ [r EXCEPT !.active = b].map = r.map
                               /\ [r EXCEPT !.active = b].next = r.next
                               /\ [r EXCEPT !.active = b].busy = r.busy
                               /\ [r EXCEPT !.active = b].playing = r.playing
  BY DEF Audios
<1> QED BY <1>1, <1>2, <1>3, <1>4, <1>5, <1>6

Players == [Sentence -> {"none", "asked", "running", "killed"}]

\* What playNextStreamingChunk may do: nothing, the end of the queue, a look beyond sentences
\* that are broken, or a sentence that is played.
EndsQueue(a, others) ==
  /\ ~a.busy /\ audio' = [Reset(a) EXCEPT !.playing = FALSE]
  /\ player' = others /\ played' = played
LooksOn(a, others) ==
  /\ ~a.busy /\ ~audio'.busy /\ audio'.map = a.map /\ audio'.next = Found(a)
  /\ player' = others /\ played' = played
Sounds(a, others) ==
  /\ ~a.busy /\ Found(a) \in Chunk /\ a.map[Found(a)] \in Sentence
  /\ audio'.map = [a.map EXCEPT ![Found(a)] = Absent] /\ audio'.next = Found(a) + 1 /\ audio'.busy
  /\ player' = [others EXCEPT ![a.map[Found(a)]] = "asked"]
  /\ played' = Append(played, a.map[Found(a)])

LEMMA PlayNextIs ==
  ASSUME SpeechAssumption, NEW a \in Audios, Placed(a), NEW others \in Players,
         played \in Seq(Sentence), PlayNext(a, others)
  PROVE  /\ audio' \in Audios /\ Placed(audio') /\ player' \in Players /\ played' \in Seq(Sentence)
         /\ overtaken' \in BOOLEAN \/ overtaken' = overtaken
         /\ \/ a.busy /\ audio' = a /\ player' = others /\ played' = played
            \/ EndsQueue(a, others)
            \/ LooksOn(a, others)
            \/ Sounds(a, others)
<1>1. CASE a.busy /\ audio' = a /\ player' = others /\ UNCHANGED <<played, overtaken>>
  BY <1>1
<1>2. CASE ~a.busy /\ ~Ready(a) /\ Pauses(a) /\ player' = others
  <2>1. CASE a.done
    <3>1. audio' = [Reset(a) EXCEPT !.playing = FALSE] /\ played' = played
      BY <1>2, <2>1 DEF Pauses
    <3>2. audio' \in Audios /\ audio'.map = Reset(a).map /\ Placed(Reset(a))
      BY <3>1, ResetIs
    <3>3. overtaken' \in BOOLEAN
      BY <1>2 DEF Pauses
    <3>4. Placed(audio')
      BY <3>2 DEF Placed
    <3> QED BY <1>2, <3>1, <3>2, <3>3, <3>4 DEF EndsQueue
  <2>2. CASE ~a.done
    <3>1. audio' = [a EXCEPT !.next = Found(a)] /\ played' = played
      BY <1>2, <2>2 DEF Pauses
    <3>2. Found(a) \in 1 .. MaxChunks + 1
      BY FoundIs, SpeechConstants DEF Audios
    <3>3. audio' \in Audios /\ audio'.map = a.map /\ audio'.next = Found(a) /\ audio'.busy = a.busy
      BY <3>1, <3>2 DEF Audios
    <3>4. overtaken' \in BOOLEAN
      BY <1>2 DEF Pauses
    <3> QED BY <1>2, <3>1, <3>3, <3>4 DEF LooksOn, Placed
  <2> QED BY <2>1, <2>2
<1>3. CASE ~a.busy /\ Ready(a) /\ GoesOn(a) /\ player' = [others EXCEPT ![a.map[Found(a)]] = "asked"]
  <2>1. PICK f : f = Found(a)
    OBVIOUS
  <2>2. f \in Chunk /\ a.map[f] \in Sentence
    BY <1>3, <2>1, FoundIs DEF Ready, Audios
  <2>3. f + 1 \in 1 .. MaxChunks + 1
    BY <2>2, SpeechConstants DEF Chunk
  <2>4. audio' = [a EXCEPT !.map[f] = Absent, !.next = f + 1, !.busy = TRUE, !.playing = TRUE]
    BY <1>3, <2>1 DEF GoesOn
  <2>5. /\ audio' \in Audios /\ audio'.map = [a.map EXCEPT ![f] = Absent]
        /\ audio'.next = f + 1 /\ audio'.busy = TRUE
    BY <2>2, <2>3, <2>4 DEF Audios
  <2>6. Placed(audio')
    BY <2>2, <2>5, NoSentence DEF Placed, Audios
  <2>7. played' = Append(played, a.map[f]) /\ overtaken' = overtaken
    BY <1>3, <2>1 DEF GoesOn
  <2>8. player' = [others EXCEPT ![a.map[f]] = "asked"]
    BY <1>3, <2>1
  <2> QED BY <1>3, <2>1, <2>2, <2>5, <2>6, <2>7, <2>8 DEF Sounds, Players
<1> QED BY <1>1, <1>2, <1>3 DEF PlayNext

\* No sentence sounds beside another, and none if the queue is not busy, afterwards.
LEMMA PlayNextSounds ==
  ASSUME SpeechAssumption, NEW a \in Audios, Placed(a), NEW others \in Players,
         played \in Seq(Sentence), PlayNext(a, others),
         \A p, q \in Sentence : others[p] \in {"asked", "running"} /\ others[q] \in {"asked", "running"} => p = q,
         ~a.busy => \A p \in Sentence : others[p] \notin {"asked", "running"}
  PROVE  /\ \A p, q \in Sounding' : p = q
         /\ ~audio'.busy => Sounding' = {}
<1>1. CASE player' = others /\ (a.busy => audio'.busy)
  BY <1>1 DEF Sounding
<1>2. CASE Sounds(a, others)
  <2>1. \A p \in Sentence : player'[p] \in {"asked", "running"} => p = a.map[Found(a)]
    BY <1>2 DEF Sounds, Players
  <2> QED BY <1>2, <2>1 DEF Sounds, Sounding
<1> QED BY <1>1, <1>2, PlayNextIs DEF EndsQueue, LooksOn

\* What is played next is younger than what was played.
LEMMA PlayNextQueue ==
  ASSUME SpeechAssumption, NEW a \in Audios, Placed(a), NEW others \in Players,
         played \in Seq(Sentence), PlayNext(a, others),
         NEW rp, NEW tk, NEW ev, QueueInv(rp, tk, ev, a, played)
  PROVE  QueueInv(rp, tk, ev, audio', played')
<1>1. CASE audio' = a /\ played' = played
  BY <1>1
<1>2. CASE EndsQueue(a, others)
  <2>1. \A k \in Chunk : audio'.map[k] = Absent
    <3>1. audio'.map = Reset(a).map
      BY <1>2, ResetIs DEF EndsQueue
    <3>2. \A k \in Chunk : Reset(a).map[k] = Absent
      BY ResetIs
    <3> QED BY <3>1, <3>2
  <2>2. audio'.next = 1 /\ played' = played
    BY <1>2, ResetIs DEF EndsQueue
  <2>3. \A s \in Sentence : \A k \in 1 .. s[2] : k \in Chunk
    BY SpeechConstants DEF Sentence, Chunk
  <2>4. \A i \in 1 .. Len(played) : played[i] \in Sentence
    OBVIOUS
  <2> QED BY <2>1, <2>2, <2>3, <2>4, NoSentence DEF QueueInv, Past
<1>3. CASE LooksOn(a, others)
  <2>1. audio'.map = a.map /\ audio'.next = Found(a) /\ played' = played
    BY <1>3 DEF LooksOn
  <2>2. a.next \in Nat /\ Found(a) \in Nat
    BY FoundIs, SpeechConstants DEF Audios
  <2>3. ASSUME NEW m \in Message, Newest(rp, m), NEW k \in 1 .. Found(a) - 1
        PROVE  Past(tk, ev, audio', m, k)
    <3>1. CASE k \in 1 .. a.next - 1
      BY <2>1, <2>3, <3>1 DEF QueueInv, Past
    <3>2. CASE k \in a.next .. Found(a) - 1
      <4>1. k \in Chunk /\ a.map[k] = Broken /\ a.map[k] # Absent
        BY <3>2, FoundIs, NoSentence
      <4> QED BY <2>1, <2>3, <4>1 DEF QueueInv, Past
    <3> QED BY <2>2, <3>1, <3>2
  <2> QED BY <2>1, <2>3 DEF QueueInv, Past
<1>4. CASE Sounds(a, others)
  <2>1. PICK f : f = Found(a)
    OBVIOUS
  <2>2. PICK s : s = a.map[f]
    OBVIOUS
  <2>3. /\ f \in Chunk /\ s \in Sentence /\ s[1] \in Message /\ s[2] = f
        /\ audio'.map = [a.map EXCEPT ![f] = Absent] /\ audio'.next = f + 1
        /\ played' = Append(played, s) /\ f \in a.next .. MaxChunks + 1
    BY <1>4, <2>1, <2>2, FoundIs DEF Sounds, Placed, Sentence
  <2>4. /\ \A k \in Chunk : k # f => audio'.map[k] = a.map[k]
        /\ audio'.map[f] = Absent /\ a.next \in Nat /\ f \in Nat /\ a.next >= 1
    BY <2>3, SpeechConstants DEF Audios, Chunk
  <2>5. /\ Len(played') = Len(played) + 1 /\ played'[Len(played) + 1] = s /\ Len(played) \in Nat
        /\ \A i \in 1 .. Len(played) : played'[i] = played[i] /\ played[i] \in Sentence
    BY <2>3
  <2>6. Newest(rp, s[1]) /\ s \notin {Absent, Broken}
    BY <2>2, <2>3, NoSentence DEF QueueInv
  <2>7. \A k : Past(tk, ev, a, s[1], k) /\ k \in Chunk => Past(tk, ev, audio', s[1], k)
    BY <2>4 DEF Past
  <2>8. Past(tk, ev, audio', s[1], f)
    BY <2>2, <2>3, <2>4, <2>6 DEF QueueInv, Past
  <2>9. \A k \in 1 .. f : Past(tk, ev, audio', s[1], k)
    <3> SUFFICES ASSUME NEW k \in 1 .. f, k # f
                 PROVE  Past(tk, ev, audio', s[1], k)
      BY <2>8
    <3>1. k \in Chunk
      BY <2>3, SpeechConstants DEF Chunk
    <3>2. CASE k \in 1 .. a.next - 1
      BY <2>3, <2>6, <2>7, <3>1, <3>2 DEF QueueInv
    <3>3. CASE k \in a.next .. f - 1
      <4>1. a.map[k] = Broken /\ a.map[k] # Absent
        BY <2>1, <3>3, FoundIs, NoSentence
      <4> QED BY <2>3, <2>6, <2>7, <3>1, <4>1 DEF QueueInv, Past
    <3> QED BY <2>4, <3>2, <3>3
  <2>10. \A m \in Message : Newest(rp, m) => m = s[1]
    BY <2>3, <2>6 DEF Newest, Message
  <2>11. ASSUME NEW i \in 1 .. Len(played)
         PROVE  Older(played[i], s)
    <3>1. played[i] \in Sentence /\ played[i][1] \in Message /\ played[i][2] \in Chunk
      BY <2>5 DEF Sentence
    <3>2. rp[played[i][1]] \notin Quiet
      BY DEF QueueInv
    <3>3. ~(played[i][1] > s[1])
      BY <2>6, <3>1, <3>2 DEF Newest
    <3>4. CASE played[i][1] = s[1]
      <4>1. \A k \in 1 .. played[i][2] : Past(tk, ev, a, s[1], k)
        BY <2>6, <3>4 DEF QueueInv
      <4>2. ~(f \in 1 .. played[i][2])
        BY <2>2, <2>6, <4>1 DEF Past
      <4>3. played[i][2] < f
        BY <2>3, <2>4, <3>1, <4>2, SpeechConstants DEF Chunk
      <4> QED BY <2>3, <3>4, <4>3 DEF Older
    <3> QED BY <2>3, <3>1, <3>3, <3>4 DEF Older, Message
  <2>12. \A k \in Chunk : audio'.map[k] \in Sentence => Newest(rp, audio'.map[k][1])
    BY <2>4, NoSentence DEF QueueInv
  <2>13. \A m \in Message, k \in Chunk : Newest(rp, m) /\ audio'.map[k] # Absent =>
           tk[m][k] \in {"ready", "failed"} /\ ~OnItsWay(ev, m, k)
    BY <2>4 DEF QueueInv
  <2>14. \A i \in 1 .. Len(played') : rp[played'[i][1]] \notin Quiet
    BY <2>5, <2>6 DEF QueueInv, Newest
  <2>15. \A i, j \in 1 .. Len(played') : i < j => Older(played'[i], played'[j])
    <3> SUFFICES ASSUME NEW i \in 1 .. Len(played'), NEW j \in 1 .. Len(played'), i < j
                 PROVE  Older(played'[i], played'[j])
      OBVIOUS
    <3>1. i \in 1 .. Len(played)
      BY <2>5
    <3>2. CASE j = Len(played) + 1
      BY <2>5, <2>11, <3>1, <3>2
    <3>3. CASE j \in 1 .. Len(played)
      BY <2>5, <3>1, <3>3 DEF QueueInv
    <3> QED BY <2>5, <3>2, <3>3
  <2>16. \A i \in 1 .. Len(played') : Newest(rp, played'[i][1]) =>
           \A k \in 1 .. played'[i][2] : Past(tk, ev, audio', played'[i][1], k)
    <3> SUFFICES ASSUME NEW i \in 1 .. Len(played'), Newest(rp, played'[i][1]), NEW k \in 1 .. played'[i][2]
                 PROVE  Past(tk, ev, audio', played'[i][1], k)
      OBVIOUS
    <3>1. CASE i = Len(played) + 1
      BY <2>3, <2>5, <2>9, <3>1
    <3>2. CASE i \in 1 .. Len(played)
      <4>1. played[i] = played'[i] /\ played[i][1] \in Message /\ played[i][2] \in Chunk
        BY <2>5, <3>2 DEF Sentence
      <4>2. played[i][1] = s[1] /\ Past(tk, ev, a, s[1], k)
        BY <2>10, <3>2, <4>1 DEF QueueInv
      <4>3. k \in Chunk
        BY <4>1, SpeechConstants DEF Chunk
      <4> QED BY <2>7, <4>1, <4>2, <4>3
    <3> QED BY <2>5, <3>1, <3>2
  <2>17. \A m \in Message : Newest(rp, m) => \A k \in 1 .. audio'.next - 1 : Past(tk, ev, audio', m, k)
    BY <2>3, <2>4, <2>9, <2>10
  <2> QED BY <2>12, <2>13, <2>14, <2>15, <2>16, <2>17 DEF QueueInv
<1> QED BY <1>1, <1>2, <1>3, <1>4, PlayNextIs

-----------------------------------------------------------------------------
(* The types *)

LEMMA SpeechInitTypes ==
  ASSUME SpeechAssumption, Init
  PROVE  TypeInv
<1>1. 0 \in 0 .. MaxMessages /\ 0 \in 0 .. MaxChunks /\ 0 \in 0 .. MaxTroubles /\ 1 \in 1 .. MaxChunks + 1
  BY SpeechConstants
<1>2. audio \in Audios
  <2>1. [k \in Chunk |-> Absent] \in [Chunk -> Sentence \cup {Absent, Broken}]
    OBVIOUS
  <2> QED BY <1>1, <2>1 DEF Init, Audios
<1>3. Placed(audio)
  BY NoSentence DEF Init, Placed
<1>4. events \in Seq(Event) /\ ends \in Seq(Sentence) /\ played \in Seq(Sentence)
  BY DEF Init
<1>5. reply \in [Message -> Reply] /\ task \in Tasks /\ partial \in [Message -> 0 .. MaxChunks]
  BY <1>1 DEF Init, Reply, Tasks
<1>6. player \in [Sentence -> {"none", "asked", "running", "killed"}]
  BY DEF Init
<1> QED BY <1>1, <1>2, <1>3, <1>4, <1>5, <1>6 DEF Init, TypeInv

\* What the steps of the backend have in common.
LEMMA BackendTypes ==
  ASSUME SpeechAssumption, TypeInv,
         UNCHANGED <<audio, players, turn, full, shown, interrupted, timer, history>>,
         reply' \in [Message -> Reply], task' \in Tasks, partial' \in [Message -> 0 .. MaxChunks],
         cancelled' \in BOOLEAN, tracked' \in 0 .. MaxMessages, cancelling' \in BOOLEAN,
         events' \in Seq(Event), troubles' \in 0 .. MaxTroubles, sending' \in BOOLEAN
  PROVE  TypeInv'
BY DEF TypeInv, players, history

LEMMA SaysTypes ==
  ASSUME SpeechAssumption, TypeInv, NEW m \in Message, Says(m)
  PROVE  /\ task' \in Tasks /\ NextChunk(m) \in Chunk /\ task[m][NextChunk(m)] = "none"
         /\ \E t \in {"open", "blank"} : task' = [task EXCEPT ![m][NextChunk(m)] = t]
<1>1. NextChunk(m) \in Chunk /\ task[m][NextChunk(m)] = "none"
  BY NextChunkIs DEF Says
<1>2. PICK t \in {"open", "blank"} : task' = [task EXCEPT ![m][NextChunk(m)] = t]
  BY DEF Says
<1>3. task' \in Tasks
  BY <1>1, <1>2 DEF TypeInv, Tasks
<1> QED BY <1>1, <1>2, <1>3

LEMMA MovesTypes ==
  ASSUME TypeInv, NEW m \in Message, NEW s \in Reply, Moves(m, s)
  PROVE  /\ reply' \in [Message -> Reply] /\ reply'[m] = s
         /\ \A n \in Message : n # m => reply'[n] = reply[n]
BY DEF TypeInv, Moves

LEMMA EventTypes ==
  ASSUME SpeechAssumption, TypeInv
  PROVE  /\ \A m \in Message : Append(events, StreamEnd(m)) \in Seq(Event)
         /\ \A s \in Sentence, ok \in BOOLEAN, final \in BOOLEAN :
              Append(events, [of |-> s[1], chunk |-> s[2], ok |-> ok, final |-> final]) \in Seq(Event)
<1>1. \A m \in Message : StreamEnd(m) \in Event
  BY DEF StreamEnd, Event
<1>2. \A s \in Sentence, ok \in BOOLEAN, final \in BOOLEAN :
        [of |-> s[1], chunk |-> s[2], ok |-> ok, final |-> final] \in Event
  BY DEF Event, Sentence
<1>3. \A e \in Event : Append(events, e) \in Seq(Event)
  BY DEF TypeInv
<1> QED BY <1>1, <1>2, <1>3

LEMMA SpeechBackendTypes ==
  ASSUME SpeechAssumption, TypeInv,
         \/ \E m \in Message : Works(m) \/ Token(m) \/ Raises(m)
         \/ \E s \in Sentence : Synthesis(s) \/ TimesOut(s)
         \/ CancelStream
  PROVE  TypeInv'
<1>1. /\ reply \in [Message -> Reply] /\ task \in Tasks /\ partial \in [Message -> 0 .. MaxChunks]
      /\ cancelled \in BOOLEAN /\ tracked \in 0 .. MaxMessages /\ cancelling \in BOOLEAN
      /\ events \in Seq(Event) /\ troubles \in 0 .. MaxTroubles /\ sending \in BOOLEAN
  BY DEF TypeInv
<1>2. Message \subseteq 0 .. MaxMessages /\ 0 \in 0 .. MaxMessages
      /\ Chunk \subseteq 0 .. MaxChunks
      /\ (Trouble => troubles' \in 0 .. MaxTroubles)
  BY <1>1, SpeechConstants DEF Message, Chunk, Trouble
<1>3. ASSUME NEW m \in Message, Begin(m)
      PROVE  TypeInv'
  <2>1. reply' \in [Message -> Reply] /\ tracked' \in 0 .. MaxMessages
    BY <1>2, <1>3, MovesTypes DEF Begin, Reply
  <2> QED BY <1>1, <1>3, <2>1, BackendTypes DEF Begin, chat
<1>4. ASSUME NEW m \in Message, Speak(m)
      PROVE  TypeInv'
  <2>1. reply' \in [Message -> Reply]
    BY <1>4, MovesTypes DEF Speak, Reply
  <2> QED BY <1>1, <1>4, <2>1, BackendTypes DEF Speak, chat
<1>5. ASSUME NEW m \in Message, Token(m)
      PROVE  TypeInv'
  <2>1. task' \in Tasks
    BY <1>5, SaysTypes DEF Token
  <2> QED BY <1>1, <1>5, <2>1, BackendTypes DEF Token, chat
<1>6. ASSUME NEW m \in Message, Returns(m)
      PROVE  TypeInv'
  <2>1. reply' \in [Message -> Reply]
    BY <1>6, MovesTypes DEF Returns, Reply
  <2>2. task' \in Tasks /\ partial' \in [Message -> 0 .. MaxChunks]
    <3>1. CASE Says(m) /\ partial' = [partial EXCEPT ![m] = NextChunk(m)]
      BY <1>1, <1>2, <3>1, SaysTypes
    <3>2. CASE UNCHANGED <<task, partial>>
      BY <1>1, <3>2
    <3> QED BY <1>6, <3>1, <3>2 DEF Returns
  <2> QED BY <1>1, <1>6, <2>1, <2>2, BackendTypes DEF Returns, chat
<1>7. ASSUME NEW m \in Message, Raises(m)
      PROVE  TypeInv'
  <2>1. reply' \in [Message -> Reply]
    BY <1>7, MovesTypes DEF Raises, Reply
  <2>2. events' \in Seq(Event)
    BY <1>7, EventTypes DEF Raises
  <2> QED BY <1>1, <1>2, <1>7, <2>1, <2>2, BackendTypes DEF Raises, chat
<1>8. ASSUME NEW m \in Message, End(m)
      PROVE  TypeInv'
  <2>1. reply' \in [Message -> Reply]
    BY <1>8, MovesTypes DEF End, Reply
  <2>2. events' \in Seq(Event)
    BY <1>8, EventTypes DEF End
  <2> QED BY <1>1, <1>2, <1>8, <2>1, <2>2, BackendTypes DEF End, chat
<1>9. ASSUME NEW m \in Message, Answer(m)
      PROVE  TypeInv'
  <2>1. reply' \in [Message -> Reply]
    BY <1>9, MovesTypes DEF Answer, Reply
  <2> QED BY <1>1, <1>9, <2>1, BackendTypes DEF Answer
<1>10. ASSUME NEW s \in Sentence, NEW ok \in BOOLEAN, Spoken(s, ok)
       PROVE  TypeInv'
  <2>1. PICK t \in {"ready", "failed"} : task' = [task EXCEPT ![s[1]][s[2]] = t]
    BY <1>10 DEF Spoken
  <2>2. task' \in Tasks
    BY <1>1, <2>1 DEF Tasks, Sentence
  <2>3. events' \in Seq(Event)
    <3>1. (partial[s[1]] = s[2]) \in BOOLEAN
      OBVIOUS
    <3> QED BY <1>10, <3>1, EventTypes DEF Spoken
  <2>4. troubles' \in 0 .. MaxTroubles
    BY <1>1, <1>2, <1>10 DEF Spoken
  <2> QED BY <1>1, <1>10, <2>2, <2>3, <2>4, BackendTypes DEF Spoken, chat
<1>11. ASSUME NEW s \in Sentence, TimesOut(s)
       PROVE  TypeInv'
  <2>1. task' \in Tasks
    BY <1>1, <1>11 DEF TimesOut, Tasks, Sentence
  <2> QED BY <1>1, <1>2, <1>11, <2>1, BackendTypes DEF TimesOut, chat
<1>12. CASE CancelStream
  <2>1. task' \in Tasks
    BY <1>1, <1>12 DEF CancelStream, Tasks
  <2> QED BY <1>1, <1>12, <2>1, BackendTypes DEF CancelStream, chat
<1> QED BY <1>3, <1>4, <1>5, <1>6, <1>7, <1>8, <1>9, <1>10, <1>11, <1>12 DEF Works, Synthesis

LEMMA EffectsTypes ==
  ASSUME TypeInv, Effects
  PROVE  timer' \in BOOLEAN /\ (timer' => turn' # 0)
<1>1. CASE turn' = turn /\ audio'.playing = audio.playing
  BY <1>1 DEF Effects, TypeInv
<1>2. CASE ~(turn' = turn /\ audio'.playing = audio.playing)
  <2>1. timer' = (turn' # 0 /\ ~audio'.playing /\ full' # 0)
    BY <1>2 DEF Effects
  <2> QED BY <2>1
<1> QED BY <1>1, <1>2

\* What is silenced: the queue is empty, and the player that is known is stopped.
LEMMA SilenceIs ==
  ASSUME SpeechAssumption, TypeInv, Silence
  PROVE  /\ audio' \in Audios /\ Placed(audio') /\ audio'.next = 1 /\ audio'.busy = FALSE
         /\ \A k \in Chunk : audio'.map[k] = Absent
         /\ player' \in Players /\ pid' = NoPlayer
         /\ \A p \in Sentence : player'[p] = IF p = pid THEN "killed" ELSE player[p]
         /\ astray' \in BOOLEAN /\ interrupted' \subseteq Message /\ mixed' \in BOOLEAN
         /\ turn' = 0 /\ timer' \in BOOLEAN /\ (timer' => turn' # 0)
<1>1. /\ audio' \in Audios /\ audio'.map = Reset(audio).map /\ audio'.next = 1
      /\ audio'.busy = FALSE /\ Placed(Reset(audio))
  <2>1. audio' = [Reset(audio) EXCEPT !.playing = FALSE] /\ audio \in Audios
    BY DEF Silence, TypeInv
  <2> QED BY <2>1, ResetIs
<1>2. \A k \in Chunk : audio'.map[k] = Absent
  <2>1. \A k \in Chunk : Reset(audio).map[k] = Absent
    BY ResetIs DEF TypeInv
  <2> QED BY <1>1, <2>1
<1>3. Placed(audio')
  BY <1>1 DEF Placed
<1>4. player' \in Players /\ \A p \in Sentence : player'[p] = IF p = pid THEN "killed" ELSE player[p]
  <2>1. CASE pid = NoPlayer
    BY <2>1, NoSentence DEF Silence, TypeInv, Players
  <2>2. CASE pid # NoPlayer
    BY <2>2 DEF Silence, TypeInv, Players
  <2> QED BY <2>1, <2>2
<1>5. interrupted' \subseteq Message
  BY SpeechConstants DEF Silence, TypeInv, Message
<1>6. astray' \in BOOLEAN /\ mixed' \in BOOLEAN /\ turn' = 0 /\ Effects /\ pid' = NoPlayer
  BY DEF Silence
<1> QED BY <1>1, <1>2, <1>3, <1>4, <1>5, <1>6, EffectsTypes

\* The queue when a sentence has come.
Arrived(e) == [audio EXCEPT !.map[e.chunk] = IF e.ok THEN <<e.of, e.chunk>> ELSE Broken,
                            !.done = @ \/ e.final]

LEMMA ArrivedIs ==
  ASSUME SpeechAssumption, TypeInv, events # <<>>, Head(events).chunk # 0
  PROVE  LET e == Head(events) IN
         /\ e = events[1] /\ Len(events) \in Nat /\ Len(events) >= 1
         /\ e.of \in Message /\ e.chunk \in Chunk
         /\ Arrived(e) \in Audios /\ Placed(Arrived(e))
         /\ \A k \in Chunk : k # e.chunk => Arrived(e).map[k] = audio.map[k]
         /\ Arrived(e).map[e.chunk] \in {<<e.of, e.chunk>>, Broken}
         /\ Arrived(e).next = audio.next /\ Arrived(e).busy = audio.busy
<1>1. PICK e : e = Head(events)
  OBVIOUS
<1>2. e = events[1] /\ Len(events) \in Nat /\ Len(events) >= 1 /\ e \in Event
  BY <1>1 DEF TypeInv
<1>3. e.of \in Message /\ e.chunk \in Chunk /\ e.ok \in BOOLEAN /\ e.final \in BOOLEAN
  BY <1>1, <1>2 DEF Event
<1>4. PICK v \in {<<e.of, e.chunk>>, Broken} : v = IF e.ok THEN <<e.of, e.chunk>> ELSE Broken
  OBVIOUS
<1>5. v \in Sentence \cup {Absent, Broken} /\ (v \in Sentence => v[2] = e.chunk)
  BY <1>3, NoSentence DEF Sentence
<1>6. PICK d \in BOOLEAN : d = (audio.done \/ e.final)
  OBVIOUS
<1>7. Arrived(e) = [audio EXCEPT !.map[e.chunk] = v, !.done = d]
  BY <1>4, <1>6 DEF Arrived
<1>8. audio \in Audios /\ Placed(audio)
  BY DEF TypeInv
<1>9. /\ Arrived(e) \in Audios /\ Arrived(e).map = [audio.map EXCEPT ![e.chunk] = v]
      /\ Arrived(e).next = audio.next /\ Arrived(e).busy = audio.busy
  <2>1. \A k \in Chunk, w \in Sentence \cup {Absent, Broken}, b \in BOOLEAN :
          /\ [audio EXCEPT !.map[k] = w, !.done = b] \in Audios
          /\ [audio EXCEPT !.map[k] = w, !.done = b].map = [audio.map EXCEPT ![k] = w]
          /\ [audio EXCEPT !.map[k] = w, !.done = b].next = audio.next
          /\ [audio EXCEPT !.map[k] = w, !.done = b].busy = audio.busy
    BY <1>8 DEF Audios
  <2>2. /\ [audio EXCEPT !.map[e.chunk] = v, !.done = d] \in Audios
        /\ [audio EXCEPT !.map[e.chunk] = v, !.done = d].map = [audio.map EXCEPT ![e.chunk] = v]
        /\ [audio EXCEPT !.map[e.chunk] = v, !.done = d].next = audio.next
        /\ [audio EXCEPT !.map[e.chunk] = v, !.done = d].busy = audio.busy
    BY <1>3, <1>5, <2>1, Zenon
  <2> QED BY <1>7, <2>2, Zenon
<1>10. /\ \A k \in Chunk : k # e.chunk => Arrived(e).map[k] = audio.map[k]
       /\ Arrived(e).map[e.chunk] = v
  BY <1>3, <1>8, <1>9 DEF Audios
<1>11. Placed(Arrived(e))
  BY <1>3, <1>5, <1>8, <1>10 DEF Placed
<1> QED BY <1>1, <1>2, <1>3, <1>9, <1>10, <1>11

\* The queue of a player that is not heard any more.
Freed == [audio EXCEPT !.busy = FALSE]

LEMMA FreedIs ==
  ASSUME TypeInv
  PROVE  /\ Freed \in Audios /\ Placed(Freed) /\ Freed.map = audio.map /\ Freed.next = audio.next
         /\ Freed.busy = FALSE
<1>1. audio \in Audios /\ Placed(audio)
  BY DEF TypeInv
<1>2. Freed \in Audios /\ Freed.map = audio.map /\ Freed.next = audio.next /\ Freed.busy = FALSE
  BY <1>1 DEF Freed, Audios
<1> QED BY <1>1, <1>2 DEF Placed

\* What the steps of the queue have in common.
LEMMA QueueTypes ==
  ASSUME SpeechAssumption, TypeInv,
         UNCHANGED <<backend, cancelling, sending, turn, shown, interrupted, mixed>>,
         Effects \/ UNCHANGED timer,
         events' \in {events, Tail(events)}, events' # events => events # <<>>,
         ends' \in {ends, Tail(ends)}, ends' # ends => ends # <<>>,
         audio' \in Audios, Placed(audio'), player' \in Players, played' \in Seq(Sentence),
         overtaken' \in BOOLEAN \/ overtaken' = overtaken, pid' \in Sentence \cup {NoPlayer},
         full' \in 0 .. MaxMessages, bare' \subseteq Message, astray' \in BOOLEAN,
         troubles' \in 0 .. MaxTroubles
  PROVE  TypeInv'
<1>1. timer' \in BOOLEAN /\ (timer' => turn' # 0)
  BY EffectsTypes DEF TypeInv
<1>2. events' \in Seq(Event) /\ ends' \in Seq(Sentence)
  <2>1. events \in Seq(Event) /\ ends \in Seq(Sentence)
    BY DEF TypeInv
  <2>2. events # <<>> => Tail(events) \in Seq(Event)
    BY <2>1
  <2>3. ends # <<>> => Tail(ends) \in Seq(Sentence)
    BY <2>1
  <2>4. /\ events' = events \/ (events' = Tail(events) /\ events # <<>>)
        /\ ends' = ends \/ (ends' = Tail(ends) /\ ends # <<>>)
    OBVIOUS
  <2> QED BY <2>1, <2>2, <2>3, <2>4
<1>3. overtaken' \in BOOLEAN
  BY DEF TypeInv
<1> QED BY <1>1, <1>2, <1>3 DEF TypeInv, backend, Players

LEMMA SpeechQueueTypes ==
  ASSUME SpeechAssumption, TypeInv,
         \/ AudioReady \/ StreamEnded \/ PlaybackEnded
         \/ \E p \in Sentence : PlayerStarts(p) \/ PlayerFails(p)
  PROVE  TypeInv'
<1>1. /\ audio \in Audios /\ Placed(audio) /\ player \in Players /\ played \in Seq(Sentence)
      /\ overtaken \in BOOLEAN /\ pid \in Sentence \cup {NoPlayer} /\ full \in 0 .. MaxMessages
      /\ bare \subseteq Message /\ astray \in BOOLEAN /\ troubles \in 0 .. MaxTroubles
      /\ Message \subseteq 0 .. MaxMessages
  BY SpeechConstants DEF TypeInv, Players, Message
<1>2. CASE AudioReady
  <2>1. PICK e : e = Head(events)
    OBVIOUS
  <2>2. /\ events # <<>> /\ e.chunk # 0 /\ events' = Tail(events) /\ Effects
        /\ UNCHANGED <<backend, cancelling, pid, ends, chat, mixed, bare, astray, troubles>>
        /\ \/ PlayNext(Arrived(e), player)
           \/ audio' = Arrived(e) /\ UNCHANGED <<player, played, overtaken>>
    BY <1>2, <2>1 DEF AudioReady, Arrived
  <2>3. Arrived(e) \in Audios /\ Placed(Arrived(e))
    BY <2>1, <2>2, ArrivedIs
  <2>4. /\ audio' \in Audios /\ Placed(audio') /\ player' \in Players /\ played' \in Seq(Sentence)
        /\ overtaken' \in BOOLEAN \/ overtaken' = overtaken
    <3>1. CASE PlayNext(Arrived(e), player)
      BY <1>1, <2>3, <3>1, PlayNextIs
    <3>2. CASE audio' = Arrived(e) /\ UNCHANGED <<player, played, overtaken>>
      BY <1>1, <2>3, <3>2 DEF Placed
    <3> QED BY <2>2, <3>1, <3>2
  <2> QED BY <1>1, <2>2, <2>4, QueueTypes DEF chat
<1>3. CASE StreamEnded
  <2>1. PICK e : e = Head(events)
    OBVIOUS
  <2>2. events # <<>> /\ e.of \in Message
    BY <1>3, <2>1 DEF StreamEnded, TypeInv, Event
  <2>3. audio' = Reset(audio) \/ audio' = [audio EXCEPT !.done = TRUE]
    BY <1>3 DEF StreamEnded
  <2>4. audio' \in Audios /\ Placed(audio')
    <3>1. CASE audio' = Reset(audio)
      BY <1>1, <3>1, ResetIs DEF Placed
    <3>2. CASE audio' = [audio EXCEPT !.done = TRUE]
      <4>1. audio' \in Audios /\ audio'.map = audio.map
        BY <1>1, <3>2 DEF Audios
      <4> QED BY <1>1, <4>1 DEF Placed
    <3> QED BY <2>3, <3>1, <3>2
  <2>5. full' \in 0 .. MaxMessages /\ bare' \subseteq Message /\ astray' \in BOOLEAN /\ overtaken' \in BOOLEAN
    BY <1>1, <1>3, <2>1, <2>2 DEF StreamEnded
  <2>6. /\ UNCHANGED <<backend, cancelling, sending, turn, shown, interrupted, mixed, timer>>
        /\ UNCHANGED <<ends, player, pid, played, troubles>> /\ events' = Tail(events)
    BY <1>3 DEF StreamEnded, players
  <2> QED BY <1>1, <2>2, <2>4, <2>5, <2>6, QueueTypes
<1>4. CASE PlaybackEnded
  <2>1. /\ ends # <<>> /\ ends' = Tail(ends) /\ Effects
        /\ astray' = (astray \/ Sounding # {})
        /\ UNCHANGED <<backend, cancelling, events, pid, chat, mixed, bare, troubles>>
        /\ \/ PlayNext(Freed, player)
           \/ audio' = [audio EXCEPT !.playing = FALSE] /\ UNCHANGED <<player, played, overtaken>>
    BY <1>4 DEF PlaybackEnded, Freed
  <2>2. /\ audio' \in Audios /\ Placed(audio') /\ player' \in Players /\ played' \in Seq(Sentence)
        /\ overtaken' \in BOOLEAN \/ overtaken' = overtaken
    <3>1. CASE PlayNext(Freed, player)
      BY <1>1, <3>1, FreedIs, PlayNextIs
    <3>2. CASE audio' = [audio EXCEPT !.playing = FALSE] /\ UNCHANGED <<player, played, overtaken>>
      <4>1. audio' \in Audios /\ audio'.map = audio.map
        BY <1>1, <3>2 DEF Audios
      <4> QED BY <1>1, <3>2, <4>1 DEF Placed
    <3> QED BY <2>1, <3>1, <3>2
  <2>3. astray' \in BOOLEAN
    BY <2>1
  <2> QED BY <1>1, <2>1, <2>2, <2>3, QueueTypes DEF chat
<1>5. ASSUME NEW p \in Sentence, PlayerStarts(p)
      PROVE  TypeInv'
  <2>1. audio' \in Audios /\ audio'.map = audio.map
    BY <1>1, <1>5 DEF PlayerStarts, Audios
  <2>2. Placed(audio')
    BY <1>1, <2>1 DEF Placed
  <2>3. player' \in Players /\ pid' \in Sentence
    BY <1>1, <1>5 DEF PlayerStarts, Players
  <2> QED BY <1>1, <1>5, <2>1, <2>2, <2>3, QueueTypes DEF PlayerStarts, chat, history
<1>6. ASSUME NEW p \in Sentence, PlayerFails(p)
      PROVE  TypeInv'
  <2>1. [player EXCEPT ![p] = "none"] \in Players
    BY <1>1 DEF Players
  <2>2. PlayNext(Freed, [player EXCEPT ![p] = "none"])
    BY <1>6 DEF PlayerFails, Freed
  <2>3. /\ audio' \in Audios /\ Placed(audio') /\ player' \in Players /\ played' \in Seq(Sentence)
        /\ overtaken' \in BOOLEAN \/ overtaken' = overtaken
    BY <1>1, <2>1, <2>2, FreedIs, PlayNextIs
  <2>4. astray' \in BOOLEAN /\ troubles' \in 0 .. MaxTroubles
    BY <1>1, <1>6, SpeechConstants DEF PlayerFails, Trouble
  <2> QED BY <1>1, <1>6, <2>3, <2>4, QueueTypes DEF PlayerFails, chat
<1> QED BY <1>2, <1>3, <1>4, <1>5, <1>6

LEMMA SpeechUserTypes ==
  ASSUME SpeechAssumption, TypeInv,
         \/ \E m \in Message : Send(m) \/ Start(m)
         \/ \E p \in Sentence : PlayerEnds(p)
         \/ Interrupt \/ Escape \/ Finalize \/ Rerender
  PROVE  TypeInv'
<1>1. /\ audio \in Audios /\ Placed(audio) /\ player \in Players
      /\ astray \in BOOLEAN /\ mixed \in BOOLEAN /\ cancelling \in BOOLEAN /\ troubles \in 0 .. MaxTroubles
      /\ timer \in BOOLEAN /\ (timer => turn # 0)
      /\ Message \subseteq 0 .. MaxMessages /\ 0 \in 0 .. MaxMessages
  BY SpeechConstants DEF TypeInv, Players, Message
<1>2. ASSUME NEW m \in Message, Send(m)
      PROVE  TypeInv'
  <2>1. reply' \in [Message -> Reply]
    BY <1>2, MovesTypes DEF Send, Reply
  <2>2. CASE turn = 0
    BY <1>2, <2>1, <2>2 DEF Send, TypeInv, Placed
  <2>3. CASE turn # 0
    <3>1. cancelling' = TRUE /\ full' = 0 /\ Silence
      BY <1>2, <2>3 DEF Send
    <3> QED BY <1>1, <1>2, <2>1, <3>1, SilenceIs DEF Send, TypeInv, Players
  <2> QED BY <2>2, <2>3
<1>3. ASSUME NEW m \in Message, Start(m)
      PROVE  TypeInv'
  <2>1. reply' \in [Message -> Reply]
    BY <1>3, MovesTypes DEF Start, Reply
  <2>2. audio' = [Reset(audio) EXCEPT !.active = TRUE]
    BY <1>3 DEF Start
  <2>3. audio' \in Audios /\ audio'.map = Reset(audio).map /\ Placed(Reset(audio))
    BY <1>1, <2>2, ResetIs
  <2>4. Placed(audio')
    BY <2>3 DEF Placed
  <2>5. timer' \in BOOLEAN /\ (timer' => turn' # 0)
    BY <1>3, EffectsTypes DEF Start
  <2>6. mixed' \in BOOLEAN /\ astray' \in BOOLEAN /\ turn' \in 0 .. MaxMessages /\ full' \in 0 .. MaxMessages
    BY <1>1, <1>3 DEF Start
  <2> QED BY <1>1, <1>3, <2>1, <2>3, <2>4, <2>5, <2>6 DEF Start, TypeInv, players
<1>4. ASSUME NEW p \in Sentence, PlayerEnds(p)
      PROVE  TypeInv'
  <2>1. player' \in Players /\ pid' = NoPlayer /\ ends' \in Seq(Sentence)
    BY <1>1, <1>4 DEF PlayerEnds, TypeInv, Players
  <2> QED BY <1>4, <2>1 DEF PlayerEnds, TypeInv, Players, backend, chat, history, Placed
<1>5. CASE Interrupt
  <2>1. Silence /\ troubles' \in 0 .. MaxTroubles /\ cancelling' = TRUE /\ full' = 0 /\ sending' = FALSE
    BY <1>1, <1>5, SpeechConstants DEF Interrupt, Trouble
  <2> QED BY <1>1, <1>5, <2>1, SilenceIs DEF Interrupt, TypeInv, Players, backend
<1>6. CASE Escape
  <2>1. Silence /\ troubles' \in 0 .. MaxTroubles /\ cancelling' \in BOOLEAN /\ shown' = {} /\ sending' = FALSE
    <3>1. cancelling' \in BOOLEAN
      BY <1>1, <1>6, Zenon DEF Escape
    <3> QED BY <1>1, <1>6, <3>1, SpeechConstants DEF Escape, Trouble
  <2> QED BY <1>1, <1>6, <2>1, SilenceIs DEF Escape, TypeInv, Players, backend
<1>7. CASE Finalize
  <2>1. timer /\ turn # 0 /\ turn \in Message /\ timer' = FALSE
    BY <1>1, <1>7, SpeechConstants DEF Finalize, TypeInv, Message
  <2>2. full # 0 => full \in Message
    BY SpeechConstants DEF TypeInv, Message
  <2>3. turn' \in 0 .. MaxMessages /\ full' \in 0 .. MaxMessages /\ shown' \subseteq Message \X Message
    BY <1>1, <1>7, <2>1, <2>2 DEF Finalize, TypeInv
  <2> QED BY <1>7, <2>1, <2>3 DEF Finalize, TypeInv, backend, players, history, Placed
<1>8. CASE Rerender
  <2>1. timer' \in BOOLEAN /\ (timer' => turn # 0)
    <3>1. timer' = (turn # 0 /\ ~audio.playing /\ full # 0)
      BY <1>8 DEF Rerender
    <3> QED BY <3>1
  <2> QED BY <1>8, <2>1 DEF Rerender, TypeInv, backend, players, chat, history, Placed
<1> QED BY <1>2, <1>3, <1>4, <1>5, <1>6, <1>7, <1>8

LEMMA SpeechTypes ==
  ASSUME SpeechAssumption, TypeInv, Next
  PROVE  TypeInv'
BY SpeechBackendTypes, SpeechQueueTypes, SpeechUserTypes DEF Next, Plays

-----------------------------------------------------------------------------
(* One sentence sounds *)

LEMMA SoundsKept ==
  ASSUME OneSounds, astray' = astray, audio'.busy = audio.busy, Sounding' \subseteq Sounding
  PROVE  OneSounds'
BY DEF OneSounds

\* Steps that leave the queue and the players as they are.
LEMMA SoundsStill ==
  ASSUME OneSounds, UNCHANGED <<audio, player, astray>>
  PROVE  OneSounds'
BY DEF OneSounds, Sounding

LEMMA SpeechOneSounds ==
  ASSUME SpeechAssumption, TypeInv, OneSounds, Next
  PROVE  OneSounds'
<1>1. audio \in Audios /\ Placed(audio) /\ player \in Players /\ played \in Seq(Sentence)
      /\ astray \in BOOLEAN
  BY DEF TypeInv, Players
<1>2. ASSUME NEW m \in Message, Works(m) \/ Token(m) \/ Raises(m)
      PROVE  OneSounds'
  <2>1. UNCHANGED <<audio, player, astray>>
    BY <1>2 DEF Works, Begin, Speak, Returns, End, Answer, Token, Raises, players, history
  <2> QED BY <2>1, SoundsStill
<1>3. ASSUME NEW s \in Sentence, Synthesis(s) \/ TimesOut(s)
      PROVE  OneSounds'
  <2>1. UNCHANGED <<audio, player, astray>>
    BY <1>3 DEF Synthesis, Spoken, TimesOut, players, history
  <2> QED BY <2>1, SoundsStill
<1>4. CASE CancelStream \/ Finalize \/ Rerender
  <2>1. UNCHANGED <<audio, player, astray>>
    BY <1>4 DEF CancelStream, Finalize, Rerender, players, history
  <2> QED BY <2>1, SoundsStill
<1>5. CASE AudioReady
  <2>1. PICK e : e = Head(events)
    OBVIOUS
  <2>2. /\ events # <<>> /\ e.chunk # 0 /\ astray' = astray
        /\ \/ PlayNext(Arrived(e), player)
           \/ audio' = Arrived(e) /\ UNCHANGED <<player, played, overtaken>>
    BY <1>5, <2>1 DEF AudioReady, Arrived
  <2>3. Arrived(e) \in Audios /\ Placed(Arrived(e)) /\ Arrived(e).busy = audio.busy
    BY <2>1, <2>2, ArrivedIs
  <2>4. CASE PlayNext(Arrived(e), player)
    <3> SUFFICES ASSUME ~astray'
                 PROVE  (\A p, q \in Sounding' : p = q) /\ (~audio'.busy => Sounding' = {})
      BY DEF OneSounds
    <3>1. /\ \A p, q \in Sentence : player[p] \in {"asked", "running"} /\ player[q] \in {"asked", "running"} => p = q
          /\ ~Arrived(e).busy => \A p \in Sentence : player[p] \notin {"asked", "running"}
      BY <2>2, <2>3 DEF OneSounds, Sounding
    <3> QED BY <1>1, <2>3, <2>4, <3>1, PlayNextSounds
  <2>5. CASE audio' = Arrived(e) /\ UNCHANGED <<player, played, overtaken>>
    BY <2>2, <2>3, <2>5, SoundsKept DEF Sounding
  <2> QED BY <2>2, <2>4, <2>5
<1>6. CASE StreamEnded
  <2>1. PICK idle \in BOOLEAN : idle = (~audio.active /\ \A k \in Chunk : audio.map[k] = Absent)
    OBVIOUS
  <2>2. /\ audio' = IF idle THEN Reset(audio) ELSE [audio EXCEPT !.done = TRUE]
        /\ astray' = (astray \/ (idle /\ Sounding # {})) /\ UNCHANGED player
    BY <1>6, <2>1 DEF StreamEnded, players
  <2>3. CASE idle
    BY <2>2, <2>3 DEF OneSounds, Sounding
  <2>4. CASE ~idle
    <3>1. audio'.busy = audio.busy
      BY <1>1, <2>2, <2>4 DEF Audios
    <3>2. astray' = astray
      BY <1>1, <2>2, <2>4
    <3> QED BY <2>2, <3>1, <3>2, SoundsKept DEF Sounding
  <2> QED BY <2>3, <2>4
<1>7. CASE PlaybackEnded
  <2> SUFFICES ASSUME ~astray'
               PROVE  (\A p, q \in Sounding' : p = q) /\ (~audio'.busy => Sounding' = {})
    BY DEF OneSounds
  <2>1. /\ Sounding = {}
        /\ \/ PlayNext(Freed, player)
           \/ audio' = [audio EXCEPT !.playing = FALSE] /\ UNCHANGED <<player, played, overtaken>>
    BY <1>7 DEF PlaybackEnded, Freed
  <2>2. CASE PlayNext(Freed, player)
    <3>1. \A p \in Sentence : player[p] \notin {"asked", "running"}
      BY <2>1 DEF Sounding
    <3> QED BY <1>1, <2>2, <3>1, FreedIs, PlayNextSounds
  <2>3. CASE audio' = [audio EXCEPT !.playing = FALSE] /\ UNCHANGED <<player, played, overtaken>>
    BY <2>1, <2>3 DEF Sounding
  <2> QED BY <2>1, <2>2, <2>3
<1>8. ASSUME NEW p \in Sentence, PlayerStarts(p)
      PROVE  OneSounds'
  <2>1. audio'.busy = audio.busy /\ astray' = astray
    BY <1>1, <1>8 DEF PlayerStarts, Audios, history
  <2>2. Sounding' \subseteq Sounding
    BY <1>1, <1>8 DEF PlayerStarts, Sounding, Players
  <2> QED BY <2>1, <2>2, SoundsKept
<1>9. ASSUME NEW p \in Sentence, PlayerFails(p)
      PROVE  OneSounds'
  <2> SUFFICES ASSUME ~astray'
               PROVE  (\A s, q \in Sounding' : s = q) /\ (~audio'.busy => Sounding' = {})
    BY DEF OneSounds
  <2>1. Sounding = {p} /\ PlayNext(Freed, [player EXCEPT ![p] = "none"])
    BY <1>9 DEF PlayerFails, Freed
  <2>2. PICK others \in Players : others = [player EXCEPT ![p] = "none"]
    BY <1>1 DEF Players
  <2>3. \A q \in Sentence : others[q] \notin {"asked", "running"}
    BY <1>1, <2>1, <2>2 DEF Sounding, Players
  <2>4. PlayNext(Freed, others)
    BY <2>1, <2>2
  <2> QED BY <1>1, <2>3, <2>4, FreedIs, PlayNextSounds
<1>10. ASSUME NEW p \in Sentence, PlayerEnds(p)
       PROVE  OneSounds'
  <2>1. audio' = audio /\ astray' = astray
    BY <1>10 DEF PlayerEnds, history
  <2>2. Sounding' \subseteq Sounding
    BY <1>1, <1>10 DEF PlayerEnds, Sounding, Players
  <2> QED BY <2>1, <2>2, SoundsKept
<1>11. ASSUME Silence
       PROVE  OneSounds'
  <2> SUFFICES ASSUME ~astray'
               PROVE  Sounding' = {}
    BY <1>11 DEF OneSounds
  <2>1. Sounding \ {pid} = {}
    BY <1>11 DEF Silence
  <2>2. \A p \in Sentence : player'[p] = IF p = pid THEN "killed" ELSE player[p]
    BY <1>11, SilenceIs
  <2> QED BY <2>1, <2>2 DEF Sounding
<1>12. ASSUME NEW m \in Message, Send(m)
       PROVE  OneSounds'
  <2>1. CASE turn = 0
    BY <1>12, <2>1, SoundsStill DEF Send
  <2>2. CASE turn # 0
    BY <1>11, <1>12, <2>2 DEF Send
  <2> QED BY <2>1, <2>2
<1>13. ASSUME NEW m \in Message, Start(m)
       PROVE  OneSounds'
  <2> SUFFICES ASSUME ~astray'
               PROVE  Sounding' = {}
    BY DEF OneSounds
  <2>1. Sounding = {} /\ UNCHANGED player
    BY <1>13 DEF Start, players
  <2> QED BY <2>1 DEF Sounding
<1>14. CASE Interrupt \/ Escape
  BY <1>11, <1>14 DEF Interrupt, Escape
<1> QED BY <1>2, <1>3, <1>4, <1>5, <1>6, <1>7, <1>8, <1>9, <1>10, <1>12, <1>13, <1>14 DEF Next, Plays

-----------------------------------------------------------------------------
(* Messages in turn *)

\* Steps that leave the messages where they are; they may be mixed now.
LEMMA TurnsStill ==
  ASSUME InTurn, reply' = reply, ~mixed' => ~mixed
  PROVE  InTurn'
BY DEF InTurn

\* The next step of a message that was begun.
LEMMA TurnGoesOn ==
  ASSUME SpeechAssumption, TypeInv, InTurn, NEW m \in Message, NEW s \in Reply \ Quiet, Moves(m, s), mixed' = mixed,
         \/ At(m, {"sent", "thinking", "speaking", "draining"})
         \/ At(m, {"ended"}) /\ s = "answered"
  PROVE  InTurn'
<1>1. reply'[m] = s /\ \A n \in Message : n # m => reply'[n] = reply[n]
  BY MovesTypes
<1>2. reply[m] \notin Quiet /\ reply[m] # "none"
  BY DEF At, Quiet
<1>3. \A n \in Message : /\ reply'[n] = "none" <=> reply[n] = "none"
                         /\ reply'[n] \in Quiet <=> reply[n] \in Quiet
                         /\ reply[n] \in {"ended", "answered"} => reply'[n] \in {"ended", "answered"}
  BY <1>1, <1>2 DEF Quiet, At
<1>4. \A n \in Message : \A k \in 1 .. n - 1 : k \in Message
  BY SpeechConstants DEF Message
<1> QED BY <1>3, <1>4 DEF InTurn

LEMMA SpeechInTurn ==
  ASSUME SpeechAssumption, TypeInv, InTurn, Next
  PROVE  InTurn'
<1>1. mixed \in BOOLEAN /\ reply \in [Message -> Reply]
  BY DEF TypeInv
<1>2. \A n \in Message : \A k \in 1 .. n - 1 : k \in Message
  BY SpeechConstants DEF Message
<1>3. ASSUME NEW m \in Message, Works(m) \/ Raises(m)
      PROVE  InTurn'
  <2>1. CASE Begin(m) \/ Speak(m) \/ Returns(m) \/ End(m) \/ Raises(m)
    <3>1. PICK s \in {"thinking", "speaking", "draining", "ended"} : Moves(m, s)
      BY <2>1 DEF Begin, Speak, Returns, End, Raises
    <3>2. At(m, {"sent", "thinking", "speaking", "draining"})
      BY <2>1 DEF Begin, Speak, Returns, End, Raises, At
    <3>3. mixed' = mixed
      BY <2>1 DEF Begin, Speak, Returns, End, Raises, history
    <3> QED BY <3>1, <3>2, <3>3, TurnGoesOn DEF Reply, Quiet
  <2>2. CASE Answer(m)
    BY <2>2, TurnGoesOn DEF Answer, Reply, Quiet, history
  <2> QED BY <1>3, <2>1, <2>2 DEF Works
<1>4. ASSUME NEW m \in Message, Send(m)
      PROVE  InTurn'
  <2>1. /\ reply[m] = "none" /\ reply'[m] = "typed" /\ (~mixed' => ~mixed)
        /\ \A n \in 1 .. m - 1 : reply[n] # "none"
        /\ \A n \in Message : n # m => reply'[n] = reply[n]
    <3>1. ~mixed' => ~mixed
      BY <1>4 DEF Send, Silence
    <3>2. At(m, {"none"}) /\ Moves(m, "typed") /\ \A n \in 1 .. m - 1 : ~At(n, {"none"})
      BY <1>4 DEF Send
    <3> QED BY <1>2, <3>1, <3>2, MovesTypes DEF At, Reply
  <2>2. ASSUME NEW n \in Message, reply'[n] # "none", NEW k \in 1 .. n - 1
        PROVE  reply'[k] # "none"
    BY <1>2, <2>1, <2>2 DEF InTurn
  <2>3. ASSUME ~mixed', NEW n \in Message, reply'[n] \notin Quiet, NEW k \in 1 .. n - 1
        PROVE  reply'[k] \in {"ended", "answered"}
    BY <1>2, <2>1, <2>3 DEF InTurn, Quiet
  <2> QED BY <2>2, <2>3 DEF InTurn
<1>5. ASSUME NEW m \in Message, Start(m)
      PROVE  InTurn'
  <2>1. /\ reply[m] = "typed" /\ reply'[m] = "sent" /\ mixed' = (mixed \/ Unfinished(m))
        /\ \A n \in Message : n # m => reply'[n] = reply[n]
    <3>1. At(m, {"typed"}) /\ Moves(m, "sent") /\ mixed' = (mixed \/ Unfinished(m))
      BY <1>5 DEF Start
    <3> QED BY <3>1, MovesTypes DEF At, Reply
  <2>2. ASSUME NEW n \in Message, reply'[n] # "none", NEW k \in 1 .. n - 1
        PROVE  reply'[k] # "none"
    BY <1>2, <2>1, <2>2 DEF InTurn
  <2>3. ASSUME ~mixed', NEW n \in Message, reply'[n] \notin Quiet, NEW k \in 1 .. n - 1
        PROVE  reply'[k] \in {"ended", "answered"}
    <3>1. ~mixed /\ \A j \in Message \ {m} : ~At(j, {"typed", "sent", "thinking", "speaking", "draining"})
      BY <2>1, <2>3 DEF Unfinished
    <3>2. CASE n = m
      <4>1. k \in Message \ {m} /\ reply[k] # "none" /\ reply'[k] = reply[k]
        BY <1>2, <2>1, <3>2, SpeechConstants DEF InTurn, Message
      <4> QED BY <1>1, <3>1, <4>1 DEF At, Reply
    <3>3. CASE n # m
      BY <1>2, <2>1, <2>3, <3>1, <3>3 DEF InTurn
    <3> QED BY <3>2, <3>3
  <2> QED BY <2>2, <2>3 DEF InTurn
<1>6. CASE UNCHANGED reply /\ (~mixed' => ~mixed)
  BY <1>6, TurnsStill
<1>7. ASSUME NEW m \in Message, Token(m)
      PROVE  UNCHANGED <<reply, mixed>>
  BY <1>7 DEF Token, history
<1>8. ASSUME NEW s \in Sentence, Synthesis(s) \/ TimesOut(s) \/ Plays(s) \/ PlayerFails(s)
      PROVE  UNCHANGED <<reply, mixed>>
  BY <1>8 DEF Synthesis, Spoken, TimesOut, Plays, PlayerStarts, PlayerEnds, PlayerFails, history, backend
<1>9. CASE CancelStream \/ AudioReady \/ StreamEnded \/ PlaybackEnded \/ Finalize \/ Rerender
  BY <1>6, <1>9 DEF CancelStream, AudioReady, StreamEnded, PlaybackEnded, Finalize, Rerender,
                    history, backend
<1>10. CASE Interrupt \/ Escape
  BY <1>6, <1>10 DEF Interrupt, Escape, Silence, backend
<1> QED BY <1>3, <1>4, <1>5, <1>6, <1>7, <1>8, <1>9, <1>10 DEF Next

-----------------------------------------------------------------------------
(* A sentence comes once *)

\* What was spoken stays so.
Keeps(tk, tk2) ==
  \A m \in Message, k \in Chunk : tk[m][k] \in {"ready", "failed"} => tk2[m][k] \in {"ready", "failed"}

LEMMA EventIs ==
  ASSUME SpeechAssumption, TypeInv
  PROVE  \A i \in 1 .. Len(events) : events[i].of \in Message /\ (events[i].chunk # 0 => events[i].chunk \in Chunk)
BY DEF TypeInv, Event

LEMMA OnceStill ==
  ASSUME SpeechAssumption, TypeInv, ComesOnce, events' = events, Keeps(task, task')
  PROVE  ComesOnce'
BY EventIs DEF ComesOnce, Keeps

LEMMA OnceLess ==
  ASSUME SpeechAssumption, TypeInv, ComesOnce, events # <<>>, events' = Tail(events), task' = task
  PROVE  ComesOnce'
<1>1. /\ Len(events') = Len(events) - 1 /\ Len(events) \in Nat
      /\ \A i \in 1 .. Len(events') : events'[i] = events[i + 1] /\ i + 1 \in 1 .. Len(events)
  BY DEF TypeInv
<1>2. \A i, j \in 1 .. Len(events') : i < j => i + 1 < j + 1
  BY <1>1
<1> QED BY <1>1, <1>2 DEF ComesOnce

LEMMA OnceMore ==
  ASSUME SpeechAssumption, TypeInv, ComesOnce, NEW e, events' = Append(events, e), Keeps(task, task'),
         \/ e.chunk = 0
         \/ /\ e.of \in Message /\ e.chunk \in Chunk
            /\ task[e.of][e.chunk] \notin {"ready", "failed"} /\ task'[e.of][e.chunk] \in {"ready", "failed"}
  PROVE  ComesOnce'
<1>1. /\ Len(events') = Len(events) + 1 /\ Len(events) \in Nat /\ events'[Len(events) + 1] = e
      /\ \A i \in 1 .. Len(events) : events'[i] = events[i]
  BY DEF TypeInv
<1>2. ASSUME NEW i \in 1 .. Len(events'), events'[i].chunk # 0
      PROVE  task'[events'[i].of][events'[i].chunk] \in {"ready", "failed"}
  <2>1. CASE i = Len(events) + 1
    BY <1>1, <1>2, <2>1
  <2>2. CASE i \in 1 .. Len(events)
    BY <1>1, <1>2, <2>2, EventIs DEF ComesOnce, Keeps
  <2> QED BY <1>1, <2>1, <2>2
<1>3. ASSUME NEW i \in 1 .. Len(events'), NEW j \in 1 .. Len(events'), i < j, events'[i].chunk # 0
      PROVE  events'[i].of # events'[j].of \/ events'[i].chunk # events'[j].chunk
  <2>1. i \in 1 .. Len(events)
    BY <1>1, <1>3
  <2>2. CASE j = Len(events) + 1
    BY <1>1, <1>3, <2>1, <2>2 DEF ComesOnce
  <2>3. CASE j \in 1 .. Len(events)
    BY <1>1, <1>3, <2>1, <2>3 DEF ComesOnce
  <2> QED BY <1>1, <2>2, <2>3
<1> QED BY <1>2, <1>3 DEF ComesOnce

\* No step of a task takes back what was spoken.
LEMMA SpeechKeeps ==
  ASSUME SpeechAssumption, TypeInv, Next
  PROVE  Keeps(task, task')
<1>1. task \in Tasks
  BY DEF TypeInv
<1>2. ASSUME NEW m \in Message, Says(m)
      PROVE  Keeps(task, task')
  <2>1. PICK k \in Chunk : k = NextChunk(m)
    BY <1>2, SaysTypes
  <2>2. task[m][k] = "none"
    BY <1>2, <2>1, SaysTypes
  <2>3. PICK t \in {"open", "blank"} : task' = [task EXCEPT ![m][k] = t]
    BY <1>2, <2>1, SaysTypes
  <2>4. \A n \in Message, j \in Chunk : n # m \/ j # k => task'[n][j] = task[n][j]
    BY <1>1, <2>3 DEF Tasks
  <2> QED BY <2>2, <2>4 DEF Keeps
<1>3. ASSUME NEW s \in Sentence, NEW ok \in BOOLEAN, Spoken(s, ok)
      PROVE  Keeps(task, task')
  <2>1. task' = [task EXCEPT ![s[1]][s[2]] = IF ok THEN "ready" ELSE "failed"] /\ s[1] \in Message /\ s[2] \in Chunk
    BY <1>3 DEF Spoken, Sentence
  <2> QED BY <1>1, <2>1 DEF Keeps, Tasks
<1>4. ASSUME NEW s \in Sentence, TimesOut(s)
      PROVE  Keeps(task, task')
  <2>1. task' = [task EXCEPT ![s[1]][s[2]] = "gone"] /\ s[1] \in Message /\ s[2] \in Chunk
        /\ task[s[1]][s[2]] = "open"
    BY <1>4 DEF TimesOut, Sentence, Open
  <2> QED BY <1>1, <2>1 DEF Keeps, Tasks
<1>5. CASE CancelStream
  BY <1>1, <1>5 DEF CancelStream, Keeps, Tasks
<1>6. CASE UNCHANGED task
  BY <1>6 DEF Keeps
<1>7. ASSUME NEW m \in Message, Works(m) \/ Token(m) \/ Raises(m) \/ Send(m) \/ Start(m)
      PROVE  UNCHANGED task \/ Says(m)
  BY <1>7 DEF Works, Begin, Speak, Returns, End, Answer, Token, Raises, Send, Start
<1>8. ASSUME NEW s \in Sentence, Plays(s) \/ PlayerFails(s)
      PROVE  UNCHANGED task
  BY <1>8 DEF Plays, PlayerStarts, PlayerEnds, PlayerFails, backend
<1>9. ASSUME AudioReady \/ StreamEnded \/ PlaybackEnded \/ Interrupt \/ Escape \/ Finalize \/ Rerender
      PROVE  UNCHANGED task
  BY <1>9 DEF AudioReady, StreamEnded, PlaybackEnded, Interrupt, Escape, Finalize, Rerender, backend
<1> QED BY <1>2, <1>3, <1>4, <1>5, <1>6, <1>7, <1>8, <1>9 DEF Next, Synthesis

\* How the events change: one is added for a message that is being worked at or for a
\* sentence that was spoken, or the first is taken.
LEMMA SpeechEvents ==
  ASSUME SpeechAssumption, TypeInv, Next
  PROVE  \/ events' = events
         \/ events # <<>> /\ events' = Tail(events) /\ task' = task
         \/ \E m \in Message : /\ At(m, {"thinking", "speaking", "draining"})
                               /\ events' = Append(events, StreamEnd(m)) /\ task' = task
         \/ \E s \in Sentence, ok \in BOOLEAN : Spoken(s, ok)
<1>1. ASSUME NEW m \in Message, Works(m) \/ Token(m) \/ Raises(m)
      PROVE  \/ events' = events
             \/ /\ At(m, {"thinking", "speaking", "draining"})
                /\ events' = Append(events, StreamEnd(m)) /\ task' = task
  BY <1>1 DEF Works, Begin, Speak, Returns, End, Answer, Token, Raises, At
<1>2. ASSUME NEW m \in Message, Send(m) \/ Start(m)
      PROVE  events' = events
  BY <1>2 DEF Send, Start
<1>3. ASSUME NEW s \in Sentence, TimesOut(s) \/ Plays(s) \/ PlayerFails(s)
      PROVE  events' = events
  BY <1>3 DEF TimesOut, Plays, PlayerStarts, PlayerEnds, PlayerFails
<1>4. CASE AudioReady \/ StreamEnded
  BY <1>4 DEF AudioReady, StreamEnded, backend
<1>5. CASE CancelStream \/ PlaybackEnded \/ Interrupt \/ Escape \/ Finalize \/ Rerender
  BY <1>5 DEF CancelStream, PlaybackEnded, Interrupt, Escape, Finalize, Rerender
<1> QED BY <1>1, <1>2, <1>3, <1>4, <1>5 DEF Next, Synthesis

\* What a sentence that is spoken changes.
LEMMA SpokenIs ==
  ASSUME SpeechAssumption, TypeInv, NEW s \in Sentence, NEW ok \in BOOLEAN, Spoken(s, ok)
  PROVE  /\ s[1] \in Message /\ s[2] \in Chunk /\ task[s[1]][s[2]] = "open"
         /\ task'[s[1]][s[2]] \in {"ready", "failed"}
         /\ \E e : e.of = s[1] /\ e.chunk = s[2] /\ events' = Append(events, e)
         /\ \A t \in Sentence : t # s => task'[t[1]][t[2]] = task[t[1]][t[2]]
<1>1. s[1] \in Message /\ s[2] \in Chunk /\ task[s[1]][s[2]] = "open"
  BY DEF Spoken, Speaking, Open, Sentence
<1>2. task' = [task EXCEPT ![s[1]][s[2]] = IF ok THEN "ready" ELSE "failed"] /\ task \in Tasks
  BY DEF Spoken, TypeInv
<1>3. task'[s[1]][s[2]] \in {"ready", "failed"}
  BY <1>1, <1>2 DEF Tasks
<1>4. \A t \in Sentence : t # s => task'[t[1]][t[2]] = task[t[1]][t[2]]
  <2>1. \A t \in Sentence : t # s => t[1] # s[1] \/ t[2] # s[2]
    BY DEF Sentence
  <2> QED BY <1>1, <1>2, <2>1 DEF Tasks, Sentence
<1>5. \E e : e.of = s[1] /\ e.chunk = s[2] /\ events' = Append(events, e)
  <2>1. PICK e : e = [of |-> s[1], chunk |-> s[2], ok |-> ok, final |-> partial[s[1]] = s[2]]
    OBVIOUS
  <2> QED BY <2>1 DEF Spoken
<1> QED BY <1>1, <1>3, <1>4, <1>5

LEMMA SpeechComesOnce ==
  ASSUME SpeechAssumption, TypeInv, ComesOnce, Next
  PROVE  ComesOnce'
<1>1. Keeps(task, task')
  BY SpeechKeeps
<1>2. ASSUME NEW m \in Message, events' = Append(events, StreamEnd(m))
      PROVE  ComesOnce'
  BY <1>1, <1>2, OnceMore DEF StreamEnd
<1>3. ASSUME NEW s \in Sentence, NEW ok \in BOOLEAN, Spoken(s, ok)
      PROVE  ComesOnce'
  <2>1. PICK e : e.of = s[1] /\ e.chunk = s[2] /\ events' = Append(events, e)
    BY <1>3, SpokenIs
  <2> QED BY <1>1, <1>3, <2>1, SpokenIs, OnceMore
<1> QED BY <1>1, <1>2, <1>3, SpeechEvents, OnceStill, OnceLess

-----------------------------------------------------------------------------
(* What comes is of the message that was begun last *)

StartsNone == \A m \in Message : ~Start(m)

LEMMA WorkedIsNewest ==
  ASSUME SpeechAssumption, TypeInv, InTurn, ~mixed, NEW m \in Message,
         At(m, {"sent", "thinking", "speaking", "draining"})
  PROVE  Newest(reply, m)
<1>1. reply[m] \notin Quiet /\ reply[m] \notin {"ended", "answered"}
  BY DEF At, Quiet
<1>2. \A n \in Message : n > m => m \in 1 .. n - 1
  BY SpeechConstants DEF Message
<1> QED BY <1>1, <1>2 DEF InTurn, Newest

\* Only Start begins a message.
LEMMA NewestStays ==
  ASSUME SpeechAssumption, TypeInv, Next, StartsNone
  PROVE  /\ \A n \in Message : reply'[n] \in Quiet <=> reply[n] \in Quiet
         /\ \A m \in Message : Newest(reply', m) <=> Newest(reply, m)
<1>1. ASSUME NEW m \in Message, Works(m) \/ Raises(m) \/ Send(m), NEW n \in Message
      PROVE  reply'[n] \in Quiet <=> reply[n] \in Quiet
  <2>1. PICK s \in {"thinking", "speaking", "draining", "ended", "answered", "typed"} :
          Moves(m, s) /\ (reply[m] \in Quiet <=> s \in Quiet)
    BY <1>1 DEF Works, Begin, Speak, Returns, End, Answer, Raises, Send, At, Quiet
  <2>2. s \in Reply
    BY DEF Reply
  <2> QED BY <2>1, <2>2, MovesTypes
<1>2. ASSUME NEW m \in Message, Token(m)
      PROVE  UNCHANGED reply
  BY <1>2 DEF Token
<1>3. ASSUME NEW s \in Sentence, Synthesis(s) \/ TimesOut(s) \/ Plays(s) \/ PlayerFails(s)
      PROVE  UNCHANGED reply
  BY <1>3 DEF Synthesis, Spoken, TimesOut, Plays, PlayerStarts, PlayerEnds, PlayerFails, backend
<1>4. ASSUME CancelStream \/ AudioReady \/ StreamEnded \/ PlaybackEnded \/ Interrupt \/ Escape \/ Finalize \/ Rerender
      PROVE  UNCHANGED reply
  BY <1>4 DEF CancelStream, AudioReady, StreamEnded, PlaybackEnded, Interrupt, Escape, Finalize,
              Rerender, backend
<1>5. \A n \in Message : reply'[n] \in Quiet <=> reply[n] \in Quiet
  BY <1>1, <1>2, <1>3, <1>4 DEF Next, StartsNone
<1> QED BY <1>5 DEF Newest

LEMMA MixedStays ==
  ASSUME TypeInv, Next, ~mixed'
  PROVE  ~mixed
BY DEF Next, Works, Begin, Speak, Returns, End, Answer, Token, Raises, Send, Start, Synthesis, Spoken,
       TimesOut, Plays, PlayerStarts, PlayerEnds, PlayerFails, CancelStream, AudioReady, StreamEnded,
       PlaybackEnded, Interrupt, Escape, Finalize, Rerender, Silence, history

\* Tasks are made for the message that is being worked at.
LEMMA OpenIsNewest ==
  ASSUME SpeechAssumption, TypeInv, InTurn, OfNewest, Next, StartsNone, ~mixed,
         NEW s \in Sentence, task'[s[1]][s[2]] = "open"
  PROVE  Newest(reply, s[1])
<1>1. task \in Tasks /\ s[1] \in Message /\ s[2] \in Chunk
  BY DEF TypeInv, Sentence
<1>2. task[s[1]][s[2]] = "open" => Newest(reply, s[1])
  BY DEF OfNewest
<1>3. ASSUME NEW m \in Message, Says(m), At(m, {"speaking"})
      PROVE  Newest(reply, s[1])
  <2>1. PICK k \in Chunk : k = NextChunk(m)
    BY <1>3, SaysTypes
  <2>2. PICK t \in {"open", "blank"} : task' = [task EXCEPT ![m][k] = t]
    BY <1>3, <2>1, SaysTypes
  <2>3. s[1] # m => task[s[1]][s[2]] = "open"
    BY <1>1, <2>2 DEF Tasks
  <2>4. Newest(reply, m)
    BY <1>3, WorkedIsNewest DEF At
  <2> QED BY <1>2, <2>3, <2>4
<1>4. ASSUME NEW r \in Sentence, NEW ok \in BOOLEAN, Spoken(r, ok)
      PROVE  Newest(reply, s[1])
  BY <1>2, <1>4, SpokenIs
<1>5. ASSUME NEW r \in Sentence, TimesOut(r)
      PROVE  Newest(reply, s[1])
  <2>1. task' = [task EXCEPT ![r[1]][r[2]] = "gone"]
    BY <1>5 DEF TimesOut
  <2>2. task[s[1]][s[2]] = "open"
    BY <1>1, <2>1 DEF Tasks, Sentence
  <2> QED BY <1>2, <2>2
<1>6. CASE CancelStream
  <2>1. task[s[1]][s[2]] = "open"
    BY <1>1, <1>6 DEF CancelStream
  <2> QED BY <1>2, <2>1
<1>7. CASE UNCHANGED task
  BY <1>2, <1>7
<1>8. ASSUME NEW m \in Message, Works(m) \/ Token(m) \/ Raises(m) \/ Send(m)
      PROVE  UNCHANGED task \/ (Says(m) /\ At(m, {"speaking"}))
  BY <1>8 DEF Works, Begin, Speak, Returns, End, Answer, Token, Raises, Send
<1>9. ASSUME NEW r \in Sentence, Plays(r) \/ PlayerFails(r)
      PROVE  UNCHANGED task
  BY <1>9 DEF Plays, PlayerStarts, PlayerEnds, PlayerFails, backend
<1>10. ASSUME AudioReady \/ StreamEnded \/ PlaybackEnded \/ Interrupt \/ Escape \/ Finalize \/ Rerender
       PROVE  UNCHANGED task
  BY <1>10 DEF AudioReady, StreamEnded, PlaybackEnded, Interrupt, Escape, Finalize, Rerender, backend
<1> QED BY <1>3, <1>4, <1>5, <1>6, <1>7, <1>8, <1>9, <1>10 DEF Next, Synthesis, StartsNone

LEMMA EventIsNewest ==
  ASSUME SpeechAssumption, TypeInv, InTurn, OfNewest, Next, ~mixed,
         NEW i \in 1 .. Len(events')
  PROVE  Newest(reply, events'[i].of)
<1>1. events \in Seq(Event) /\ \A j \in 1 .. Len(events) : Newest(reply, events[j].of)
  BY DEF TypeInv, OfNewest
<1>2. CASE events' = events
  BY <1>1, <1>2
<1>3. CASE events # <<>> /\ events' = Tail(events)
  <2>1. events'[i] = events[i + 1] /\ i + 1 \in 1 .. Len(events)
    BY <1>1, <1>3
  <2> QED BY <1>1, <2>1
<1>4. ASSUME NEW e, events' = Append(events, e), Newest(reply, e.of)
      PROVE  Newest(reply, events'[i].of)
  <2>1. events'[i] = e \/ (i \in 1 .. Len(events) /\ events'[i] = events[i])
    BY <1>1, <1>4
  <2> QED BY <1>1, <1>4, <2>1
<1>5. ASSUME NEW m \in Message, At(m, {"thinking", "speaking", "draining"}), events' = Append(events, StreamEnd(m))
      PROVE  Newest(reply, events'[i].of)
  <2>1. Newest(reply, m) /\ StreamEnd(m).of = m
    BY <1>5, WorkedIsNewest DEF At, StreamEnd
  <2> QED BY <1>4, <1>5, <2>1
<1>6. ASSUME NEW s \in Sentence, NEW ok \in BOOLEAN, Spoken(s, ok)
      PROVE  Newest(reply, events'[i].of)
  <2>1. PICK e : e.of = s[1] /\ e.chunk = s[2] /\ events' = Append(events, e)
    BY <1>6, SpokenIs
  <2>2. Newest(reply, s[1])
    BY <1>6, SpokenIs DEF OfNewest
  <2> QED BY <1>4, <2>1, <2>2
<1> QED BY <1>2, <1>3, <1>5, <1>6, SpeechEvents

\* The text that is kept is of the message of the moment.
LEMMA TextIsNewest ==
  ASSUME SpeechAssumption, TypeInv, InTurn, OfNewest, Next, StartsNone, ~mixed
  PROVE  /\ turn' # 0 => Newest(reply, turn') /\ full' \in {0, turn'}
         /\ \A t \in shown' : t[1] = t[2]
<1>1. /\ turn # 0 => Newest(reply, turn) /\ full \in {0, turn} /\ turn \in Message
      /\ \A t \in shown : t[1] = t[2]
      /\ timer => turn # 0
  BY SpeechConstants DEF OfNewest, TypeInv, Message
<1>2. CASE UNCHANGED <<turn, full, shown>>
  BY <1>1, <1>2
<1>3. CASE turn' = 0 /\ shown' \in {shown, {}}
  BY <1>1, <1>3
<1>4. CASE StreamEnded
  <2>1. PICK e : e = Head(events)
    OBVIOUS
  <2>2. /\ events # <<>> /\ UNCHANGED <<turn, shown>>
        /\ full' = IF turn = 0 THEN full ELSE e.of
    BY <1>4, <2>1 DEF StreamEnded
  <2>3. Newest(reply, e.of) /\ e.of \in Message
    <3>1. e = events[1] /\ 1 \in 1 .. Len(events)
      BY <2>1, <2>2 DEF TypeInv
    <3> QED BY <3>1, EventIs DEF OfNewest
  <2>4. turn # 0 => e.of = turn
    BY <1>1, <2>3, SpeechConstants DEF Newest, Message
  <2> QED BY <1>1, <2>2, <2>4
<1>5. CASE Finalize
  <2>1. \/ UNCHANGED <<turn, full, shown>>
        \/ timer /\ full # 0 /\ turn' = 0 /\ shown' = shown \cup {<<turn, full>>}
    BY <1>5 DEF Finalize
  <2>2. ASSUME timer, full # 0, shown' = shown \cup {<<turn, full>>}
        PROVE  \A t \in shown' : t[1] = t[2]
    <3>1. full = turn
      BY <1>1, <2>2
    <3>2. \A t \in shown' : t \in shown \/ (t[1] = turn /\ t[2] = full)
      BY <2>2
    <3> QED BY <1>1, <3>1, <3>2
  <2> QED BY <1>2, <2>1, <2>2
<1>6. ASSUME NEW m \in Message, Works(m) \/ Token(m) \/ Raises(m)
      PROVE  UNCHANGED <<turn, full, shown>>
  BY <1>6 DEF Works, Begin, Speak, Returns, End, Answer, Token, Raises, chat
<1>7. ASSUME NEW m \in Message, Send(m)
      PROVE  UNCHANGED <<turn, full, shown>> \/ (turn' = 0 /\ shown' = shown)
  BY <1>7 DEF Send, Silence
<1>8. ASSUME NEW s \in Sentence, Synthesis(s) \/ TimesOut(s) \/ Plays(s) \/ PlayerFails(s)
      PROVE  UNCHANGED <<turn, full, shown>>
  BY <1>8 DEF Synthesis, Spoken, TimesOut, Plays, PlayerStarts, PlayerEnds, PlayerFails, chat
<1>9. CASE CancelStream \/ AudioReady \/ PlaybackEnded \/ Rerender
  BY <1>2, <1>9 DEF CancelStream, AudioReady, PlaybackEnded, Rerender, chat
<1>10. CASE Interrupt \/ Escape
  BY <1>3, <1>10 DEF Interrupt, Escape, Silence
<1> QED BY <1>2, <1>3, <1>4, <1>5, <1>6, <1>7, <1>8, <1>9, <1>10 DEF Next, StartsNone

\* A message is begun when nothing is to come any more.
LEMMA StartIsClean ==
  ASSUME SpeechAssumption, TypeInv, InTurn, NEW m \in Message, Start(m), ~mixed'
  PROVE  /\ Open = {} /\ events = <<>> /\ reply[m] = "typed"
         /\ Newest(reply', m) /\ \A n \in Message : Newest(reply', n) => n = m
         /\ \A n \in Message : reply[n] \notin Quiet => reply'[n] \notin Quiet
<1>1. /\ ~Unfinished(m) /\ ~mixed /\ At(m, {"typed"}) /\ Moves(m, "sent")
  BY DEF Start, TypeInv
<1>2. reply[m] = "typed" /\ reply'[m] = "sent" /\ \A n \in Message : n # m => reply'[n] = reply[n]
  BY <1>1, MovesTypes DEF At, Reply
<1>3. Open = {} /\ events = <<>>
  BY <1>1 DEF Unfinished
<1>4. ASSUME NEW n \in Message, n > m
      PROVE  reply'[n] \in Quiet
  <2>1. reply[m] \notin {"ended", "answered"} /\ m \in 1 .. n - 1
    BY <1>2, <1>4, SpeechConstants DEF Message
  <2> QED BY <1>1, <1>2, <1>4, <2>1, SpeechConstants DEF InTurn, Message
<1>5. Newest(reply', m)
  BY <1>2, <1>4 DEF Newest, Quiet
<1>6. \A n \in Message : Newest(reply', n) => n = m
  BY <1>5, SpeechConstants DEF Newest, Message
<1> QED BY <1>2, <1>3, <1>5, <1>6 DEF Quiet

LEMMA SpeechOfNewest ==
  ASSUME SpeechAssumption, TypeInv, InTurn, OfNewest, Next
  PROVE  OfNewest'
<1> SUFFICES ASSUME ~mixed'
             PROVE  /\ \A s \in Sentence : task'[s[1]][s[2]] = "open" => Newest(reply', s[1])
                    /\ \A i \in 1 .. Len(events') : Newest(reply', events'[i].of)
                    /\ turn' # 0 => Newest(reply', turn') /\ full' \in {0, turn'}
                    /\ \A t \in shown' : t[1] = t[2]
  BY DEF OfNewest
<1>1. ~mixed /\ TypeInv'
  BY MixedStays, SpeechTypes
<1>2. ASSUME NEW m \in Message, Start(m)
      PROVE  /\ \A s \in Sentence : task'[s[1]][s[2]] = "open" => Newest(reply', s[1])
             /\ \A i \in 1 .. Len(events') : Newest(reply', events'[i].of)
             /\ turn' # 0 => Newest(reply', turn') /\ full' \in {0, turn'}
             /\ \A t \in shown' : t[1] = t[2]
  <2>1. task' = task /\ events' = events /\ turn' = m /\ full' = 0 /\ shown' = shown
    BY <1>2 DEF Start
  <2>2. Open = {} /\ events = <<>> /\ Newest(reply', m)
    BY <1>2, StartIsClean
  <2> QED BY <1>1, <2>1, <2>2 DEF OfNewest, Open
<1>3. CASE StartsNone
  <2>1. \A m \in Message : Newest(reply', m) <=> Newest(reply, m)
    BY <1>3, NewestStays
  <2>2. \A s \in Sentence : s[1] \in Message
    BY DEF Sentence
  <2>3. \A i \in 1 .. Len(events') : events'[i].of \in Message
    BY <1>1 DEF TypeInv, Event
  <2>4. turn' # 0 => turn' \in Message
    BY <1>1, SpeechConstants DEF TypeInv, Message
  <2> QED BY <1>1, <1>3, <2>1, <2>2, <2>3, <2>4, OpenIsNewest, EventIsNewest, TextIsNewest
<1> QED BY <1>2, <1>3 DEF StartsNone

-----------------------------------------------------------------------------
(* The queue plays in order *)

\* Neither the newest message changes, nor is a sentence to come that had come.
LEMMA QueueKept ==
  ASSUME SpeechAssumption, NEW rp, NEW rp2, NEW tk, NEW tk2, NEW ev, NEW ev2,
         NEW a \in Audios, Placed(a), NEW pl \in Seq(Sentence), QueueInv(rp, tk, ev, a, pl),
         \A n \in Message : rp2[n] \in Quiet <=> rp[n] \in Quiet,
         Keeps(tk, tk2),
         \A m \in Message, k \in Chunk :
           tk[m][k] \in {"ready", "failed"} /\ OnItsWay(ev2, m, k) => OnItsWay(ev, m, k)
  PROVE  QueueInv(rp2, tk2, ev2, a, pl)
<1>1. \A m \in Message : Newest(rp2, m) <=> Newest(rp, m)
  BY DEF Newest
<1>2. \A m \in Message, k \in Chunk : Past(tk, ev, a, m, k) => Past(tk2, ev2, a, m, k)
  BY DEF Past, Keeps
<1>3. \A i \in 1 .. Len(pl) : /\ pl[i] \in Sentence /\ pl[i][1] \in Message
                              /\ \A k \in 1 .. pl[i][2] : k \in Chunk
  BY SpeechConstants DEF Sentence, Chunk
<1>4. \A k \in Chunk : a.map[k] \in Sentence => a.map[k][1] \in Message
  BY DEF Sentence
<1>5. \A k \in 1 .. a.next - 1 : k \in Chunk
  BY SpeechConstants DEF Audios, Chunk
<1>6. \A k \in Chunk : a.map[k] \in Sentence => Newest(rp2, a.map[k][1])
  BY <1>1, <1>4 DEF QueueInv
<1>7. \A m \in Message, k \in Chunk : Newest(rp2, m) /\ a.map[k] # Absent =>
        tk2[m][k] \in {"ready", "failed"} /\ ~OnItsWay(ev2, m, k)
  BY <1>1 DEF QueueInv, Keeps
<1>8. \A i \in 1 .. Len(pl) : rp2[pl[i][1]] \notin Quiet
  BY <1>3 DEF QueueInv
<1>9. \A i \in 1 .. Len(pl) : Newest(rp2, pl[i][1]) =>
        \A k \in 1 .. pl[i][2] : Past(tk2, ev2, a, pl[i][1], k)
  BY <1>1, <1>2, <1>3 DEF QueueInv
<1>10. \A m \in Message : Newest(rp2, m) => \A k \in 1 .. a.next - 1 : Past(tk2, ev2, a, m, k)
  BY <1>1, <1>2, <1>5 DEF QueueInv
<1>11. \A i, j \in 1 .. Len(pl) : i < j => Older(pl[i], pl[j])
  BY DEF QueueInv
<1> QED BY <1>6, <1>7, <1>8, <1>9, <1>10, <1>11 DEF QueueInv

\* The queue is emptied.
LEMMA QueueEmptied ==
  ASSUME SpeechAssumption, NEW rp, NEW tk, NEW ev, NEW a, NEW b,
         NEW pl \in Seq(Sentence), QueueInv(rp, tk, ev, a, pl),
         b.next = 1, \A k \in Chunk : b.map[k] = Absent
  PROVE  QueueInv(rp, tk, ev, b, pl)
<1>1. \A i \in 1 .. Len(pl) : /\ pl[i] \in Sentence /\ pl[i][1] \in Message
                              /\ \A k \in 1 .. pl[i][2] : k \in Chunk
  BY SpeechConstants DEF Sentence, Chunk
<1>2. \A m, k : k \in Chunk /\ Past(tk, ev, a, m, k) => Past(tk, ev, b, m, k)
  BY DEF Past
<1>3. \A i \in 1 .. Len(pl) : Newest(rp, pl[i][1]) =>
        \A k \in 1 .. pl[i][2] : Past(tk, ev, b, pl[i][1], k)
  BY <1>1, <1>2 DEF QueueInv
<1>4. \A k \in Chunk : b.map[k] \notin Sentence
  BY NoSentence
<1> QED BY <1>3, <1>4 DEF QueueInv

\* The queue is the same but for what does not matter here.
LEMMA QueueAlike ==
  ASSUME NEW rp, NEW tk, NEW ev, NEW a, NEW b, NEW pl, QueueInv(rp, tk, ev, a, pl),
         b.next = a.next, b.map = a.map
  PROVE  QueueInv(rp, tk, ev, b, pl)
BY DEF QueueInv, Past

\* Less is on its way.
LEMMA LessOnItsWay ==
  ASSUME SpeechAssumption, TypeInv, events # <<>>, NEW m, NEW k, OnItsWay(Tail(events), m, k)
  PROVE  OnItsWay(events, m, k)
<1>1. PICK i \in 1 .. Len(Tail(events)) : Tail(events)[i].of = m /\ Tail(events)[i].chunk = k
  BY DEF OnItsWay
<1>2. i + 1 \in 1 .. Len(events) /\ events[i + 1] = Tail(events)[i]
  BY <1>1 DEF TypeInv
<1> QED BY <1>1, <1>2 DEF OnItsWay

\* Events of sentences that are not past come on their way, or none.
LEMMA NoneComesBack ==
  ASSUME SpeechAssumption, TypeInv, Next, NEW m \in Message, NEW k \in Chunk,
         task[m][k] \in {"ready", "failed"}, OnItsWay(events', m, k)
  PROVE  OnItsWay(events, m, k)
<1>1. PICK i \in 1 .. Len(events') : events'[i].of = m /\ events'[i].chunk = k
  BY DEF OnItsWay
<1>2. ASSUME NEW e, events' = Append(events, e), e.chunk # k \/ e.of # m
      PROVE  OnItsWay(events, m, k)
  <2>1. i \in 1 .. Len(events) /\ events'[i] = events[i]
    BY <1>1, <1>2 DEF TypeInv
  <2> QED BY <1>1, <2>1 DEF OnItsWay
<1>3. ASSUME NEW n \in Message, events' = Append(events, StreamEnd(n))
      PROVE  OnItsWay(events, m, k)
  <2>1. StreamEnd(n).chunk # k
    BY DEF StreamEnd, Chunk
  <2> QED BY <1>2, <1>3, <2>1
<1>4. ASSUME NEW s \in Sentence, NEW ok \in BOOLEAN, Spoken(s, ok)
      PROVE  OnItsWay(events, m, k)
  <2>1. PICK e : e.of = s[1] /\ e.chunk = s[2] /\ events' = Append(events, e)
    BY <1>4, SpokenIs
  <2>2. s[1] # m \/ s[2] # k
    BY <1>4, SpokenIs
  <2> QED BY <1>2, <2>1, <2>2
<1> QED BY <1>3, <1>4, SpeechEvents, LessOnItsWay

\* A sentence comes: it was past neither for the queue nor for what was played.
LEMMA QueueArrives ==
  ASSUME SpeechAssumption, TypeInv, OfNewest, ComesOnce, ~mixed,
         QueueInv(reply, task, events, audio, played),
         events # <<>>, Head(events).chunk # 0
  PROVE  QueueInv(reply, task, Tail(events), Arrived(Head(events)), played)
<1>1. PICK e : e = Head(events)
  OBVIOUS
<1>2. PICK a : a = Arrived(e)
  OBVIOUS
<1>3. /\ e = events[1] /\ Len(events) \in Nat /\ Len(events) >= 1
      /\ e.of \in Message /\ e.chunk \in Chunk /\ a \in Audios /\ Placed(a)
      /\ \A k \in Chunk : k # e.chunk => a.map[k] = audio.map[k]
      /\ a.map[e.chunk] \in {<<e.of, e.chunk>>, Broken} /\ a.next = audio.next
  BY <1>1, <1>2, ArrivedIs
<1>4. 1 \in 1 .. Len(events) /\ e.chunk # 0
  BY <1>1, <1>3
<1>5. /\ Newest(reply, e.of) /\ task[e.of][e.chunk] \in {"ready", "failed"}
      /\ OnItsWay(events, e.of, e.chunk)
  <2>1. Newest(reply, e.of)
    BY <1>3, <1>4 DEF OfNewest
  <2>2. task[e.of][e.chunk] \in {"ready", "failed"}
    BY <1>3, <1>4 DEF ComesOnce
  <2>3. OnItsWay(events, e.of, e.chunk)
    BY <1>3, <1>4 DEF OnItsWay
  <2> QED BY <2>1, <2>2, <2>3
<1>6. ~OnItsWay(Tail(events), e.of, e.chunk)
  <2> SUFFICES ASSUME NEW i \in 1 .. Len(Tail(events)), Tail(events)[i].of = e.of, Tail(events)[i].chunk = e.chunk
               PROVE  FALSE
    BY DEF OnItsWay
  <2>1. i + 1 \in 1 .. Len(events) /\ events[i + 1] = Tail(events)[i] /\ 1 < i + 1
    BY <1>3 DEF TypeInv
  <2> QED BY <1>3, <1>4, <2>1 DEF ComesOnce
<1>7. \A m \in Message : Newest(reply, m) => m = e.of
  BY <1>3, <1>5, SpeechConstants DEF Newest, Message
<1>8. \A m, k : OnItsWay(Tail(events), m, k) => OnItsWay(events, m, k)
  BY <1>1, LessOnItsWay
<1>9. ASSUME NEW k \in Chunk, Past(task, events, audio, e.of, k)
      PROVE  Past(task, Tail(events), a, e.of, k)
  <2>1. k # e.chunk
    BY <1>5, <1>9 DEF Past
  <2> QED BY <1>3, <1>8, <1>9, <2>1 DEF Past
<1>10. /\ \A i \in 1 .. Len(played) : /\ played[i] \in Sentence /\ played[i][1] \in Message
                                      /\ \A k \in 1 .. played[i][2] : k \in Chunk
       /\ \A k \in 1 .. audio.next - 1 : k \in Chunk
  <2>1. played \in Seq(Sentence) /\ audio.next \in 1 .. MaxChunks + 1
    BY DEF TypeInv, Audios
  <2>2. \A i \in 1 .. Len(played) : played[i] \in Sentence
    BY <2>1
  <2>3. \A s \in Sentence : s[1] \in Message /\ \A k \in 1 .. s[2] : k \in Chunk
    BY SpeechConstants DEF Sentence, Chunk
  <2> QED BY <2>1, <2>2, <2>3, SpeechConstants DEF Chunk
<1>11. \A k \in Chunk : a.map[k] \in Sentence => Newest(reply, a.map[k][1])
  <2> SUFFICES ASSUME NEW k \in Chunk, a.map[k] \in Sentence
               PROVE  Newest(reply, a.map[k][1])
    OBVIOUS
  <2>1. CASE k = e.chunk
    <3>1. a.map[k] = <<e.of, e.chunk>>
      BY <1>3, <2>1, NoSentence
    <3> QED BY <1>5, <3>1
  <2>2. CASE k # e.chunk
    BY <1>3, <2>2 DEF QueueInv
  <2> QED BY <2>1, <2>2
<1>12. \A m \in Message, k \in Chunk : Newest(reply, m) /\ a.map[k] # Absent =>
         task[m][k] \in {"ready", "failed"} /\ ~OnItsWay(Tail(events), m, k)
  BY <1>3, <1>5, <1>6, <1>7, <1>8 DEF QueueInv
<1>13. \A i \in 1 .. Len(played) : Newest(reply, played[i][1]) =>
         \A k \in 1 .. played[i][2] : Past(task, Tail(events), a, played[i][1], k)
  BY <1>7, <1>9, <1>10 DEF QueueInv
<1>14. \A m \in Message : Newest(reply, m) => \A k \in 1 .. a.next - 1 : Past(task, Tail(events), a, m, k)
  BY <1>3, <1>7, <1>9, <1>10 DEF QueueInv
<1> QED BY <1>1, <1>2, <1>11, <1>12, <1>13, <1>14 DEF QueueInv

LEMMA SpeechQueue ==
  ASSUME SpeechAssumption, TypeInv, InTurn, OfNewest, ComesOnce, Next, ~mixed',
         QueueInv(reply, task, events, audio, played)
  PROVE  QueueInv(reply', task', events', audio', played')
<1>1. /\ audio \in Audios /\ Placed(audio) /\ player \in Players /\ played \in Seq(Sentence)
  BY DEF TypeInv, Players
<1>2. ~mixed /\ Keeps(task, task')
  BY MixedStays, SpeechKeeps
<1>3. ASSUME StartsNone, NEW a \in Audios, Placed(a), QueueInv(reply, task, events, a, played)
      PROVE  QueueInv(reply', task', events', a, played)
  BY <1>1, <1>2, <1>3, NewestStays, NoneComesBack, QueueKept
<1>4. ASSUME StartsNone, audio'.next = audio.next, audio'.map = audio.map, played' = played
      PROVE  QueueInv(reply', task', events', audio', played')
  <2>1. QueueInv(reply', task', events', audio, played)
    BY <1>1, <1>3, <1>4
  <2> QED BY <1>4, <2>1, QueueAlike
<1>5. ASSUME StartsNone, audio'.next = 1, \A k \in Chunk : audio'.map[k] = Absent, played' = played
      PROVE  QueueInv(reply', task', events', audio', played')
  <2>1. QueueInv(reply', task', events', audio, played)
    BY <1>1, <1>3, <1>5
  <2> QED BY <1>1, <1>5, <2>1, QueueEmptied
<1>6. ASSUME NEW m \in Message, Start(m)
      PROVE  QueueInv(reply', task', events', audio', played')
  <2>1. task' = task /\ events' = events /\ played' = played /\ audio' = [Reset(audio) EXCEPT !.active = TRUE]
    BY <1>6 DEF Start
  <2>2. audio'.next = 1 /\ audio'.map = Reset(audio).map
    BY <1>1, <2>1, ResetIs
  <2>3. \A k \in Chunk : audio'.map[k] = Absent
    <3>1. \A k \in Chunk : Reset(audio).map[k] = Absent
      BY <1>1, ResetIs
    <3> QED BY <2>2, <3>1
  <2>4. /\ reply[m] \in Quiet /\ \A n \in Message : Newest(reply', n) => n = m
        /\ \A n \in Message : reply[n] \notin Quiet => reply'[n] \notin Quiet
    BY <1>6, StartIsClean DEF Quiet
  <2>5. \A i \in 1 .. Len(played) : played[i][1] \in Message /\ reply[played[i][1]] \notin Quiet
    BY <1>1 DEF QueueInv, Sentence
  <2>6. \A i \in 1 .. Len(played) : ~Newest(reply', played[i][1]) /\ reply'[played[i][1]] \notin Quiet
    BY <2>4, <2>5
  <2>7. \A k \in Chunk : audio'.map[k] \notin Sentence
    BY <2>3, NoSentence
  <2> QED BY <2>1, <2>2, <2>3, <2>6, <2>7 DEF QueueInv
<1>7. CASE StartsNone /\ AudioReady
  <2>1. PICK e : e = Head(events)
    OBVIOUS
  <2>2. /\ events # <<>> /\ e.chunk # 0 /\ events' = Tail(events) /\ UNCHANGED <<reply, task>>
        /\ \/ PlayNext(Arrived(e), player)
           \/ audio' = Arrived(e) /\ played' = played
    BY <1>7, <2>1 DEF AudioReady, Arrived, backend
  <2>3. Arrived(e) \in Audios /\ Placed(Arrived(e))
    BY <2>1, <2>2, ArrivedIs
  <2>4. QueueInv(reply, task, Tail(events), Arrived(e), played)
    BY <1>2, <2>1, <2>2, QueueArrives
  <2>5. CASE PlayNext(Arrived(e), player)
    <3>1. PICK ev : ev = Tail(events)
      OBVIOUS
    <3>2. QueueInv(reply, task, ev, audio', played')
      BY <1>1, <2>3, <2>4, <2>5, <3>1, PlayNextQueue
    <3> QED BY <2>2, <3>1, <3>2
  <2>6. CASE audio' = Arrived(e) /\ played' = played
    BY <2>2, <2>4, <2>6
  <2> QED BY <2>2, <2>5, <2>6
<1>8. CASE StartsNone /\ StreamEnded
  <2>1. /\ audio' = Reset(audio) \/ audio' = [audio EXCEPT !.done = TRUE]
        /\ played' = played
    BY <1>8 DEF StreamEnded
  <2>2. CASE audio' = Reset(audio)
    <3>1. audio'.next = 1 /\ \A k \in Chunk : audio'.map[k] = Absent
      BY <1>1, <2>2, ResetIs
    <3> QED BY <1>5, <1>8, <2>1, <3>1
  <2>3. CASE audio' = [audio EXCEPT !.done = TRUE]
    <3>1. audio'.next = audio.next /\ audio'.map = audio.map
      BY <1>1, <2>3 DEF Audios
    <3> QED BY <1>4, <1>8, <2>1, <3>1
  <2> QED BY <2>1, <2>2, <2>3
<1>9. ASSUME NEW others \in Players, PlayNext(Freed, others), UNCHANGED <<reply, task, events>>
      PROVE  QueueInv(reply', task', events', audio', played')
  <2>1. Freed \in Audios /\ Placed(Freed) /\ QueueInv(reply, task, events, Freed, played)
    BY FreedIs, QueueAlike
  <2>2. QueueInv(reply, task, events, audio', played')
    BY <1>1, <1>9, <2>1, PlayNextQueue
  <2> QED BY <1>9, <2>2
<1>10. CASE StartsNone /\ PlaybackEnded
  <2>1. /\ UNCHANGED <<reply, task, events>>
        /\ \/ PlayNext(Freed, player)
           \/ audio' = [audio EXCEPT !.playing = FALSE] /\ played' = played
    BY <1>10 DEF PlaybackEnded, Freed, backend
  <2>2. CASE PlayNext(Freed, player)
    BY <1>1, <1>9, <2>1, <2>2
  <2>3. CASE audio' = [audio EXCEPT !.playing = FALSE] /\ played' = played
    <3>1. audio'.next = audio.next /\ audio'.map = audio.map
      BY <1>1, <2>3 DEF Audios
    <3> QED BY <1>4, <1>10, <2>3, <3>1
  <2> QED BY <2>1, <2>2, <2>3
<1>11. ASSUME NEW p \in Sentence, PlayerFails(p)
       PROVE  QueueInv(reply', task', events', audio', played')
  <2>1. PICK others \in Players : others = [player EXCEPT ![p] = "none"]
    BY <1>1 DEF Players
  <2>2. PlayNext(Freed, others) /\ UNCHANGED <<reply, task, events>>
    BY <1>11, <2>1 DEF PlayerFails, Freed, backend
  <2> QED BY <1>9, <2>2
<1>12. ASSUME StartsNone, NEW p \in Sentence, Plays(p)
       PROVE  QueueInv(reply', task', events', audio', played')
  <2>1. audio'.next = audio.next /\ audio'.map = audio.map /\ played' = played
    BY <1>1, <1>12 DEF Plays, PlayerStarts, PlayerEnds, history, Audios
  <2> QED BY <1>4, <1>12, <2>1
<1>13. ASSUME StartsNone, Silence, played' = played
       PROVE  QueueInv(reply', task', events', audio', played')
  BY <1>5, <1>13, SilenceIs
<1>14. CASE StartsNone /\ (Interrupt \/ Escape)
  BY <1>13, <1>14 DEF Interrupt, Escape
<1>15. ASSUME StartsNone, NEW m \in Message, Send(m)
       PROVE  QueueInv(reply', task', events', audio', played')
  <2>1. played' = played /\ (audio' = audio \/ Silence)
    BY <1>15 DEF Send
  <2> QED BY <1>4, <1>13, <1>15, <2>1
<1>16. ASSUME NEW m \in Message, Works(m) \/ Token(m) \/ Raises(m)
       PROVE  UNCHANGED <<audio, played>>
  BY <1>16 DEF Works, Begin, Speak, Returns, End, Answer, Token, Raises, history
<1>17. ASSUME NEW s \in Sentence, Synthesis(s) \/ TimesOut(s)
       PROVE  UNCHANGED <<audio, played>>
  BY <1>17 DEF Synthesis, Spoken, TimesOut, history
<1>18. ASSUME CancelStream \/ Finalize \/ Rerender
       PROVE  UNCHANGED <<audio, played>>
  BY <1>18 DEF CancelStream, Finalize, Rerender, history
<1>19. CASE StartsNone /\ UNCHANGED <<audio, played>>
  BY <1>4, <1>19
<1>20. CASE StartsNone
  BY <1>7, <1>8, <1>10, <1>11, <1>12, <1>14, <1>15, <1>16, <1>17, <1>18, <1>19, <1>20 DEF Next, StartsNone
<1> QED BY <1>6, <1>20 DEF StartsNone

-----------------------------------------------------------------------------
(* What is invariant, and what it means *)

LEMMA SpeechInit ==
  ASSUME SpeechAssumption, Init
  PROVE  SpeechInv
<1>1. TypeInv
  BY SpeechInitTypes
<1>2. OneSounds
  BY DEF Init, OneSounds, Sounding
<1>3. \A n \in Message : reply[n] = "none" /\ \A k \in Chunk : task[n][k] = "none"
  BY DEF Init
<1>4. events = <<>> /\ played = <<>> /\ turn = 0 /\ shown = {}
  BY DEF Init
<1>5. \A n \in Message : ~Newest(reply, n) /\ \A k \in 1 .. n - 1 : k \in Message
  BY <1>3, SpeechConstants DEF Newest, Quiet, Message
<1>6. InTurn
  BY <1>3 DEF InTurn, Quiet
<1>7. OfNewest /\ ComesOnce
  BY <1>3, <1>4 DEF OfNewest, ComesOnce, Sentence
<1>8. QueueInv(reply, task, events, audio, played)
  <2>1. \A k \in Chunk : audio.map[k] = Absent
    BY DEF Init
  <2> QED BY <1>4, <1>5, <2>1, NoSentence DEF QueueInv
<1> QED BY <1>1, <1>2, <1>6, <1>7, <1>8 DEF SpeechInv

LEMMA SpeechStep ==
  ASSUME SpeechAssumption, SpeechInv, Next
  PROVE  SpeechInv'
<1>1. TypeInv'
  BY SpeechTypes DEF SpeechInv
<1>2. OneSounds' /\ InTurn' /\ OfNewest' /\ ComesOnce'
  BY SpeechOneSounds, SpeechInTurn, SpeechOfNewest, SpeechComesOnce DEF SpeechInv
<1>3. ASSUME ~mixed'
      PROVE  QueueInv(reply', task', events', audio', played')
  BY <1>3, MixedStays, SpeechQueue DEF SpeechInv
<1> QED BY <1>1, <1>2, <1>3 DEF SpeechInv

LEMMA SpeechStutters ==
  ASSUME SpeechInv, UNCHANGED vars
  PROVE  SpeechInv'
<1>1. UNCHANGED <<reply, task, partial, cancelled, tracked, cancelling, events, audio, player, pid, ends,
                  sending, turn, full, timer, shown, played, interrupted, mixed, overtaken, bare,
                  troubles, astray>>
  BY DEF vars, backend, players, chat, history
<1> QED BY <1>1 DEF SpeechInv, TypeInv, OneSounds, Sounding, InTurn, OfNewest, ComesOnce, Placed

LEMMA SpeechIsTyped ==
  ASSUME SpeechAssumption, SpeechInv
  PROVE  TypeOK
<1>1. TypeInv
  BY DEF SpeechInv
<1>2. \A i \in 1 .. Len(events) : events[i].of \in Message
  BY <1>1 DEF TypeInv, Event
<1>3. ToSet(ends) \subseteq Sentence /\ ToSet(played) \subseteq Sentence
  BY <1>1 DEF TypeInv, ToSet
<1> QED BY <1>1, <1>2, <1>3 DEF TypeInv, TypeOK, Tasks, Audios

LEMMA SpeechInOrder ==
  ASSUME SpeechAssumption, SpeechInv
  PROVE  PlayedInOrder
<1>1. ASSUME ~astray
      PROVE  Cardinality(Sounding) <= 1
  <2>1. CASE Sounding = {}
    BY <2>1, FS_EmptySet
  <2>2. CASE Sounding # {}
    <3>1. PICK p \in Sounding : TRUE
      BY <2>2
    <3>2. Sounding = {p}
      BY <1>1, <3>1 DEF SpeechInv, OneSounds
    <3> QED BY <3>2, FS_Singleton
  <2> QED BY <2>1, <2>2
<1>2. \A i, j \in 1 .. Len(played) : i < j /\ ~mixed => Older(played[i], played[j])
  BY DEF SpeechInv, QueueInv
<1>3. ~mixed => \A t \in shown : t[1] = t[2]
  BY DEF SpeechInv, OfNewest
<1> QED BY <1>1, <1>2, <1>3 DEF PlayedInOrder

=============================================================================
