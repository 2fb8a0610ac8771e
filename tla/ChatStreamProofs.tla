-------------------------- MODULE ChatStreamProofs --------------------------
(***************************************************************************)
(* Proofs about the chat's stream, for answers of any length and any       *)
(* number of turns: whatever the chunks, the failures and the reloads, the *)
(* screen shows the beginning of the answer, and all of it when no error   *)
(* is reported.                                                            *)
(***************************************************************************)
EXTENDS ChatStream, SequenceTheorems, NumberSets

----------------------------------------------------------------------------
(* The frames.                                                             *)

Frame(event, text) == [event |-> event, text |-> text]

\* Where the j-th symbol of the k-th frame is.
At(k, j) == 5 * (k - 1) + j

\* These bytes are the frames of Q, one after another, perhaps broken off in the last of them.
Spells(bytes, Q) ==
    /\ Len(bytes) <= 5 * Len(Q)
    /\ \A k \in 1 .. Len(Q), j \in 1 .. 5 :
         At(k, j) <= Len(bytes) => bytes[At(k, j)] = FormatSse(Q[k].event, Q[k].text)[j]

LEMMA Positions ==
    \A k \in Nat \ {0}, j \in 1 .. 5 :
        /\ At(k, j) \in Nat \ {0} /\ At(k, j) <= 5 * k
        /\ At(k + 1, j) = At(k, j) + 5
  BY DEF At

LEMMA FrameSymbols ==
    ASSUME NEW event, NEW text
    PROVE  /\ Len(FormatSse(event, text)) = 5
           /\ FormatSse(event, text)[1] = [is |-> "event", says |-> event]
           /\ FormatSse(event, text)[2] = Newline
           /\ FormatSse(event, text)[3] = [is |-> "data", says |-> text]
           /\ FormatSse(event, text)[4] = Newline
           /\ FormatSse(event, text)[5] = Newline
           /\ event \in Events /\ text \in Tokens \cup {"none"} =>
                FormatSse(event, text) \in Seq(Symbols)
<1>1. Newline \in Symbols
  BY DEF Newline, Symbols
<1>2. event \in Events => [is |-> "event", says |-> event] \in Symbols
  BY DEF Symbols
<1>3. text \in Tokens \cup {"none"} => [is |-> "data", says |-> text] \in Symbols
  BY DEF Symbols
<1> QED
  BY <1>1, <1>2, <1>3 DEF FormatSse

\* What is sent comes after what was sent.
LEMMA SpellsMore ==
    ASSUME NEW b \in Seq(Symbols), NEW Q \in Seq(Frames), Spells(b, Q), Len(b) = 5 * Len(Q),
           NEW event \in Events, NEW text \in Tokens \cup {"none"}
    PROVE  /\ Spells(b \o FormatSse(event, text), Append(Q, Frame(event, text)))
           /\ Len(b \o FormatSse(event, text)) = 5 * Len(Append(Q, Frame(event, text)))
<1> DEFINE f == FormatSse(event, text)
           R == Append(Q, Frame(event, text))
<1>1. f \in Seq(Symbols) /\ Len(f) = 5
  BY FrameSymbols, ZenonT(60)
<1> HIDE DEF f
<1>2. /\ Len(b \o f) = Len(b) + 5 /\ Len(b) \in Nat /\ Len(Q) \in Nat
      /\ \A i \in 1 .. Len(b) + 5 : (b \o f)[i] = IF i <= Len(b) THEN b[i] ELSE f[i - Len(b)]
  <2>1. /\ Len(b \o f) = Len(b) + Len(f)
        /\ \A i \in 1 .. Len(b) + Len(f) :
             (b \o f)[i] = IF i <= Len(b) THEN b[i] ELSE f[i - Len(b)]
    BY <1>1, ConcatProperties
  <2> QED
    BY <1>1, <2>1
<1>3. Frame(event, text) \in Frames
  BY DEF Frame, Frames
<1>4. /\ Len(R) = Len(Q) + 1 /\ R[Len(Q) + 1] = Frame(event, text)
      /\ \A k \in 1 .. Len(Q) : R[k] = Q[k]
  BY <1>3, AppendProperties
<1> HIDE DEF R
<1>5. ASSUME NEW k \in 1 .. Len(R), NEW j \in 1 .. 5
      PROVE  (b \o f)[At(k, j)] = FormatSse(R[k].event, R[k].text)[j]
  <2>1. CASE k = Len(Q) + 1
    <3>1. At(k, j) = Len(b) + j
      BY <1>2, <2>1 DEF At
    <3>2. (b \o f)[At(k, j)] = f[j]
      BY <1>2, <3>1
    <3> QED
      BY <1>4, <2>1, <3>2 DEF Frame, f
  <2>2. CASE k \in 1 .. Len(Q)
    <3> k \in Nat \ {0} /\ k <= Len(Q)
      BY <1>2, <2>2
    <3>1. At(k, j) \in 1 .. Len(b)
      <4>1. At(k, j) \in Nat \ {0} /\ At(k, j) <= 5 * k
        BY Positions
      <4> QED
        BY <1>2, <4>1
    <3>2. (b \o f)[At(k, j)] = b[At(k, j)]
      BY <1>2, <3>1
    <3> QED
      BY <1>4, <2>2, <3>1, <3>2, SMTT(30) DEF Spells
  <2>3. k = Len(Q) + 1 \/ k \in 1 .. Len(Q)
    BY <1>2, <1>4
  <2> QED
    BY <2>1, <2>2, <2>3
<1>6. Len(b \o f) = 5 * Len(R)
  BY <1>2, <1>4
<1>7. Spells(b \o f, R)
  <2>1. Len(b \o f) <= 5 * Len(R)
    BY <1>2, <1>4, <1>6
  <2> QED
    BY <1>5, <2>1 DEF Spells
<1> QED
  BY <1>6, <1>7 DEF R, f

\* The beginning of what was sent.
LEMMA SpellsPart ==
    ASSUME NEW b \in Seq(Symbols), NEW w \in Seq(Symbols), NEW Q \in Seq(Frames),
           Spells(b \o w, Q)
    PROVE  Spells(b, Q)
<1>1. /\ Len(b \o w) = Len(b) + Len(w) /\ Len(b) \in Nat /\ Len(w) \in Nat /\ Len(Q) \in Nat
      /\ \A i \in 1 .. Len(b) + Len(w) :
           (b \o w)[i] = IF i <= Len(b) THEN b[i] ELSE w[i - Len(b)]
  BY ConcatProperties
<1>2. ASSUME NEW k \in 1 .. Len(Q), NEW j \in 1 .. 5, At(k, j) <= Len(b)
      PROVE  b[At(k, j)] = FormatSse(Q[k].event, Q[k].text)[j]
  <2>1. At(k, j) \in 1 .. Len(b) + Len(w) /\ At(k, j) <= Len(b \o w)
    <3>1. k \in Nat \ {0}
      BY <1>1
    <3>2. At(k, j) \in Nat \ {0}
      BY <3>1, Positions
    <3> QED
      BY <1>1, <1>2, <3>2
  <2>2. k \in 1 .. Len(Q) /\ (b \o w)[At(k, j)] = FormatSse(Q[k].event, Q[k].text)[j]
    BY <2>1 DEF Spells
  <2>3. (b \o w)[At(k, j)] = b[At(k, j)]
    BY <1>1, <1>2, <2>1
  <2> QED
    BY <2>2, <2>3
<1> QED
  BY <1>1, <1>2 DEF Spells

\* The first frame that is complete in the buffer is the first frame, wherever the rest was cut.
LEMMA FirstFrameEnds ==
    ASSUME NEW b \in Seq(Symbols), NEW w \in Seq(Symbols), NEW Q \in Seq(Frames),
           Spells(b \o w, Q), FrameEnds(b) # {}
    PROVE  /\ Len(Q) >= 1 /\ Len(b) >= 5
           /\ \A j \in 1 .. 5 : b[j] = FormatSse(Q[1].event, Q[1].text)[j]
           /\ 4 \in FrameEnds(b) /\ \A i \in FrameEnds(b) : i \in Nat /\ 4 <= i
<1>1. Spells(b, Q)
  BY SpellsPart
<1>2. Len(b) \in Nat /\ Len(Q) \in Nat /\ DOMAIN b = 1 .. Len(b)
  OBVIOUS
<1>3. PICK i \in FrameEnds(b) : TRUE
  OBVIOUS
<1>4. i \in 1 .. Len(b) /\ i < Len(b) /\ b[i] = Newline /\ b[i + 1] = Newline
  BY <1>2, <1>3 DEF FrameEnds
<1>5. Len(Q) >= 1
  BY <1>1, <1>2, <1>4 DEF Spells
<1> DEFINE f == FormatSse(Q[1].event, Q[1].text)
<1>6. ASSUME NEW j \in 1 .. 5, j <= Len(b) PROVE b[j] = f[j]
  <2>1. 1 \in 1 .. Len(Q) /\ At(1, j) = j
    <3>1. 1 \in 1 .. Len(Q)
      BY <1>2, <1>5
    <3>2. At(1, j) = j
      BY DEF At
    <3> QED
      BY <3>1, <3>2
  <2>2. At(1, j) <= Len(b) => b[At(1, j)] = f[j]
    BY <1>1, <2>1 DEF Spells
  <2> QED
    BY <1>6, <2>1, <2>2
<1>7. f[1] # Newline /\ f[3] # Newline /\ f[4] = Newline /\ f[5] = Newline
  <2>1. /\ f[1] = [is |-> "event", says |-> Q[1].event]
        /\ f[3] = [is |-> "data", says |-> Q[1].text]
        /\ f[4] = Newline /\ f[5] = Newline
    BY FrameSymbols
  <2> HIDE DEF f
  <2> QED
    BY <2>1 DEF Newline
<1> HIDE DEF f
<1>8. ASSUME NEW j \in FrameEnds(b) PROVE j >= 4 /\ j < Len(b) /\ j \in Nat
  <2>1. j \in 1 .. Len(b) /\ j < Len(b) /\ b[j] = Newline /\ b[j + 1] = Newline
    BY <1>2 DEF FrameEnds
  <2>2. j # 1 /\ j # 2 /\ j # 3
    BY <1>2, <1>6, <1>7, <2>1
  <2> QED
    BY <1>2, <2>1, <2>2
<1>9. Len(b) >= 5 /\ 4 \in FrameEnds(b)
  <2>1. Len(b) >= 5
    BY <1>2, <1>3, <1>8
  <2> QED
    BY <1>2, <1>6, <1>7, <2>1 DEF FrameEnds
<1>10. \A j \in 1 .. 5 : b[j] = f[j]
  BY <1>2, <1>6, <1>9
<1> QED
  BY <1>5, <1>8, <1>9, <1>10 DEF f

\* What its lines say.
LEMMA FirstFrameSays ==
    ASSUME NEW b \in Seq(Symbols), Len(b) >= 5, NEW event, NEW text,
           \A j \in 1 .. 5 : b[j] = FormatSse(event, text)[j]
    PROVE  /\ LineSays(SubSeq(b, 1, 4), "event") = event
           /\ LineSays(SubSeq(b, 1, 4), "data") = text
<1> DEFINE head == SubSeq(b, 1, 4)
<1>1. /\ Len(head) = 4 /\ DOMAIN head = 1 .. 4
      /\ head[1] = b[1] /\ head[2] = b[2] /\ head[3] = b[3] /\ head[4] = b[4]
  <2>1. head \in Seq(Symbols) /\ Len(head) = 4 /\ \A j \in 1 .. 4 : head[j] = b[1 + j - 1]
    BY SubSeqProperties
  <2> HIDE DEF head
  <2> QED
    BY <2>1
<1> HIDE DEF head
<1>2. /\ head[1] = [is |-> "event", says |-> event] /\ head[2] = Newline
      /\ head[3] = [is |-> "data", says |-> text] /\ head[4] = Newline
  BY <1>1, FrameSymbols
<1>3. \A j \in DOMAIN head : j = 1 \/ j = 2 \/ j = 3 \/ j = 4
  BY <1>1
<1>4. {j \in DOMAIN head : head[j].is = "event"} = {1}
  BY <1>1, <1>2, <1>3 DEF Newline
<1>5. {j \in DOMAIN head : head[j].is = "data"} = {3}
  BY <1>1, <1>2, <1>3 DEF Newline
<1>6. Max({1}) = 1 /\ Max({3}) = 3
  BY MaxOfOne
<1>7. LineSays(head, "event") = head[1].says
  BY <1>4, <1>6 DEF LineSays
<1>8. LineSays(head, "data") = head[3].says
  BY <1>5, <1>6 DEF LineSays
<1> QED
  BY <1>2, <1>7, <1>8 DEF head

\* What is left when it was taken.
LEMMA FirstFrameTaken ==
    ASSUME NEW b \in Seq(Symbols), NEW w \in Seq(Symbols), NEW Q \in Seq(Frames),
           Spells(b \o w, Q), Len(b) >= 5, Len(Q) >= 1
    PROVE  /\ Unconsumed(b, 4) \in Seq(Symbols) /\ Spells(Unconsumed(b, 4) \o w, Tail(Q))
           /\ Len(Unconsumed(b, 4) \o w) = Len(b \o w) - 5
<1> DEFINE rest == Unconsumed(b, 4)
<1>1. Len(b) \in Nat /\ Len(w) \in Nat /\ Len(Q) \in Nat
  OBVIOUS
<1>2. /\ rest \in Seq(Symbols) /\ Len(rest) = Len(b) - 5
      /\ \A m \in 1 .. Len(b) - 5 : rest[m] = b[m + 5]
  <2>1. \A m \in 6 .. Len(b) : b[m] \in Symbols
    BY <1>1
  <2>2. /\ rest \in Seq(Symbols) /\ Len(rest) = IF 6 <= Len(b) THEN Len(b) - 6 + 1 ELSE 0
        /\ \A m \in 1 .. Len(b) - 6 + 1 : rest[m] = b[6 + m - 1]
    BY <1>1, <2>1, SubSeqProperties DEF Unconsumed
  <2> HIDE DEF rest
  <2>3. ASSUME NEW m \in 1 .. Len(b) - 5 PROVE rest[m] = b[m + 5]
    <3>1. m \in 1 .. Len(b) - 6 + 1 /\ 6 + m - 1 = m + 5
      BY <1>1
    <3> QED
      BY <2>2, <3>1
  <2>4. Len(rest) = Len(b) - 5
    <3>1. ASSUME NEW n \in Nat, n >= 5 PROVE (IF 6 <= n THEN n - 6 + 1 ELSE 0) = n - 5
      BY <3>1
    <3> QED
      BY <1>1, <2>2, <3>1
  <2> QED
    BY <2>2, <2>3, <2>4
<1> HIDE DEF rest
<1>3. /\ Tail(Q) \in Seq(Frames) /\ Len(Tail(Q)) = Len(Q) - 1
      /\ \A k \in 1 .. Len(Tail(Q)) : Tail(Q)[k] = Q[k + 1]
  BY HeadTailProperties
<1>4. /\ Len(b \o w) = Len(b) + Len(w)
      /\ \A m \in 1 .. Len(b) + Len(w) :
           (b \o w)[m] = IF m <= Len(b) THEN b[m] ELSE w[m - Len(b)]
  BY ConcatProperties
<1>5. /\ Len(rest \o w) = Len(rest) + Len(w)
      /\ \A m \in 1 .. Len(rest) + Len(w) :
           (rest \o w)[m] = IF m <= Len(rest) THEN rest[m] ELSE w[m - Len(rest)]
  BY <1>2, ConcatProperties
<1>6. Len(rest \o w) = Len(b \o w) - 5
  BY <1>1, <1>2, <1>4, <1>5
<1>7. ASSUME NEW m \in 1 .. Len(rest \o w) PROVE (rest \o w)[m] = (b \o w)[m + 5]
  <2>1. m + 5 \in 1 .. Len(b) + Len(w) /\ m \in 1 .. Len(rest) + Len(w)
    BY <1>1, <1>2, <1>4, <1>5
  <2>2. CASE m <= Len(rest)
    BY <1>1, <1>2, <1>4, <1>5, <2>1, <2>2
  <2>3. CASE ~(m <= Len(rest))
    <3>1. m - Len(rest) = (m + 5) - Len(b) /\ ~(m + 5 <= Len(b))
      BY <1>1, <1>2, <2>1, <2>3
    <3> QED
      BY <1>4, <1>5, <2>1, <2>3, <3>1
  <2> QED
    BY <2>2, <2>3
<1>8. ASSUME NEW k \in 1 .. Len(Tail(Q)), NEW j \in 1 .. 5, At(k, j) <= Len(rest \o w)
      PROVE  (rest \o w)[At(k, j)] = FormatSse(Tail(Q)[k].event, Tail(Q)[k].text)[j]
  <2>1. k \in Nat \ {0} /\ k + 1 \in 1 .. Len(Q)
    BY <1>1, <1>3
  <2>2. At(k, j) \in 1 .. Len(rest \o w) /\ At(k + 1, j) = At(k, j) + 5
    <3>1. At(k, j) \in Nat \ {0} /\ At(k + 1, j) = At(k, j) + 5
      BY <2>1, Positions
    <3> QED
      BY <1>1, <1>2, <1>5, <1>8, <3>1
  <2>3. At(k + 1, j) <= Len(b \o w)
    BY <1>1, <1>4, <1>6, <2>2
  <2>4. (b \o w)[At(k + 1, j)] = FormatSse(Q[k + 1].event, Q[k + 1].text)[j]
    BY <2>1, <2>3 DEF Spells
  <2> QED
    BY <1>3, <1>7, <2>2, <2>4
<1>9. Spells(rest \o w, Tail(Q))
  <2>1. Len(rest \o w) <= 5 * Len(Tail(Q))
    BY <1>1, <1>3, <1>4, <1>6 DEF Spells
  <2> QED
    BY <1>8, <2>1 DEF Spells
<1> QED
  BY <1>2, <1>6, <1>9 DEF rest

----------------------------------------------------------------------------
(* The invariant: the answer is split into what is on screen, what waits   *)
(* in the buffer or on the wire, and what the server has still to tell.    *)

Runs == [phase : Phases, thread : Threads, answer : Seq(Tokens), told : Nat,
         known : Seq(Remembered)]

\* The server tells no more than the answer, has none before it begins, and begins with a
\* question; it knows of the turns that were sent, and of no other.
RunsInv ==
    \A t \in Turns :
        /\ run[t].told <= Len(run[t].answer)
        /\ t > sent => run[t] = Idle
        /\ t <= sent => run[t].phase # "unsent"
        /\ run[t].phase \in {"unsent", "asked"} => run[t].told = 0 /\ run[t].answer = <<>>
        /\ run[t].phase = "answering" => run[t].known # <<>>

\* An exchange shows the first tokens of its answer, at most those that were told.
Shows(m) ==
    /\ Len(m.answer) <= run[m.turn].told
    /\ \A j \in 1 .. Len(m.answer) : m.answer[j] = run[m.turn].answer[j]

\* The last exchange is the last turn, and the only one whose stream may be read.
ScreenInv ==
    /\ isStreaming => messages # <<>>
    /\ messages # <<>> => messages[Len(messages)].turn = sent
    /\ \A i \in 1 .. Len(messages) : messages[i].turn <= sent /\ Shows(messages[i])

\* How much of the last exchange's answer is on screen.
OnScreen == Len(messages[Len(messages)].answer)

Says(Q, event) == \E k \in 1 .. Len(Q) : Q[k].event = event

\* The panel's thread ends with an answer, unless a run that was left behind wrote it late.
Kept == ~late => memory[thread] # <<>> /\ memory[thread][Len(memory[thread])].answered

\* Q is what the panel has still to parse of the turn's frames: c tokens that follow those on
\* screen, then at most a failure, then at most done.
Pending(Q, c) ==
    LET r == run[sent] IN
    /\ c <= Len(Q) /\ OnScreen + c <= r.told
    /\ Spells(buffer \o wire, Q)
    /\ \A k \in 1 .. c : Q[k] = Frame("token", r.answer[OnScreen + k])
    /\ \A k \in c + 1 .. Len(Q) :
         /\ Q[k].text = "none" /\ Q[k].event \in {"error", "done"}
         /\ Q[k].event = "done" => k = Len(Q)
    /\ connection = "open" =>
         /\ Len(buffer \o wire) = 5 * Len(Q) /\ OnScreen + c = r.told
         /\ r.phase \in {"asked", "answering", "failing"} => c = Len(Q)
         /\ r.phase = "finishing" =>
              (r.told = Len(r.answer) /\ Kept) \/ error # "none" \/ Says(Q, "error")
    /\ Says(Q, "done") =>
         /\ r.phase = "over"
         /\ (OnScreen + c = Len(r.answer) /\ Kept) \/ error # "none" \/ Says(Q, "error")

StreamInv == isStreaming => \E Q \in Seq(Frames), c \in Nat : Pending(Q, c)

\* Where no error is reported the answer is all there, its run is over, and it is remembered.
SilenceInv ==
    ~isStreaming /\ error = "none" /\ messages # <<>> =>
        OnScreen = Len(run[sent].answer) /\ run[sent].phase = "over" /\ Kept

\* The screen shows the latest turns, all of them of the panel's thread.
LatestTurns ==
    \A i \in 1 .. Len(messages) :
        /\ messages[i].turn = (sent + i) - Len(messages)
        /\ run[messages[i].turn].thread = thread

\* The panel's thread remembers the turns begun in it, in the order they were sent, and is what
\* the last turn works on.
RememberedTurns ==
    LET kept == memory[thread] IN
    /\ \A k \in 1 .. Len(kept) :
         /\ kept[k].turn <= sent
         /\ run[kept[k].turn].known # <<>> /\ run[kept[k].turn].thread = thread
    /\ \A k, l \in 1 .. Len(kept) : k < l => kept[k].turn < kept[l].turn
    /\ \A t \in Turns :
         run[t].known # <<>> /\ run[t].thread = thread =>
             \E k \in 1 .. Len(kept) : kept[k].turn = t
    /\ \A t \in Turns :
         t = sent /\ run[t].phase = "answering" /\ run[t].thread = thread => kept = run[t].known

\* A thread that has not been begun is nobody's.
FreshThreads ==
    /\ \A t \in Turns : run[t].thread <= thread
    /\ \A h \in Threads : h > thread => memory[h] = <<>>

MemoryInv ==
    /\ LatestTurns
    /\ \A t \in Turns : run[t].phase \in {"unsent", "asked"} => run[t].known = <<>>
    /\ FreshThreads
    /\ ~late => RememberedTurns

ChatInv == TypeOK /\ RunsInv /\ ScreenInv /\ StreamInv /\ SilenceInv

LEMMA KeptStays ==
    ASSUME UNCHANGED <<thread, memory, late>> PROVE Kept' <=> Kept
  BY DEF Kept

LEMMA ChatInit ==
    ASSUME Init PROVE ChatInv
<1>1. Idle \in Runs
  BY BoundsAssumption DEF Idle, Runs, Phases, Threads
<1>2. TypeOK
  <2>1. thread \in Threads /\ sent \in 0 .. MaxTurns /\ reloads \in 0 .. MaxReloads
    BY BoundsAssumption DEF Init, Threads
  <2>2. /\ messages \in Seq([turn : Turns, answer : Seq(Tokens)])
        /\ buffer \in Seq(Symbols) /\ wire \in Seq(Symbols)
        /\ memory \in [Threads -> Seq(Remembered)]
    BY DEF Init
  <2>3. run \in [Turns -> Runs]
    BY <1>1 DEF Init
  <2> QED
    BY <2>1, <2>2, <2>3 DEF Init, TypeOK, Runs
<1>3. RunsInv
  BY DEF Init, RunsInv, Idle
<1>4. ScreenInv /\ StreamInv /\ SilenceInv
  BY DEF Init, ScreenInv, StreamInv, SilenceInv
<1> QED
  BY <1>2, <1>3, <1>4 DEF ChatInv

\* The exchanges on screen, and the last of them while its stream is read.
LEMMA Exchanges ==
    ASSUME ChatInv
    PROVE  /\ Len(messages) \in Nat /\ DOMAIN messages = 1 .. Len(messages)
           /\ \A i \in 1 .. Len(messages) :
                messages[i].turn \in Turns /\ messages[i].answer \in Seq(Tokens)
           /\ messages # <<>> =>
                Len(messages) \in 1 .. Len(messages) /\ OnScreen \in Nat /\ sent \in Turns
           /\ isStreaming => messages # <<>> /\ sent \in Turns
<1>1. messages \in Seq([turn : Turns, answer : Seq(Tokens)])
  BY DEF ChatInv, TypeOK
<1>2. messages # <<>> => Len(messages) \in 1 .. Len(messages)
  BY <1>1
<1>3. \A i \in 1 .. Len(messages) :
        messages[i].turn \in Turns /\ messages[i].answer \in Seq(Tokens)
  <2>1. \A i \in 1 .. Len(messages) : messages[i] \in [turn : Turns, answer : Seq(Tokens)]
    BY <1>1, ElementOfSeq
  <2> QED
    BY <2>1
<1>4. messages # <<>> => OnScreen \in Nat
  BY <1>2, <1>3 DEF OnScreen
<1> QED
  BY <1>1, <1>2, <1>3, <1>4 DEF ChatInv, ScreenInv

\* What a step of the server may do to the turns without changing what the screen shows.
GoesOn ==
    \A t \in Turns :
        /\ run[t].told <= run'[t].told
        /\ run[t].told # 0 \/ run[t].phase = "over" => run'[t].answer = run[t].answer
        /\ run[t].phase = "over" => run'[t].phase = "over"

LEMMA ScreenStays ==
    ASSUME ChatInv, GoesOn, run' \in [Turns -> Runs],
           UNCHANGED <<messages, isStreaming, error, sent>>,
           messages # <<>> /\ run[sent].phase = "over" /\ Kept => Kept'
    PROVE  ScreenInv' /\ SilenceInv'
<1>1. ASSUME NEW i \in 1 .. Len(messages) PROVE Shows(messages[i])'
  <2> DEFINE t == messages[i].turn
             n == Len(messages[i].answer)
  <2>1. t \in Turns /\ n \in Nat
    BY Exchanges
  <2>2. n <= run[t].told /\ \A j \in 1 .. n : messages[i].answer[j] = run[t].answer[j]
    BY DEF ChatInv, ScreenInv, Shows
  <2>3. run[t].told <= run'[t].told /\ run[t].told \in Nat /\ run'[t].told \in Nat
    BY <2>1 DEF GoesOn, ChatInv, TypeOK, Runs
  <2>4. run[t].told # 0 => run'[t].answer = run[t].answer
    BY <2>1 DEF GoesOn
  <2>5. n = 0 \/ run[t].told # 0
    BY <2>1, <2>2, <2>3
  <2> HIDE DEF t, n
  <2>6. n <= run'[t].told /\ \A j \in 1 .. n : messages[i].answer[j] = run'[t].answer[j]
    BY <2>1, <2>2, <2>3, <2>4, <2>5
  <2> QED
    BY <2>6 DEF Shows, t, n
<1>2. ScreenInv'
  BY <1>1, Exchanges DEF ChatInv, ScreenInv, GoesOn
<1>3. SilenceInv'
  <2>1. OnScreen' = OnScreen
    BY DEF OnScreen
  <2> QED
    BY <2>1, Exchanges DEF ChatInv, SilenceInv, GoesOn
<1> QED
  BY <1>2, <1>3

\* The turn that is read is not concerned, or keeps what has been told of it.
LEMMA StreamStays ==
    ASSUME ChatInv, UNCHANGED <<messages, isStreaming, error, buffer, wire, connection, sent>>,
           isStreaming =>
               \/ run'[sent] = run[sent] /\ (Kept => Kept')
               \/ /\ run'[sent].told = run[sent].told
                  /\ \/ run'[sent].answer = run[sent].answer
                     \/ run[sent].phase = "asked" /\ run'[sent].phase = "answering"
                  /\ \/ /\ run'[sent].phase = "over" /\ run[sent].phase # "over"
                        /\ Kept => Kept'
                     \/ /\ run[sent].phase \in {"asked", "answering"}
                        /\ run'[sent].phase \in {"answering", "failing"}
                     \/ /\ run[sent].phase = "answering" /\ run'[sent].phase = "finishing"
                        /\ run[sent].told = Len(run[sent].answer) /\ Kept'
               \/ /\ connection # "open" /\ run[sent].phase # "over"
                  /\ run[sent].told <= run'[sent].told /\ run'[sent].told \in Nat
                  /\ run'[sent].answer = run[sent].answer
    PROVE  StreamInv'
<1> SUFFICES ASSUME isStreaming PROVE \E Q \in Seq(Frames), c \in Nat : Pending(Q, c)'
  BY DEF StreamInv
<1>1. PICK Q \in Seq(Frames), c \in Nat : Pending(Q, c)
  BY DEF ChatInv, StreamInv
<1>2. sent \in Turns /\ OnScreen \in Nat
  BY Exchanges
<1>3. run[sent].phase = "asked" => run[sent].told = 0
  BY <1>2 DEF ChatInv, RunsInv
<1>4. run[sent].phase = "asked" => c = 0
  BY <1>1, <1>2, <1>3 DEF Pending
<1>5. run[sent].told \in Nat
  BY <1>2 DEF ChatInv, TypeOK
<1>6. OnScreen' = OnScreen
  BY DEF OnScreen
<1>7. CASE run'[sent] = run[sent]
  <2>1. \/ Kept => Kept'
        \/ run[sent].phase = "answering"
        \/ connection # "open" /\ run[sent].phase # "over"
    BY <1>7, ZenonT(60)
  <2>2. Pending(Q, c)'
    BY <1>1, <1>6, <1>7, <2>1, SMTT(30) DEF Pending, Says
  <2> QED
    BY <2>2
<1>8. CASE run'[sent] # run[sent]
  <2>1. Pending(Q, c)'
    BY <1>1, <1>2, <1>4, <1>5, <1>6, <1>8, SMTT(30) DEF Pending, Says
  <2> QED
    BY <2>1
<1> QED
  BY <1>7, <1>8

----------------------------------------------------------------------------
(* The server's steps.                                                     *)

\* What the turn t becomes, the others being left alone.
Becomes(t, r) == run' = [run EXCEPT ![t] = r]

LEMMA OneTurn ==
    ASSUME ChatInv, NEW t \in Turns, NEW r \in Runs, Becomes(t, r), UNCHANGED sent,
           run[t].phase \notin {"unsent", "over"},
           r.told <= Len(r.answer), run[t].told <= r.told,
           r.answer = run[t].answer \/ run[t].phase = "asked",
           r.phase \notin {"unsent", "asked"}, r.phase = "answering" => r.known # <<>>
    PROVE  /\ run' \in [Turns -> Runs] /\ RunsInv' /\ GoesOn
           /\ run'[t] = r /\ \A u \in Turns : u # t => run'[u] = run[u]
<1>1. run \in [Turns -> Runs]
  BY DEF ChatInv, TypeOK, Runs
<1>2. run' \in [Turns -> Runs] /\ run'[t] = r /\ \A u \in Turns : u # t => run'[u] = run[u]
  BY <1>1 DEF Becomes
<1>3. ~(t > sent) /\ (run[t].phase = "asked" => run[t].told = 0)
  BY DEF ChatInv, RunsInv, Idle
<1>4. RunsInv'
  BY <1>2, <1>3 DEF ChatInv, RunsInv
<1>5. \A u \in Turns : run[u].told \in Nat
  BY <1>1 DEF Runs
<1>6. GoesOn
  BY <1>2, <1>3, <1>5 DEF GoesOn
<1> QED
  BY <1>2, <1>4, <1>6

LEMMA RunTypes ==
    ASSUME ChatInv, NEW t \in Turns
    PROVE  /\ run \in [Turns -> Runs] /\ run[t] \in Runs
           /\ run[t].phase \in Phases /\ run[t].thread \in Threads
           /\ run[t].answer \in Seq(Tokens) /\ run[t].told \in Nat
           /\ run[t].known \in Seq(Remembered) /\ Len(run[t].answer) \in Nat
  BY SMTT(30) DEF ChatInv, TypeOK, Runs

LEMMA MemoryTypes ==
    ASSUME ChatInv, NEW h \in Threads
    PROVE  /\ memory[h] \in Seq(Remembered) /\ Len(memory[h]) \in Nat
           /\ \A k \in 1 .. Len(memory[h]) :
                memory[h][k] \in Remembered /\ memory[h][k].turn \in Turns
<1>1. memory[h] \in Seq(Remembered)
  BY DEF ChatInv, TypeOK
<1>2. \A k \in 1 .. Len(memory[h]) : memory[h][k] \in Remembered
  BY <1>1, ElementOfSeq
<1> QED
  BY <1>1, <1>2 DEF Remembered

\* A question is saved, and the answer begins.
LEMMA ChatBegin ==
    ASSUME ChatInv, MemoryInv, NEW t \in Turns, BeginTurn(t) PROVE ChatInv'
<1> DEFINE known == Append(memory[run[t].thread], [turn |-> t, answered |-> FALSE])
<1>1. PICK answer \in Answers :
        /\ run' = [run EXCEPT ![t].phase = "answering", ![t].answer = answer, ![t].known = known]
        /\ memory' = [memory EXCEPT ![run[t].thread] = known]
  BY DEF BeginTurn
<1>2. /\ known \in Seq(Remembered) /\ known # <<>>
      /\ memory' \in [Threads -> Seq(Remembered)]
  <2>1. memory[run[t].thread] \in Seq(Remembered) /\ [turn |-> t, answered |-> FALSE] \in Remembered
    BY RunTypes DEF ChatInv, TypeOK, Remembered
  <2>2. known \in Seq(Remembered) /\ Len(known) = Len(memory[run[t].thread]) + 1
    BY <2>1, AppendProperties
  <2>3. known # <<>>
    BY <2>1, <2>2
  <2> QED
    BY <1>1, <2>2, <2>3 DEF ChatInv, TypeOK
<1>3. answer \in Seq(Tokens)
  BY TokensAssumption
<1> HIDE DEF known
<1> DEFINE r == [run[t] EXCEPT !.phase = "answering", !.answer = answer, !.known = known]
<1>4. /\ r \in Runs /\ r.phase = "answering" /\ r.answer = answer /\ r.told = run[t].told
      /\ Becomes(t, r) /\ r.known # <<>>
  BY <1>1, <1>2, <1>3, RunTypes DEF Runs, Phases, Becomes
<1>5. run[t].phase = "asked" /\ run[t].told = 0
      /\ UNCHANGED <<available, thread, messages, isStreaming, error, buffer, reloads,
                     wire, connection, sent>>
      /\ late' = (late \/ WritesLate(t))
  BY DEF BeginTurn, panel, ChatInv, RunsInv
<1> HIDE DEF r
<1>6. /\ run' \in [Turns -> Runs] /\ RunsInv' /\ GoesOn
      /\ run'[t] = r /\ \A u \in Turns : u # t => run'[u] = run[u]
  <2>1. r.told <= Len(r.answer) /\ run[t].told <= r.told
    BY <1>3, <1>4, <1>5
  <2> QED
    BY <1>4, <1>5, <2>1, OneTurn
<1>k. t = sent \/ (Kept => Kept')
  <2>1. late' \/ t = sent \/ (~late /\ memory'[thread] = memory[thread])
    BY <1>1, <1>5 DEF WritesLate, ChatInv, TypeOK
  <2> QED
    BY <1>5, <2>1 DEF Kept
<1>7. ScreenInv' /\ SilenceInv'
  <2>1. messages # <<>> => sent \in Turns
    BY Exchanges
  <2> QED
    BY <1>5, <1>6, <1>k, <2>1, ScreenStays
<1>8. StreamInv'
  <2>1. isStreaming => sent \in Turns
    BY Exchanges
  <2> QED
    BY <1>4, <1>5, <1>6, <1>k, <2>1, StreamStays
<1>9. TypeOK'
  <2>1. late' \in BOOLEAN
    BY <1>5
  <2> QED
    BY <1>2, <1>5, <1>6, <2>1 DEF ChatInv, TypeOK, Runs
<1> QED
  BY <1>6, <1>7, <1>8, <1>9 DEF ChatInv

\* The answer is saved; something raises; or nobody listens any more.
LEMMA ChatQuiet ==
    ASSUME ChatInv, MemoryInv, NEW t \in Turns, SaveAnswer(t) \/ TurnRaises(t) \/ Abandon(t)
    PROVE  ChatInv'
<1> DEFINE phase == IF SaveAnswer(t) THEN "finishing" ELSE IF TurnRaises(t) THEN "failing"
                    ELSE "over"
           r == [run[t] EXCEPT !.phase = phase]
<1>1. run' = [run EXCEPT ![t].phase = phase]
      /\ UNCHANGED <<available, thread, messages, isStreaming, error, buffer, reloads,
                     wire, connection, sent>>
      /\ late' \in BOOLEAN
  BY DEF SaveAnswer, TurnRaises, Abandon, panel, ChatInv, TypeOK
<1>2. \/ phase = "finishing" /\ run[t].phase = "answering" /\ run[t].told = Len(run[t].answer)
      \/ phase = "failing" /\ run[t].phase \in {"asked", "answering"}
      \/ phase = "over" /\ run[t].phase \in {"asked", "answering", "failing", "finishing"}
  BY DEF SaveAnswer, TurnRaises, Abandon
<1>3. memory' \in [Threads -> Seq(Remembered)]
  <2>1. ASSUME NEW known \in Seq(Remembered), known # <<>>
        PROVE  [known EXCEPT ![Len(known)].answered = TRUE] \in Seq(Remembered)
    <3>1. Len(known) \in 1 .. Len(known)
      BY <2>1
    <3>2. known[Len(known)] \in Remembered
      BY <3>1, ElementOfSeq
    <3>3. [known[Len(known)] EXCEPT !.answered = TRUE] \in Remembered
      BY <3>2 DEF Remembered
    <3> QED
      BY <3>1, <3>3, ExceptSeq
  <2>2. \/ memory' = memory
        \/ /\ run[t].known # <<>>
           /\ memory' = [memory EXCEPT ![run[t].thread] =
                            [run[t].known EXCEPT ![Len(run[t].known)].answered = TRUE]]
    BY DEF SaveAnswer, TurnRaises, Abandon, ChatInv, RunsInv
  <2>3. memory \in [Threads -> Seq(Remembered)]
    BY DEF ChatInv, TypeOK
  <2>4. run[t].thread \in Threads /\ run[t].known \in Seq(Remembered)
    BY RunTypes
  <2>5. \A s \in Seq(Remembered) :
          [memory EXCEPT ![run[t].thread] = s] \in [Threads -> Seq(Remembered)]
    BY <2>3
  <2> QED
    BY <2>1, <2>2, <2>3, <2>4, <2>5
<1>k. (t = sent /\ phase = "finishing") \/ (Kept => Kept')
  <2>1. CASE phase = "finishing"
    <3>1. /\ memory' = [memory EXCEPT ![run[t].thread] =
                           [run[t].known EXCEPT ![Len(run[t].known)].answered = TRUE]]
          /\ late' = (late \/ WritesLate(t))
      BY <2>1 DEF SaveAnswer
    <3>2. late' \/ t = sent \/ (~late /\ memory'[thread] = memory[thread])
      BY <3>1 DEF WritesLate, ChatInv, TypeOK
    <3> QED
      BY <1>1, <2>1, <3>2 DEF Kept
  <2>2. CASE phase # "finishing"
    <3>1. UNCHANGED <<memory, late>>
      BY <2>2 DEF SaveAnswer, TurnRaises, Abandon
    <3> QED
      BY <1>1, <3>1, KeptStays
  <2> QED
    BY <2>1, <2>2
<1>l. t = sent /\ isStreaming /\ phase = "finishing" => Kept'
  <2> SUFFICES ASSUME t = sent, isStreaming, phase = "finishing" PROVE Kept'
    OBVIOUS
  <2>1. /\ run[t].phase = "answering" /\ run[t].known # <<>>
        /\ memory' = [memory EXCEPT ![run[t].thread] =
                         [run[t].known EXCEPT ![Len(run[t].known)].answered = TRUE]]
    BY DEF SaveAnswer, ChatInv, RunsInv
  <2>2. run[t].thread = thread /\ thread \in Threads
    BY Exchanges DEF ChatInv, TypeOK, ScreenInv, MemoryInv, LatestTurns
  <2>3. PICK known \in Seq(Remembered) : known = run[t].known
    BY RunTypes
  <2>4. memory'[thread] = [known EXCEPT ![Len(known)].answered = TRUE]
    BY <2>1, <2>2, <2>3 DEF ChatInv, TypeOK
  <2>5. Len(known) \in 1 .. Len(known) /\ known[Len(known)] \in Remembered
    BY <2>1, <2>3, ElementOfSeq
  <2>6. Len(memory'[thread]) = Len(known) /\ memory'[thread][Len(known)].answered
    BY <2>4, <2>5 DEF Remembered
  <2>7. memory'[thread] # <<>>
    BY <2>5, <2>6
  <2> QED
    BY <1>1, <2>6, <2>7 DEF Kept
<1> HIDE DEF phase
<1>4. /\ r \in Runs /\ r.phase = phase /\ r.answer = run[t].answer /\ r.told = run[t].told
      /\ Becomes(t, r)
  BY <1>1, <1>2, RunTypes DEF Runs, Phases, Becomes
<1> HIDE DEF r
<1>5. run[t].told <= Len(run[t].answer)
  BY DEF ChatInv, RunsInv
<1>6. /\ run' \in [Turns -> Runs] /\ RunsInv' /\ GoesOn
      /\ run'[t] = r /\ \A u \in Turns : u # t => run'[u] = run[u]
  <2>1. run[t].told <= r.told
    BY <1>4, RunTypes
  <2> QED
    BY <1>1, <1>2, <1>4, <1>5, <2>1, OneTurn
<1>7. ScreenInv' /\ SilenceInv'
  <2>1. messages # <<>> => sent \in Turns
    BY Exchanges
  <2>2. messages # <<>> /\ run[sent].phase = "over" /\ Kept => Kept'
    BY <1>2, <1>k
  <2> QED
    BY <1>1, <1>6, <2>2, ScreenStays
<1>8. StreamInv'
  <2>1. isStreaming => sent \in Turns
    BY Exchanges
  <2> QED
    BY <1>1, <1>2, <1>4, <1>6, <1>k, <1>l, <2>1, StreamStays
<1>9. TypeOK'
  BY <1>1, <1>3, <1>6 DEF ChatInv, TypeOK, Runs
<1> QED
  BY <1>6, <1>7, <1>8, <1>9 DEF ChatInv

\* A frame is sent behind what was sent before.
LEMMA SentBehind ==
    ASSUME ChatInv, NEW event \in Events, NEW text \in Tokens \cup {"none"},
           UNCHANGED buffer, wire' = wire \o FormatSse(event, text),
           NEW Q \in Seq(Frames), Spells(buffer \o wire, Q),
           Len(buffer \o wire) = 5 * Len(Q)
    PROVE  /\ wire' \in Seq(Symbols)
           /\ Spells((buffer \o wire)', Append(Q, Frame(event, text)))
           /\ Len((buffer \o wire)') = 5 * Len(Append(Q, Frame(event, text)))
           /\ Append(Q, Frame(event, text)) \in Seq(Frames)
<1>1. buffer \in Seq(Symbols) /\ wire \in Seq(Symbols) /\ FormatSse(event, text) \in Seq(Symbols)
  BY FrameSymbols DEF ChatInv, TypeOK
<1>2. (buffer \o wire)' = (buffer \o wire) \o FormatSse(event, text)
      /\ buffer \o wire \in Seq(Symbols) /\ wire' \in Seq(Symbols)
  BY <1>1, ConcatAssociative, ConcatProperties, SMTT(30)
<1>3. Frame(event, text) \in Frames
  BY DEF Frame, Frames
<1>4. Append(Q, Frame(event, text)) \in Seq(Frames)
  BY <1>3, AppendProperties
<1>5. /\ Spells((buffer \o wire) \o FormatSse(event, text), Append(Q, Frame(event, text)))
      /\ Len((buffer \o wire) \o FormatSse(event, text)) = 5 * Len(Append(Q, Frame(event, text)))
  BY <1>2, SpellsMore
<1> QED
  BY <1>2, <1>4, <1>5

\* Nobody listens: what is told is dropped, and the run goes on.
LEMMA ChatUnheard ==
    ASSUME ChatInv, NEW t \in Turns, ~IsHeard(t), YieldToken(t) \/ YieldClosing(t)
    PROVE  ChatInv'
<1>1. UNCHANGED <<available, thread, messages, isStreaming, error, buffer, reloads, memory, late,
                  wire, connection, sent>>
  BY DEF YieldToken, YieldClosing, Yield, panel
<1>2. PICK r : /\ r \in Runs /\ Becomes(t, r) /\ r.answer = run[t].answer
               /\ run[t].told <= r.told /\ r.told <= Len(r.answer)
               /\ r.phase \notin {"unsent", "asked"} /\ run[t].phase \notin {"unsent", "over"}
               /\ r.phase = "answering" => r.known # <<>>
  <2>1. CASE YieldToken(t)
    <3>1. PICK r : r = [run[t] EXCEPT !.told = @ + 1]
      OBVIOUS
    <3>2. run[t] \in Runs /\ run[t].told + 1 \in Nat /\ run[t].told + 1 <= Len(run[t].answer)
          /\ run[t].phase = "answering" /\ run[t].known # <<>>
      BY <2>1, RunTypes DEF YieldToken, ChatInv, RunsInv
    <3>3. r \in Runs /\ r.told = run[t].told + 1 /\ r.answer = run[t].answer
          /\ r.phase = "answering" /\ r.known = run[t].known
      BY <3>1, <3>2 DEF Runs
    <3>4. Becomes(t, r)
      BY <2>1, <3>1, RunTypes DEF YieldToken, Becomes
    <3>5. run[t].told <= r.told /\ r.told <= Len(r.answer)
      BY <3>2, <3>3, RunTypes
    <3> QED
      BY <3>2, <3>3, <3>4, <3>5
  <2>2. CASE YieldClosing(t)
    <3>1. PICK phase \in {"finishing", "over"} : run' = [run EXCEPT ![t].phase = phase]
      BY <2>2 DEF YieldClosing
    <3>2. PICK r : r = [run[t] EXCEPT !.phase = phase]
      OBVIOUS
    <3>3. r \in Runs /\ r.told = run[t].told /\ r.answer = run[t].answer /\ r.phase = phase
      BY <3>1, <3>2, RunTypes DEF Runs, Phases
    <3>4. Becomes(t, r)
      BY <3>1, <3>2, RunTypes DEF Becomes
    <3>5. run[t].told <= r.told /\ r.told <= Len(r.answer)
      BY <3>3, RunTypes DEF ChatInv, RunsInv
    <3> QED
      BY <2>2, <3>1, <3>3, <3>4, <3>5 DEF YieldClosing
  <2> QED
    BY <2>1, <2>2
<1>3. /\ run' \in [Turns -> Runs] /\ RunsInv' /\ GoesOn
      /\ run'[t] = r /\ \A u \in Turns : u # t => run'[u] = run[u]
  BY <1>1, <1>2, OneTurn
<1>4. Kept' <=> Kept
  BY <1>1, KeptStays
<1>5. ScreenInv' /\ SilenceInv'
  BY <1>1, <1>3, <1>4, ScreenStays
<1>6. StreamInv'
  <2>1. isStreaming => sent \in Turns
    BY Exchanges
  <2>2. isStreaming /\ t = sent => connection # "open"
    BY DEF IsHeard
  <2>3. r.told \in Nat
    BY <1>2 DEF Runs
  <2> QED
    BY <1>1, <1>2, <1>3, <1>4, <2>1, <2>2, <2>3, StreamStays
<1>7. TypeOK'
  BY <1>1, <1>3 DEF ChatInv, TypeOK, Runs
<1> QED
  BY <1>3, <1>5, <1>6, <1>7 DEF ChatInv

LEMMA ChatToken ==
    ASSUME ChatInv, NEW t \in Turns, IsHeard(t), YieldToken(t) PROVE ChatInv'
<1> DEFINE r == [run[t] EXCEPT !.told = @ + 1]
           text == run[t].answer[run[t].told + 1]
<1>1. /\ run' = [run EXCEPT ![t].told = @ + 1]
      /\ run[t].phase = "answering" /\ run[t].told < Len(run[t].answer)
      /\ t = sent /\ isStreaming /\ connection = "open" /\ wire' = wire \o FormatSse("token", text)
      /\ UNCHANGED <<available, thread, messages, isStreaming, error, buffer, reloads,
                     memory, late, connection, sent>>
  BY DEF YieldToken, Yield, IsHeard, panel
<1>2. /\ r \in Runs /\ r.phase = "answering" /\ r.answer = run[t].answer
      /\ r.told = run[t].told + 1 /\ r.known = run[t].known /\ Becomes(t, r)
  <2>1. /\ r \in Runs /\ r.phase = "answering" /\ r.answer = run[t].answer
        /\ r.told = run[t].told + 1 /\ r.known = run[t].known
    <3>1. run[t] \in Runs /\ run[t].told + 1 \in Nat
      BY RunTypes
    <3> QED
      BY <1>1, <3>1 DEF Runs
  <2>2. Becomes(t, r)
    BY <1>1, RunTypes DEF Becomes
  <2> QED
    BY <2>1, <2>2
<1>3. text \in Tokens /\ text # "none"
  BY <1>1, RunTypes, ElementOfSeq, TokensAssumption
<1> HIDE DEF r, text
<1>4. /\ run' \in [Turns -> Runs] /\ RunsInv' /\ GoesOn
      /\ run'[t] = r /\ \A u \in Turns : u # t => run'[u] = run[u]
  <2>1. r.told <= Len(r.answer) /\ run[t].told <= r.told
    BY <1>1, <1>2, RunTypes
  <2>2. run[t].known # <<>>
    BY <1>1 DEF ChatInv, RunsInv
  <2> QED
    BY <1>1, <1>2, <2>1, <2>2, OneTurn
<1>5. ScreenInv' /\ SilenceInv'
  BY <1>1, <1>4, KeptStays, ScreenStays
<1>6. PICK Q \in Seq(Frames), c \in Nat : Pending(Q, c)
  BY <1>1 DEF ChatInv, StreamInv
<1>7. /\ c = Len(Q) /\ OnScreen + c = run[t].told /\ Spells(buffer \o wire, Q)
      /\ Len(buffer \o wire) = 5 * Len(Q)
      /\ \A k \in 1 .. c : Q[k] = Frame("token", run[t].answer[OnScreen + k])
  BY <1>1, <1>6 DEF Pending
<1>R. PICK R : R = Append(Q, Frame("token", text))
  OBVIOUS
<1>8. /\ wire' \in Seq(Symbols) /\ Spells((buffer \o wire)', R)
      /\ Len((buffer \o wire)') = 5 * Len(R) /\ R \in Seq(Frames)
  BY <1>1, <1>3, <1>7, <1>R, SentBehind DEF Events
<1>9. Len(R) = c + 1 /\ R[c + 1] = Frame("token", text) /\ \A k \in 1 .. c : R[k] = Q[k]
  <2>1. Frame("token", text) \in Frames
    BY <1>3 DEF Frame, Frames, Events
  <2> QED
    BY <1>7, <1>R, <2>1, AppendProperties
<1>10. OnScreen' = OnScreen /\ OnScreen \in Nat
  BY <1>1, Exchanges DEF OnScreen
<1>11. ASSUME NEW k \in 1 .. c + 1
       PROVE  R[k] = Frame("token", run[t].answer[OnScreen + k])
  <2>1. CASE k = c + 1
    <3>1. OnScreen + k = run[t].told + 1
      BY <1>7, <1>10, <2>1
    <3> QED
      BY <1>9, <2>1, <3>1 DEF text
  <2>2. CASE k \in 1 .. c
    BY <1>7, <1>9, <2>2
  <2> QED
    BY <2>1, <2>2
<1>12. Pending(R, c + 1)'
  <2>1. ~Says(R, "done")
    BY <1>9, <1>11 DEF Says, Frame
  <2>2. OnScreen + (c + 1) = r.told
    BY <1>2, <1>7, <1>10
  <2>3. run'[sent'] = r /\ r.told \in Nat /\ c + 1 \in Nat
    BY <1>1, <1>2, <1>4, RunTypes
  <2> QED
    BY <1>1, <1>2, <1>8, <1>9, <1>10, <1>11, <2>1, <2>2, <2>3, SMTT(30) DEF Pending, Says
<1>13. StreamInv'
  BY <1>8, <1>12 DEF StreamInv
<1>14. TypeOK'
  BY <1>1, <1>4, <1>8 DEF ChatInv, TypeOK, Runs
<1> QED
  BY <1>4, <1>5, <1>13, <1>14 DEF ChatInv

\* The frame of a failure, and done.
LEMMA ChatClosing ==
    ASSUME ChatInv, NEW t \in Turns, IsHeard(t), YieldClosing(t) PROVE ChatInv'
<1> DEFINE event == ClosingEvent(run[t].phase)
           phase == IF run[t].phase = "failing" THEN "finishing" ELSE "over"
           r == [run[t] EXCEPT !.phase = phase]
<1>1. /\ run' = [run EXCEPT ![t].phase = IF @ = "failing" THEN "finishing" ELSE "over"]
      /\ run[t].phase \in {"failing", "finishing"}
      /\ t = sent /\ isStreaming /\ connection = "open" /\ wire' = wire \o FormatSse(event, "none")
      /\ UNCHANGED <<available, thread, messages, isStreaming, error, buffer, reloads,
                     memory, late, connection, sent>>
  BY DEF YieldClosing, Yield, IsHeard, panel
<1>2. \/ event = "error" /\ run[t].phase = "failing" /\ phase = "finishing"
      \/ event = "done" /\ run[t].phase = "finishing" /\ phase = "over"
  BY <1>1 DEF ClosingEvent
<1>3. /\ r \in Runs /\ r.phase = phase /\ r.answer = run[t].answer
      /\ r.told = run[t].told /\ Becomes(t, r)
  BY <1>1, RunTypes DEF Runs, Becomes, Phases
<1> HIDE DEF r, event, phase
<1>4. /\ run' \in [Turns -> Runs] /\ RunsInv' /\ GoesOn
      /\ run'[t] = r /\ \A u \in Turns : u # t => run'[u] = run[u]
  <2>1. r.told <= Len(r.answer) /\ run[t].told <= r.told
    BY <1>3, RunTypes DEF ChatInv, RunsInv
  <2> QED
    BY <1>1, <1>2, <1>3, <2>1, OneTurn
<1>5. ScreenInv' /\ SilenceInv'
  BY <1>1, <1>4, KeptStays, ScreenStays
<1>6. PICK Q \in Seq(Frames), c \in Nat : Pending(Q, c)
  BY <1>1 DEF ChatInv, StreamInv
<1>7. /\ c <= Len(Q) /\ OnScreen + c = run[t].told /\ Spells(buffer \o wire, Q)
      /\ Len(buffer \o wire) = 5 * Len(Q) /\ ~Says(Q, "done")
      /\ event = "error" => c = Len(Q)
      /\ event = "done" =>
           (run[t].told = Len(run[t].answer) /\ Kept) \/ error # "none" \/ Says(Q, "error")
  BY <1>1, <1>2, <1>6 DEF Pending
<1>R. PICK R : R = Append(Q, Frame(event, "none"))
  OBVIOUS
<1>8. /\ wire' \in Seq(Symbols) /\ Spells((buffer \o wire)', R)
      /\ Len((buffer \o wire)') = 5 * Len(R) /\ R \in Seq(Frames)
  BY <1>1, <1>2, <1>7, <1>R, SentBehind DEF Events
<1>9. /\ Len(R) = Len(Q) + 1 /\ R[Len(Q) + 1] = Frame(event, "none") /\ Len(Q) \in Nat
      /\ \A k \in 1 .. Len(Q) : R[k] = Q[k]
  <2>1. Frame(event, "none") \in Frames
    BY <1>2 DEF Frame, Frames, Events
  <2> QED
    BY <1>R, <2>1, AppendProperties
<1>10. OnScreen' = OnScreen /\ OnScreen \in Nat
  BY <1>1, Exchanges DEF OnScreen
<1>11. \A k \in 1 .. c : R[k] = Frame("token", run[t].answer[OnScreen + k])
  BY <1>1, <1>6, <1>7, <1>9 DEF Pending
<1>12. \A k \in c + 1 .. Len(R) :
         /\ R[k].text = "none" /\ R[k].event \in {"error", "done"}
         /\ R[k].event = "done" => k = Len(R)
  <2>1. ASSUME NEW k \in c + 1 .. Len(Q)
        PROVE  R[k].text = "none" /\ R[k].event = "error"
    <3>1. k \in 1 .. Len(Q)
      BY <1>7, <1>9
    <3> QED
      BY <1>6, <1>7, <1>9, <3>1 DEF Pending, Says
  <2>2. \A k \in c + 1 .. Len(R) : k = Len(R) \/ k \in c + 1 .. Len(Q)
    BY <1>9
  <2> QED
    BY <1>2, <1>9, <2>1, <2>2 DEF Frame
<1>13. Says(R, "error") \/ (event = "done" /\ (Says(Q, "error") => Says(R, "error")))
  <2>1. Len(Q) + 1 \in 1 .. Len(R) /\ \A k \in 1 .. Len(Q) : k \in 1 .. Len(R)
    BY <1>9
  <2> QED
    BY <1>2, <1>9, <2>1 DEF Says, Frame
<1>14. Pending(R, c)'
  <2>1. run'[sent'] = r
    BY <1>1, <1>4
  <2>2. c <= Len(R)
    BY <1>7, <1>9
  <2>3. event = "error" => ~Says(R, "done")
    <3>1. \A k \in 1 .. Len(R) : k = Len(R) \/ k \in 1 .. Len(Q)
      BY <1>9
    <3> QED
      BY <1>7, <1>9, <3>1 DEF Says, Frame
  <2>4. OnScreen + c <= r.told
    BY <1>3, <1>7, RunTypes
  <2>5. Kept' <=> Kept
    BY <1>1, KeptStays
  <2>6. phase = "finishing" => Says(R, "error")
    BY <1>2, <1>13
  <2>7. Says(R, "done") =>
          /\ phase = "over"
          /\ (OnScreen + c = Len(r.answer) /\ Kept) \/ error # "none" \/ Says(R, "error")
    BY <1>2, <1>3, <1>7, <1>13, <2>3
  <2>8. r.phase \notin {"asked", "answering", "failing"}
    BY <1>2, <1>3
  <2> QED
    BY <1>1, <1>3, <1>7, <1>8, <1>10, <1>11, <1>12, <2>1, <2>2, <2>4, <2>5, <2>6, <2>7, <2>8
    DEF Pending
<1>15. StreamInv'
  BY <1>8, <1>14 DEF StreamInv
<1>16. TypeOK'
  BY <1>1, <1>4, <1>8 DEF ChatInv, TypeOK, Runs
<1> QED
  BY <1>4, <1>5, <1>15, <1>16 DEF ChatInv

\* What was on the wire is lost, and the runs go on or are over with the server.
LEMMA ChatDies ==
    ASSUME ChatInv, ConnectionBreaks \/ ServerDies PROVE ChatInv'
<1>1. /\ connection' = "broken" /\ wire' = <<>> /\ DOMAIN run = Turns
      /\ \/ run' = run
         \/ run' = [t \in Turns |-> IF run[t].phase = "unsent" THEN run[t]
                                    ELSE [run[t] EXCEPT !.phase = "over"]]
      /\ UNCHANGED <<available, thread, messages, isStreaming, error, buffer, reloads,
                     memory, late, sent>>
  BY DEF ConnectionBreaks, ServerDies, panel, server, ChatInv, TypeOK
<1>2. \A t \in Turns :
        /\ run'[t] \in Runs /\ run'[t].told = run[t].told /\ run'[t].answer = run[t].answer
        /\ run'[t].known = run[t].known
        /\ run'[t] = run[t] \/ (run[t].phase # "unsent" /\ run'[t].phase = "over")
  <2> TAKE t \in Turns
  <2>1. run[t] \in Runs
    BY RunTypes
  <2>2. CASE run'[t] = run[t]
    BY <2>1, <2>2
  <2>3. CASE run[t].phase # "unsent" /\ run'[t] = [run[t] EXCEPT !.phase = "over"]
    BY <2>1, <2>3 DEF Runs, Phases
  <2> QED
    BY <1>1, <2>2, <2>3
<1>3. run' \in [Turns -> Runs]
  <2>1. DOMAIN run' = Turns /\ run' = [t \in Turns |-> run'[t]]
    <3>1. run = [t \in Turns |-> run[t]]
      BY DEF ChatInv, TypeOK
    <3> QED
      BY <1>1, <3>1
  <2> QED
    BY <1>2, <2>1
<1>4. RunsInv'
  BY <1>1, <1>2 DEF ChatInv, RunsInv, Idle
<1>5. GoesOn
  BY <1>2, RunTypes DEF GoesOn
<1>6. ScreenInv' /\ SilenceInv'
  BY <1>1, <1>3, <1>5, KeptStays, ScreenStays
<1>7. StreamInv'
  <2> SUFFICES ASSUME isStreaming PROVE StreamInv'
    BY <1>1 DEF StreamInv
  <2>1. PICK Q \in Seq(Frames), c \in Nat : Pending(Q, c)
    BY DEF ChatInv, StreamInv
  <2>2. sent \in Turns /\ OnScreen' = OnScreen
    BY <1>1, Exchanges DEF OnScreen
  <2>3. buffer \in Seq(Symbols) /\ wire \in Seq(Symbols)
    BY DEF ChatInv, TypeOK
  <2>4. Spells((buffer \o wire)', Q)
    <3>1. (buffer \o wire)' = buffer
      BY <1>1, <2>3, ConcatEmptySeq
    <3> QED
      BY <2>1, <2>3, <3>1, SpellsPart DEF Pending
  <2>5. run'[sent].phase = run[sent].phase \/ run'[sent].phase = "over"
    BY <1>2, <2>2
  <2>6. Pending(Q, c)'
    BY <1>1, <1>2, <2>1, <2>2, <2>4, <2>5, KeptStays DEF Pending, Says
  <2> QED
    BY <2>6 DEF StreamInv
<1>8. TypeOK'
  BY <1>1, <1>3 DEF ChatInv, TypeOK, Runs
<1> QED
  BY <1>4, <1>6, <1>7, <1>8 DEF ChatInv

----------------------------------------------------------------------------
(* The panel's steps.                                                      *)

LEMMA ChatSend ==
    ASSUME ChatInv, Send PROVE ChatInv'
<1>1. PICK t : t = sent + 1
  OBVIOUS
<1>2. PICK r : r = [run[t] EXCEPT !.phase = "asked", !.thread = thread]
  OBVIOUS
<1>3. PICK m : m = [turn |-> t, answer |-> <<>>]
  OBVIOUS
<1>4. /\ ~isStreaming /\ isStreaming' = TRUE /\ sent' = t /\ error' = "none"
      /\ messages' = Append(messages, m) /\ buffer' = <<>> /\ wire' = <<>>
      /\ connection' = "open"
      /\ run' = [run EXCEPT ![t].phase = "asked", ![t].thread = thread]
      /\ UNCHANGED <<available, thread, reloads, memory, late>>
  BY <1>1, <1>3 DEF Send
<1>5. t \in Turns /\ t \in Nat /\ sent \in Nat /\ t > sent
  BY <1>1, BoundsAssumption DEF Send, ChatInv, TypeOK, Turns
<1>6. run[t] = Idle /\ run[t] \in Runs /\ thread \in Threads /\ DOMAIN run = Turns
  BY <1>5, RunTypes DEF ChatInv, RunsInv, TypeOK
<1>7. /\ r \in Runs /\ r.phase = "asked" /\ r.told = 0 /\ r.answer = <<>>
      /\ run' = [run EXCEPT ![t] = r]
  <2>1. r \in Runs /\ r.phase = "asked" /\ r.told = run[t].told /\ r.answer = run[t].answer
    BY <1>2, <1>6 DEF Runs, Phases
  <2>2. run[t].told = 0 /\ run[t].answer = <<>>
    BY <1>6 DEF Idle
  <2>3. run' = [run EXCEPT ![t] = r]
    BY <1>2, <1>4, <1>5, <1>6
  <2> QED
    BY <2>1, <2>2, <2>3
<1>8. m.turn = t /\ m.answer = <<>> /\ m \in [turn : Turns, answer : Seq(Tokens)]
  BY <1>3, <1>5
<1>9. /\ run' \in [Turns -> Runs] /\ run'[t] = r
      /\ \A u \in Turns : u # t => run'[u] = run[u]
  BY <1>5, <1>7, RunTypes
<1>10. RunsInv'
  <2>1. ASSUME NEW u \in Turns, u # t PROVE (u > sent' => u > sent) /\ (u <= sent' => u <= sent)
    BY <1>1, <1>4, <1>5, <2>1 DEF Turns
  <2>2. ~(t > sent') /\ r.told <= Len(r.answer)
    BY <1>4, <1>5, <1>7
  <2>3. ASSUME NEW u \in Turns
        PROVE  /\ run'[u].told <= Len(run'[u].answer)
               /\ u > sent' => run'[u] = Idle
               /\ u <= sent' => run'[u].phase # "unsent"
               /\ run'[u].phase \in {"unsent", "asked"} =>
                    run'[u].told = 0 /\ run'[u].answer = <<>>
               /\ run'[u].phase = "answering" => run'[u].known # <<>>
    <3>1. CASE u = t
      BY <1>7, <1>9, <2>2, <3>1
    <3>2. CASE u # t
      BY <1>9, <2>1, <3>2 DEF ChatInv, RunsInv
    <3> QED
      BY <3>1, <3>2
  <2> QED
    BY <2>3 DEF RunsInv
<1>11. /\ messages' \in Seq([turn : Turns, answer : Seq(Tokens)])
       /\ Len(messages') = Len(messages) + 1 /\ messages'[Len(messages) + 1] = m
       /\ \A i \in 1 .. Len(messages) : messages'[i] = messages[i]
       /\ Len(messages) \in Nat /\ messages' # <<>>
  <2>1. messages \in Seq([turn : Turns, answer : Seq(Tokens)])
    BY DEF ChatInv, TypeOK
  <2>2. /\ messages' \in Seq([turn : Turns, answer : Seq(Tokens)])
        /\ Len(messages') = Len(messages) + 1 /\ messages'[Len(messages) + 1] = m
        /\ \A i \in 1 .. Len(messages) : messages'[i] = messages[i]
    BY <1>4, <1>8, <2>1, AppendProperties
  <2>3. Len(messages) \in Nat
    BY <2>1
  <2>4. messages' # <<>>
    BY <2>2, <2>3
  <2> QED
    BY <2>2, <2>3, <2>4
<1>12. OnScreen' = 0
  BY <1>8, <1>11 DEF OnScreen
<1>13. ScreenInv'
  <2>1. \A i \in 1 .. Len(messages) :
          messages[i].turn \in Turns /\ messages[i].turn <= sent /\ Shows(messages[i])
    BY Exchanges DEF ChatInv, ScreenInv
  <2>2. \A i \in 1 .. Len(messages) : messages[i].turn # t /\ messages[i].turn <= t
    BY <1>1, <1>5, <2>1 DEF Turns
  <2>3. ASSUME NEW i \in 1 .. Len(messages)
        PROVE  messages'[i].turn <= sent' /\ Shows(messages[i])'
    <3>1. run'[messages[i].turn] = run[messages[i].turn] /\ messages'[i] = messages[i]
      BY <1>9, <1>11, <2>1, <2>2
    <3> QED
      BY <1>4, <2>1, <2>2, <3>1, ZenonT(60) DEF Shows
  <2>4. ASSUME NEW i, i = Len(messages) + 1
        PROVE  messages'[i].turn = t /\ Shows(messages[i])'
    <3>1. messages'[i] = m
      BY <1>11, <2>4
    <3> QED
      BY <1>7, <1>8, <1>9, <3>1 DEF Shows
  <2>5. messages'[Len(messages')].turn = sent'
    BY <1>4, <1>11, <2>4
  <2>6. ASSUME NEW i \in 1 .. Len(messages')
        PROVE  messages'[i].turn <= sent' /\ Shows(messages[i])'
    <3>1. i \in 1 .. Len(messages) \/ i = Len(messages) + 1
      BY <1>11
    <3>2. CASE i \in 1 .. Len(messages)
      BY <2>3, <3>2
    <3>3. CASE i = Len(messages) + 1
      BY <1>4, <1>5, <2>4, <3>3
    <3> QED
      BY <3>1, <3>2, <3>3
  <2> QED
    BY <1>11, <2>5, <2>6 DEF ScreenInv
<1>14. StreamInv'
  <2>1. (buffer \o wire)' = <<>>
    BY <1>4
  <2>2. run'[sent'] = r /\ error' = "none"
    BY <1>4, <1>9
  <2>3. PICK Q : Q = <<>>
    OBVIOUS
  <2>4. Q \in Seq(Frames) /\ Len(Q) = 0
    BY <2>3
  <2>5. Spells((buffer \o wire)', Q)
    BY <2>1, <2>4 DEF Spells
  <2>c. PICK c \in Nat : c = 0
    OBVIOUS
  <2>6. Pending(Q, c)'
    <3>1. Len((buffer \o wire)') = 0 /\ connection' = "open" /\ ~Says(Q, "done")
      BY <1>4, <2>1, <2>4 DEF Says
    <3>2. c = 0 /\ OnScreen' + c = r.told /\ Len((buffer \o wire)') = 5 * Len(Q)
      BY <1>7, <1>12, <2>4, <2>c, <3>1
    <3> QED
      BY <1>7, <2>2, <2>4, <2>5, <3>1, <3>2 DEF Pending, Says
  <2> QED
    BY <2>4, <2>6 DEF StreamInv
<1>15. TypeOK'
  <2>1. sent' \in 0 .. MaxTurns /\ isStreaming' \in BOOLEAN
    BY <1>4, <1>5 DEF Turns
  <2>2. buffer' \in Seq(Symbols) /\ wire' \in Seq(Symbols)
    BY <1>4
  <2> QED
    BY <1>4, <1>9, <1>11, <2>1, <2>2 DEF ChatInv, TypeOK, Runs
<1> QED
  BY <1>4, <1>10, <1>13, <1>14, <1>15 DEF ChatInv, SilenceInv

\* The next chunk moves from the wire to the buffer.
LEMMA ChatChunk ==
    ASSUME ChatInv, ReadChunk PROVE ChatInv'
<1>1. PICK n \in 1 .. Len(wire) :
        /\ buffer' = buffer \o SubSeq(wire, 1, n)
        /\ wire' = SubSeq(wire, n + 1, Len(wire))
  BY DEF ReadChunk
<1>2. UNCHANGED <<available, thread, messages, isStreaming, error, reloads, late, run, memory,
                  connection, sent>>
  BY DEF ReadChunk, server
<1>3. buffer \in Seq(Symbols) /\ wire \in Seq(Symbols) /\ Len(wire) \in Nat
  BY DEF ChatInv, TypeOK
<1>4. /\ SubSeq(wire, 1, n) \in Seq(Symbols) /\ SubSeq(wire, n + 1, Len(wire)) \in Seq(Symbols)
      /\ SubSeq(wire, 1, n) \o SubSeq(wire, n + 1, Len(wire)) = wire
  <2>1. \A i \in 1 .. Len(wire) : wire[i] \in Symbols
    BY <1>3
  <2>2. SubSeq(wire, 1, n) \in Seq(Symbols) /\ SubSeq(wire, n + 1, Len(wire)) \in Seq(Symbols)
    BY <1>3, <2>1, SubSeqProperties
  <2>3. SubSeq(wire, 1, n) \o SubSeq(wire, n + 1, Len(wire)) = SubSeq(wire, 1, Len(wire))
    BY <1>3, ConcatAdjacentSubSeq
  <2> QED
    BY <1>3, <2>2, <2>3, SubSeqFull
<1>5. (buffer \o wire)' = buffer \o wire /\ buffer' \in Seq(Symbols) /\ wire' \in Seq(Symbols)
  <2>0. ASSUME NEW p \in Seq(Symbols), NEW q \in Seq(Symbols)
        PROVE  (buffer \o p) \o q = buffer \o (p \o q)
    BY <1>3, ConcatAssociative, SMTT(30)
  <2>1. (buffer \o SubSeq(wire, 1, n)) \o SubSeq(wire, n + 1, Len(wire))
          = buffer \o (SubSeq(wire, 1, n) \o SubSeq(wire, n + 1, Len(wire)))
    BY <1>4, <2>0
  <2>2. buffer \o SubSeq(wire, 1, n) \in Seq(Symbols)
    BY <1>3, <1>4, ConcatProperties
  <2> QED
    BY <1>1, <1>4, <2>1, <2>2
<1>6. StreamInv'
  <2> SUFFICES ASSUME isStreaming PROVE StreamInv'
    BY <1>2 DEF StreamInv
  <2>1. PICK Q \in Seq(Frames), c \in Nat : Pending(Q, c)
    BY DEF ChatInv, StreamInv
  <2>2. Pending(Q, c)'
    BY <1>2, <1>5, <2>1, KeptStays DEF Pending, OnScreen
  <2> QED
    BY <2>2 DEF StreamInv
<1>7. TypeOK'
  BY <1>2, <1>5 DEF ChatInv, TypeOK
<1>8. RunsInv' /\ ScreenInv' /\ SilenceInv'
  BY <1>2, KeptStays DEF ChatInv, RunsInv, ScreenInv, SilenceInv, Shows, OnScreen
<1> QED
  BY <1>6, <1>7, <1>8 DEF ChatInv

\* A stream that is given up, and a page that shows nothing.
LEMMA ChatEnds ==
    ASSUME ChatInv, StatusArrives \/ StreamRejects \/ NewChat \/ Reload
    PROVE  ChatInv'
<1>1. UNCHANGED <<run, memory, sent>>
  BY DEF StatusArrives, StreamRejects, NewChat, Reload, server
<1>2. RunsInv'
  BY <1>1 DEF ChatInv, RunsInv
<1>3. CASE StatusArrives
  <2>1. UNCHANGED <<thread, messages, isStreaming, error, buffer, reloads, late, wire, connection>>
        /\ available' \in {"yes", "no"}
    BY <1>3 DEF StatusArrives, server
  <2>2. TypeOK'
    BY <1>1, <2>1 DEF ChatInv, TypeOK
  <2>3. ScreenInv' /\ SilenceInv'
    BY <1>1, <2>1, KeptStays DEF ChatInv, ScreenInv, SilenceInv, Shows, OnScreen
  <2>4. StreamInv'
    BY <1>1, <2>1, KeptStays, StreamStays
  <2> QED
    BY <1>2, <2>2, <2>3, <2>4 DEF ChatInv
<1>4. CASE StreamRejects
  <2>1. /\ isStreaming' = FALSE /\ error' = "network" /\ connection' = "closed" /\ buffer' = <<>>
        /\ UNCHANGED <<available, thread, messages, reloads, late, wire>>
    BY <1>4 DEF StreamRejects, StreamingAfter, server
  <2>2. TypeOK'
    <3>1. buffer' \in Seq(Symbols)
      BY <2>1
    <3> QED
      BY <1>1, <2>1, <3>1 DEF ChatInv, TypeOK
  <2>3. ScreenInv'
    BY <1>1, <2>1 DEF ChatInv, ScreenInv, Shows
  <2> QED
    BY <1>2, <2>1, <2>2, <2>3 DEF ChatInv, SilenceInv, StreamInv
<1>5. CASE NewChat \/ Reload
  <2>1. messages' = <<>> /\ isStreaming' = FALSE
    BY <1>5 DEF NewChat, Reload, Cleared
  <2>2. TypeOK'
    <3>1. thread' \in Threads
      <4>1. CASE NewChat
        BY <4>1, BoundsAssumption DEF NewChat, ChatInv, TypeOK, Threads
      <4>2. CASE Reload
        BY <4>2 DEF Reload, ChatInv, TypeOK
      <4> QED
        BY <1>5, <4>1, <4>2
    <3>r. reloads' \in 0 .. MaxReloads
      <4>1. CASE NewChat
        BY <4>1 DEF NewChat, ChatInv, TypeOK
      <4>2. CASE Reload
        BY <4>2, BoundsAssumption DEF Reload, ChatInv, TypeOK
      <4> QED
        BY <1>5, <4>1, <4>2
    <3>2. messages' \in Seq([turn : Turns, answer : Seq(Tokens)])
      BY <2>1
    <3>3. buffer' \in Seq(Symbols) /\ wire' \in Seq(Symbols)
      <4>1. CASE NewChat
        BY <4>1 DEF NewChat, ChatInv, TypeOK
      <4>2. CASE Reload
        BY <4>2 DEF Reload
      <4> QED
        BY <1>5, <4>1, <4>2
    <3>4. late' \in BOOLEAN
      BY <1>5 DEF NewChat, Reload, server, ChatInv, TypeOK
    <3> QED
      BY <1>1, <1>5, <2>1, <3>1, <3>r, <3>2, <3>3, <3>4 DEF NewChat, Reload, ChatInv, TypeOK
  <2>3. ScreenInv' /\ SilenceInv' /\ StreamInv'
    BY <2>1 DEF ScreenInv, SilenceInv, StreamInv
  <2> QED
    BY <1>2, <2>2, <2>3 DEF ChatInv
<1> QED
  BY <1>3, <1>4, <1>5

\* The first frame goes from the buffer to the screen: a token, a failure or done.
LEMMA ChatTake ==
    ASSUME ChatInv, TakeFrame PROVE ChatInv'
<1>1. isStreaming /\ FrameEnds(buffer) # {}
      /\ UNCHANGED <<available, thread, reloads, late, run, memory, wire, sent>>
  BY DEF TakeFrame, server
<1>2. PICK Q \in Seq(Frames), c \in Nat : Pending(Q, c)
  BY <1>1 DEF ChatInv, StreamInv
<1>3. /\ buffer \in Seq(Symbols) /\ wire \in Seq(Symbols)
      /\ messages \in Seq([turn : Turns, answer : Seq(Tokens)])
  BY DEF ChatInv, TypeOK
<1>4. /\ Len(Q) >= 1 /\ Len(buffer) >= 5
      /\ \A j \in 1 .. 5 : buffer[j] = FormatSse(Q[1].event, Q[1].text)[j]
      /\ 4 \in FrameEnds(buffer) /\ \A i \in FrameEnds(buffer) : i \in Nat /\ 4 <= i
  <2>1. Spells(buffer \o wire, Q)
    BY <1>2 DEF Pending
  <2> QED
    BY <1>1, <1>3, <2>1, FirstFrameEnds
<1>5. PICK event, text : event = Q[1].event /\ text = Q[1].text
  OBVIOUS
<1>6. /\ LineSays(SubSeq(buffer, 1, 4), "event") = event
      /\ LineSays(SubSeq(buffer, 1, 4), "data") = text
  BY <1>3, <1>4, <1>5, FirstFrameSays
<1>7. /\ buffer' = Unconsumed(buffer, 4)
      /\ messages' = IF IsToken(event, text)
                     THEN [messages EXCEPT ![Len(messages)].answer = Append(@, text)]
                     ELSE messages
      /\ error' = IF event = "error" THEN "server" ELSE error
      /\ isStreaming' = IF event = "done" THEN FALSE ELSE TRUE
      /\ connection' = IF event = "done" THEN "closed" ELSE connection
  <2>1. PICK at \in FrameEnds(buffer) :
          /\ \A i \in FrameEnds(buffer) : at <= i
          /\ buffer' = Unconsumed(buffer, at)
          /\ LET says == LineSays(SubSeq(buffer, 1, at), "event")
                 data == LineSays(SubSeq(buffer, 1, at), "data")
             IN  /\ messages' = IF IsToken(says, data)
                                THEN [messages EXCEPT ![Len(messages)].answer = Append(@, data)]
                                ELSE messages
                 /\ error' = IF says = "error" THEN "server" ELSE error
                 /\ isStreaming' = IF says = "done" THEN FALSE ELSE TRUE
                 /\ connection' = IF says = "done" THEN "closed" ELSE connection
    BY DEF TakeFrame, StreamingAfter
  <2>2. at = 4
    BY <1>4, <2>1
  <2> QED
    BY <1>6, <2>1, <2>2
<1>8. PICK R : R = Tail(Q)
  OBVIOUS
<1>9. /\ R \in Seq(Frames) /\ Len(Q) \in Nat /\ Len(R) = Len(Q) - 1
      /\ \A k \in 1 .. Len(R) : R[k] = Q[k + 1]
  <2>1. Len(Q) \in Nat /\ (Len(Q) = 0 <=> Q = <<>>)
    OBVIOUS
  <2>2. Q # <<>>
    BY <1>4, <2>1
  <2> QED
    BY <1>8, <2>1, <2>2, HeadTailProperties
<1>10. /\ buffer' \in Seq(Symbols) /\ Spells((buffer \o wire)', R)
       /\ Len((buffer \o wire)') = Len(buffer \o wire) - 5 /\ Len(buffer \o wire) \in Nat
  <2>1. Spells(buffer \o wire, Q)
    BY <1>2 DEF Pending
  <2>2. Len(buffer \o wire) \in Nat
    BY <1>3, ConcatProperties
  <2> QED
    BY <1>1, <1>3, <1>4, <1>7, <1>8, <2>1, <2>2, FirstFrameTaken
<1> DEFINE last == Len(messages)
<1>11. /\ last \in Nat /\ last \in 1 .. last /\ sent \in Turns /\ messages[last].turn = sent
       /\ messages # <<>>
       /\ OnScreen \in Nat /\ OnScreen = Len(messages[last].answer)
       /\ messages[last].answer \in Seq(Tokens)
  BY <1>1, Exchanges DEF ChatInv, ScreenInv, OnScreen
<1>12. /\ run[sent].answer \in Seq(Tokens) /\ run[sent].told \in Nat
       /\ run[sent].told <= Len(run[sent].answer) /\ run[sent].phase \in Phases
  BY <1>11, RunTypes DEF ChatInv, RunsInv
<1>13. RunsInv'
  BY <1>1 DEF ChatInv, RunsInv
<1>14. error' \in {"none", "server", "network"} /\ isStreaming' \in BOOLEAN
       /\ connection' \in {"closed", "open", "broken"}
  BY <1>7 DEF ChatInv, TypeOK
<1>15. CASE c >= 1
  <2>1. /\ event = "token" /\ text = run[sent].answer[OnScreen + 1]
        /\ OnScreen + 1 <= run[sent].told /\ OnScreen + 1 \in 1 .. Len(run[sent].answer)
    <3>1. OnScreen + c <= run[sent].told /\ c <= Len(Q)
          /\ \A k \in 1 .. c : Q[k] = Frame("token", run[sent].answer[OnScreen + k])
      BY <1>2 DEF Pending
    <3>2. 1 \in 1 .. c /\ OnScreen + 1 <= run[sent].told
          /\ OnScreen + 1 \in 1 .. Len(run[sent].answer)
      <4>1. Len(run[sent].answer) \in Nat
        BY <1>11, RunTypes
      <4>2. PICK o, told, len \in Nat :
              o = OnScreen /\ told = run[sent].told /\ len = Len(run[sent].answer)
        BY <1>11, <1>12, <4>1
      <4>3. c \in Nat /\ o + c <= told /\ told <= len
        BY <1>12, <3>1, <4>2
      <4>4. 1 \in 1 .. c /\ o + 1 <= told /\ o + 1 \in 1 .. len
        BY ONLY <1>15, <4>2, <4>3
      <4> QED
        BY <4>2, <4>4
    <3>3. Q[1] = Frame("token", run[sent].answer[OnScreen + 1])
      BY <3>1, <3>2
    <3> QED
      BY <1>5, <3>2, <3>3 DEF Frame
  <2>2. text \in Tokens /\ text # "none"
    BY <1>12, <2>1, ElementOfSeq, TokensAssumption
  <2>3. PICK more : more = Append(messages[last].answer, text)
    OBVIOUS
  <2>4. /\ more \in Seq(Tokens) /\ Len(more) = OnScreen + 1 /\ more[OnScreen + 1] = text
        /\ \A j \in 1 .. OnScreen : more[j] = messages[last].answer[j]
    BY <1>11, <2>2, <2>3, AppendProperties
  <2>5. messages' = [messages EXCEPT ![last].answer = more]
    BY <1>7, <2>1, <2>2, <2>3 DEF IsToken
  <2>6. /\ messages' \in Seq([turn : Turns, answer : Seq(Tokens)])
        /\ Len(messages') = last /\ messages'[last].turn = sent
        /\ messages'[last].answer = more
        /\ \A i \in 1 .. last : i # last => messages'[i] = messages[i]
    <3>1. PICK m : m = [messages[last] EXCEPT !.answer = more]
      OBVIOUS
    <3>2. messages[last] \in [turn : Turns, answer : Seq(Tokens)]
      BY <1>3, <1>11, ElementOfSeq
    <3>3. m \in [turn : Turns, answer : Seq(Tokens)] /\ m.turn = sent /\ m.answer = more
      BY <1>11, <2>4, <3>1, <3>2
    <3>4. messages' = [messages EXCEPT ![last] = m]
      BY <2>5, <3>1
    <3>5. /\ messages' \in Seq([turn : Turns, answer : Seq(Tokens)])
          /\ Len(messages') = last /\ messages'[last] = m
          /\ \A i \in 1 .. last : i # last => messages'[i] = messages[i]
      BY <1>3, <1>11, <3>3, <3>4, ExceptSeq
    <3> QED
      BY <3>3, <3>5
  <2>7. OnScreen' = OnScreen + 1
    BY <2>4, <2>6 DEF OnScreen
  <2>8. error' = error /\ isStreaming' = TRUE /\ connection' = connection
    BY <1>7, <2>1
  <2>9. ScreenInv'
    <3>1. ASSUME NEW i \in 1 .. last, i # last
          PROVE  messages'[i].turn <= sent' /\ Shows(messages[i])'
      BY <1>1, <2>6, <3>1 DEF ChatInv, ScreenInv, Shows
    <3>2. Shows(messages[last])'
      <4>1. ASSUME NEW j \in 1 .. OnScreen + 1 PROVE more[j] = run[sent].answer[j]
        <5>1. CASE j = OnScreen + 1
          BY <2>1, <2>4, <5>1
        <5>2. CASE j \in 1 .. OnScreen
          BY <1>11, <2>4, <5>2 DEF ChatInv, ScreenInv, Shows
        <5>3. \A o \in Nat : \A i \in 1 .. o + 1 : i = o + 1 \/ i \in 1 .. o
          OBVIOUS
        <5> QED
          BY <1>11, <5>1, <5>2, <5>3
      <4> QED
        BY <1>1, <2>1, <2>4, <2>6, <4>1 DEF Shows
    <3>3. sent <= sent /\ messages' # <<>>
      BY <1>11, <2>6 DEF ChatInv, TypeOK
    <3> QED
      BY <1>1, <1>11, <2>6, <2>8, <3>1, <3>2, <3>3 DEF ScreenInv
  <2>10. PICK d \in Nat : d = c - 1
    BY <1>15
  <2>11. Pending(R, d)'
    <3>1. /\ c <= Len(Q) /\ OnScreen + c <= run[sent].told
          /\ \A k \in 1 .. c : Q[k] = Frame("token", run[sent].answer[OnScreen + k])
          /\ \A k \in c + 1 .. Len(Q) :
               /\ Q[k].text = "none" /\ Q[k].event \in {"error", "done"}
               /\ Q[k].event = "done" => k = Len(Q)
          /\ connection = "open" =>
               /\ Len(buffer \o wire) = 5 * Len(Q) /\ OnScreen + c = run[sent].told
               /\ run[sent].phase \in {"asked", "answering", "failing"} => c = Len(Q)
               /\ run[sent].phase = "finishing" =>
                    \/ run[sent].told = Len(run[sent].answer) /\ Kept
                    \/ error # "none" \/ Says(Q, "error")
          /\ Says(Q, "done") =>
               /\ run[sent].phase = "over"
               /\ \/ OnScreen + c = Len(run[sent].answer) /\ Kept
                  \/ error # "none" \/ Says(Q, "error")
      BY <1>2 DEF Pending
    <3>2. d <= Len(R) /\ OnScreen' + d = OnScreen + c /\ (c = Len(Q) => d = Len(R))
      <4>1. OnScreen' = OnScreen + 1 /\ d = c - 1 /\ Len(R) = Len(Q) - 1 /\ c <= Len(Q)
        BY <1>9, <2>7, <2>10, <3>1
      <4>2. OnScreen \in Nat /\ c \in Nat /\ d \in Nat /\ Len(Q) \in Nat
        BY <1>9, <1>11, <2>10
      <4> QED
        BY ONLY <4>1, <4>2
    <3>3. ASSUME NEW k \in 1 .. d PROVE R[k] = Frame("token", run[sent].answer[OnScreen' + k])
      <4>1. k \in 1 .. Len(R) /\ k + 1 \in 1 .. c /\ OnScreen' + k = OnScreen + (k + 1)
        <5>1. \A o \in Nat : (o + 1) + k = o + (k + 1)
          OBVIOUS
        <5>2. k \in 1 .. Len(R) /\ k + 1 \in 1 .. c
          BY <1>9, <2>10, <3>1
        <5> QED
          BY <1>11, <2>7, <5>1, <5>2
      <4> QED
        BY <1>9, <3>1, <4>1
    <3>4. ASSUME NEW k \in d + 1 .. Len(R)
          PROVE  /\ R[k].text = "none" /\ R[k].event \in {"error", "done"}
                 /\ R[k].event = "done" => k = Len(R)
      <4>1. k \in 1 .. Len(R) /\ k + 1 \in c + 1 .. Len(Q) /\ (k + 1 = Len(Q) => k = Len(R))
        BY <1>9, <2>10
      <4> QED
        BY <1>9, <3>1, <4>1
    <3>5. \A e \in {"error", "done"} : Says(Q, e) <=> Says(R, e)
      <4>1. Q[1].event = "token"
        BY <1>5, <2>1
      <4>2. ASSUME NEW e \in {"error", "done"}, NEW k \in 1 .. Len(Q), Q[k].event = e
            PROVE  Says(R, e)
        <5>1. k - 1 \in 1 .. Len(R) /\ (k - 1) + 1 = k
          BY <1>9, <4>1, <4>2
        <5> QED
          BY <1>9, <4>2, <5>1 DEF Says
      <4>3. \A k \in 1 .. Len(R) : k + 1 \in 1 .. Len(Q) /\ R[k] = Q[k + 1]
        BY <1>9
      <4> QED
        BY <4>2, <4>3 DEF Says
    <3>6. connection = "open" => Len((buffer \o wire)') = 5 * Len(R)
      BY <1>9, <1>10, <3>1
    <3>7. Kept' <=> Kept
      BY <1>1, KeptStays
    <3> QED
      BY <1>1, <1>10, <2>8, <3>1, <3>2, <3>3, <3>4, <3>5, <3>6, <3>7, SMTT(30) DEF Pending
  <2>12. StreamInv'
    BY <1>9, <2>11 DEF StreamInv
  <2>13. TypeOK'
    BY <1>1, <1>10, <1>14, <2>6 DEF ChatInv, TypeOK
  <2> QED
    BY <1>13, <2>8, <2>9, <2>12, <2>13 DEF ChatInv, SilenceInv
<1>16. CASE c = 0
  <2>1. /\ text = "none" /\ event \in {"error", "done"}
        /\ \A k \in 1 .. Len(Q) :
             /\ Q[k].text = "none" /\ Q[k].event \in {"error", "done"}
             /\ Q[k].event = "done" => k = Len(Q)
    <3>1. /\ \A k \in 1 .. Len(Q) :
               /\ Q[k].text = "none" /\ Q[k].event \in {"error", "done"}
               /\ Q[k].event = "done" => k = Len(Q)
          /\ 1 \in 1 .. Len(Q)
      BY <1>2, <1>4, <1>9, <1>16 DEF Pending
    <3> QED
      BY <1>5, <3>1
  <2>2. messages' = messages /\ OnScreen' = OnScreen
    <3>1. messages' = messages
      BY <1>7, <2>1 DEF IsToken
    <3> QED
      BY <3>1 DEF OnScreen
  <2>3. TypeOK'
    BY <1>1, <1>3, <1>10, <1>14, <2>2 DEF ChatInv, TypeOK
  <2>4. CASE event = "error"
    <3>1. error' = "server" /\ isStreaming' = TRUE /\ connection' = connection
      BY <1>7, <2>4
    <3>2. ScreenInv'
      BY <1>1, <2>2, <3>1 DEF ChatInv, ScreenInv, Shows
    <3>3. Pending(R, c)'
      <4>1. /\ OnScreen + c <= run[sent].told
            /\ connection = "open" =>
                 /\ Len(buffer \o wire) = 5 * Len(Q) /\ OnScreen + c = run[sent].told
                 /\ run[sent].phase \notin {"asked", "answering", "failing"}
            /\ Says(Q, "done") => run[sent].phase = "over"
        BY <1>2, <1>4, <1>9, <1>16 DEF Pending
      <4>2. ASSUME NEW k \in 1 .. Len(R)
            PROVE  /\ R[k] = Q[k + 1] /\ k + 1 \in 1 .. Len(Q)
                   /\ R[k].text = "none" /\ R[k].event \in {"error", "done"}
                   /\ R[k].event = "done" => k = Len(R)
        <5>1. R[k] = Q[k + 1] /\ k + 1 \in 1 .. Len(Q) /\ (k + 1 = Len(Q) => k = Len(R))
          BY <1>9
        <5> QED
          BY <2>1, <5>1
      <4>3. Says(R, "done") => Says(Q, "done")
        BY <4>2 DEF Says
      <4>4. connection = "open" => Len((buffer \o wire)') = 5 * Len(R)
        BY <1>9, <1>10, <4>1
      <4>5. c <= Len(R) /\ (\A k \in c + 1 .. Len(R) : k \in 1 .. Len(R)) /\ 1 .. c = {}
        BY <1>4, <1>9, <1>16
      <4> QED
        BY <1>1, <1>10, <2>2, <3>1, <4>1, <4>2, <4>3, <4>4, <4>5, KeptStays DEF Pending
    <3>4. StreamInv'
      BY <1>9, <3>3 DEF StreamInv
    <3> QED
      BY <1>13, <2>3, <3>1, <3>2, <3>4 DEF ChatInv, SilenceInv
  <2>5. CASE event = "done"
    <3>1. error' = error /\ isStreaming' = FALSE
      BY <1>7, <2>5
    <3>2. 1 \in 1 .. Len(Q) /\ Q[1].event = "done" /\ Len(Q) = 1
      <4>1. 1 \in 1 .. Len(Q) /\ Q[1].event = "done"
        BY <1>4, <1>5, <1>9, <2>5
      <4> QED
        BY <2>1, <4>1
    <3>3. Says(Q, "done") /\ ~Says(Q, "error")
      BY <3>2 DEF Says
    <3>4. run[sent].phase = "over" /\ ((OnScreen = Len(run[sent].answer) /\ Kept) \/ error # "none")
      BY <1>2, <1>11, <1>16, <3>3 DEF Pending
    <3>5. ScreenInv'
      BY <1>1, <1>11, <2>2, <3>1, <3>4 DEF ChatInv, ScreenInv, Shows
    <3>6. SilenceInv'
      <4>1. Kept' <=> Kept
        BY <1>1, KeptStays
      <4> QED
        BY <1>1, <2>2, <3>1, <3>4, <4>1 DEF SilenceInv
    <3> QED
      BY <1>13, <2>3, <3>1, <3>5, <3>6 DEF ChatInv, StreamInv
  <2> QED
    BY <2>1, <2>4, <2>5
<1> QED
  BY <1>15, <1>16

----------------------------------------------------------------------------
(* What the threads remember.                                              *)

\* A step that leaves the threads alone, starts no answer and shows no new exchange.
LEMMA MemoryStays ==
    ASSUME ChatInv, MemoryInv, UNCHANGED <<memory, sent, thread, late>>,
           messages' = <<>> \/ Len(messages') = Len(messages),
           \A i \in 1 .. Len(messages') : messages'[i].turn = messages[i].turn,
           \A t \in Turns :
               /\ run'[t].thread = run[t].thread /\ run'[t].known = run[t].known
               /\ run'[t].phase \in {"unsent", "asked", "answering"} =>
                    run'[t].phase = run[t].phase
    PROVE  MemoryInv'
<1>1. LatestTurns'
  BY Exchanges DEF MemoryInv, LatestTurns
<1>2. \A t \in Turns : run'[t].phase \in {"unsent", "asked"} => run'[t].known = <<>>
  BY DEF MemoryInv
<1>3. FreshThreads'
  BY DEF MemoryInv, FreshThreads
<1>4. ASSUME ~late' PROVE RememberedTurns'
  <2>1. RememberedTurns
    BY <1>4 DEF MemoryInv
  <2>2. \A k \in 1 .. Len(memory[thread]) : memory[thread][k].turn \in Turns
    BY MemoryTypes DEF ChatInv, TypeOK
  <2> QED
    BY <2>1, <2>2 DEF RememberedTurns
<1> QED
  BY <1>1, <1>2, <1>3, <1>4 DEF MemoryInv

\* Nothing was ever said on the thread of a new chat.
LEMMA MemoryNew ==
    ASSUME ChatInv, MemoryInv, NewChat PROVE MemoryInv'
<1>1. /\ UNCHANGED <<run, memory, sent>> /\ messages' = <<>> /\ thread' = thread + 1
      /\ thread' \in Threads /\ thread \in Nat
  BY BoundsAssumption DEF NewChat, Cleared, ChatInv, TypeOK, Threads
<1>2. LatestTurns'
  BY <1>1 DEF LatestTurns
<1>3. \A t \in Turns : run[t].thread \in Nat /\ run[t].thread <= thread
  BY RunTypes, BoundsAssumption DEF MemoryInv, FreshThreads, Threads
<1>4. FreshThreads'
  <2>1. \A t \in Turns : run[t].thread <= thread + 1
    BY <1>1, <1>3
  <2>2. \A h \in Threads : h > thread + 1 => h > thread
    BY <1>1, BoundsAssumption DEF Threads
  <2> QED
    BY <1>1, <2>1, <2>2 DEF MemoryInv, FreshThreads
<1>5. RememberedTurns'
  <2>1. memory'[thread'] = <<>>
    BY <1>1 DEF MemoryInv, FreshThreads
  <2>2. \A t \in Turns : run'[t].thread # thread'
    BY <1>1, <1>3
  <2> QED
    BY <2>1, <2>2 DEF RememberedTurns
<1> QED
  BY <1>1, <1>2, <1>4, <1>5 DEF MemoryInv

LEMMA MemorySend ==
    ASSUME ChatInv, MemoryInv, Send PROVE MemoryInv'
<1>1. PICK m : m = [turn |-> sent + 1, answer |-> <<>>]
  OBVIOUS
<1>2. /\ ~isStreaming /\ isStreaming' = TRUE /\ sent' = sent + 1
      /\ messages' = Append(messages, m) /\ m.turn = sent + 1
      /\ run' = [run EXCEPT ![sent + 1].phase = "asked", ![sent + 1].thread = thread]
      /\ UNCHANGED <<thread, late, memory>>
  BY <1>1 DEF Send
<1>3. sent + 1 \in Turns /\ sent \in Nat /\ \A t \in Turns : t \in Nat
  BY BoundsAssumption DEF Send, ChatInv, TypeOK, Turns
<1>4. /\ run'[sent + 1].phase = "asked" /\ run'[sent + 1].thread = thread
      /\ run'[sent + 1].known = <<>> /\ run[sent + 1].known = <<>>
      /\ \A t \in Turns : t # sent + 1 => run'[t] = run[t]
  <2>1. run[sent + 1] = Idle
    BY <1>3 DEF ChatInv, RunsInv
  <2> QED
    BY <1>2, <1>3, <2>1, RunTypes DEF Idle, Runs
<1>5. /\ Len(messages') = Len(messages) + 1 /\ messages'[Len(messages) + 1] = m
      /\ \A i \in 1 .. Len(messages) : messages'[i] = messages[i]
      /\ Len(messages) \in Nat
  <2>1. messages \in Seq([turn : Turns, answer : Seq(Tokens)])
    BY DEF ChatInv, TypeOK
  <2>2. m \in [turn : Turns, answer : Seq(Tokens)]
    BY <1>1, <1>3
  <2> QED
    BY <1>2, <2>1, <2>2, AppendProperties
<1>6. LatestTurns'
  <2> SUFFICES ASSUME NEW i \in 1 .. Len(messages')
               PROVE  /\ messages'[i].turn = (sent' + i) - Len(messages')
                      /\ run'[messages'[i].turn].thread = thread'
    BY DEF LatestTurns
  <2>1. CASE i = Len(messages) + 1
    <3>1. messages'[i].turn = sent + 1
      BY <1>2, <1>5, <2>1
    <3>2. sent + 1 = ((sent + 1) + i) - (Len(messages) + 1)
      BY <1>3, <1>5, <2>1
    <3> QED
      BY <1>2, <1>4, <1>5, <3>1, <3>2
  <2>2. CASE i \in 1 .. Len(messages)
    <3>1. /\ messages[i].turn = (sent + i) - Len(messages) /\ messages[i].turn \in Turns
          /\ run[messages[i].turn].thread = thread /\ messages'[i] = messages[i]
      BY <1>5, <2>2, Exchanges DEF MemoryInv, LatestTurns
    <3>2. (sent + i) - Len(messages) = ((sent + 1) + i) - (Len(messages) + 1)
      BY <1>3, <1>5, <2>2
    <3>3. (sent + i) - Len(messages) # sent + 1
      BY <1>3, <1>5, <2>2
    <3> QED
      BY <1>2, <1>4, <1>5, <3>1, <3>2, <3>3
  <2> QED
    BY <1>5, <2>1, <2>2
<1>7. \A t \in Turns : run'[t].phase \in {"unsent", "asked"} => run'[t].known = <<>>
  BY <1>4 DEF MemoryInv
<1>8. FreshThreads'
  <2>1. thread <= thread
    BY BoundsAssumption DEF ChatInv, TypeOK, Threads
  <2>2. \A t \in Turns : run'[t].thread = run[t].thread \/ run'[t].thread = thread
    BY <1>4
  <2> QED
    BY <1>2, <2>1, <2>2 DEF MemoryInv, FreshThreads
<1>9. ASSUME ~late' PROVE RememberedTurns'
  <2>1. RememberedTurns
    BY <1>2, <1>9 DEF MemoryInv
  <2>2. PICK kept : kept = memory[thread] /\ kept = memory'[thread']
    BY <1>2
  <2>3. \A k \in 1 .. Len(kept) :
          /\ kept[k].turn \in Turns /\ kept[k].turn <= sent
          /\ run[kept[k].turn].known # <<>> /\ run[kept[k].turn].thread = thread
    BY <2>1, <2>2, MemoryTypes DEF RememberedTurns, ChatInv, TypeOK
  <2>4. \A k \in 1 .. Len(kept) : kept[k].turn <= sent + 1 /\ kept[k].turn # sent + 1
    BY <1>3, <1>4, <2>3
  <2>5. \A k \in 1 .. Len(kept) :
          /\ kept[k].turn <= sent'
          /\ run'[kept[k].turn].known # <<>> /\ run'[kept[k].turn].thread = thread'
    BY <1>2, <1>4, <2>3, <2>4
  <2>6. \A k, l \in 1 .. Len(kept) : k < l => kept[k].turn < kept[l].turn
    BY <2>1, <2>2 DEF RememberedTurns
  <2>7. \A t \in Turns :
          run'[t].known # <<>> /\ run'[t].thread = thread' =>
              \E k \in 1 .. Len(kept) : kept[k].turn = t
    <3> SUFFICES ASSUME NEW t \in Turns, run'[t].known # <<>>, run'[t].thread = thread'
                 PROVE  \E k \in 1 .. Len(kept) : kept[k].turn = t
      OBVIOUS
    <3>1. run[t].known # <<>> /\ run[t].thread = thread
      BY <1>2, <1>4
    <3> QED
      BY <2>1, <2>2, <3>1 DEF RememberedTurns
  <2>8. \A t \in Turns : t = sent' => run'[t].phase # "answering"
    BY <1>2, <1>4
  <2> QED
    BY <2>2, <2>5, <2>6, <2>7, <2>8 DEF RememberedTurns
<1> QED
  BY <1>6, <1>7, <1>8, <1>9 DEF MemoryInv

\* A run of another thread writes its own.
LEMMA MemoryElsewhere ==
    ASSUME ChatInv, MemoryInv, ~late, NEW t \in Turns, run[t].thread # thread,
           UNCHANGED <<thread, sent>>, memory'[thread] = memory[thread],
           run'[t].thread = run[t].thread, \A u \in Turns : u # t => run'[u] = run[u]
    PROVE  RememberedTurns'
<1>1. RememberedTurns
  BY DEF MemoryInv
<1>2. PICK kept : kept = memory[thread] /\ kept = memory'[thread']
  OBVIOUS
<1>3. \A k \in 1 .. Len(kept) :
        /\ kept[k].turn \in Turns /\ kept[k].turn <= sent
        /\ run[kept[k].turn].known # <<>> /\ run[kept[k].turn].thread = thread
  BY <1>1, <1>2, MemoryTypes DEF RememberedTurns, ChatInv, TypeOK
<1>4. \A k \in 1 .. Len(kept) :
        /\ kept[k].turn <= sent'
        /\ run'[kept[k].turn].known # <<>> /\ run'[kept[k].turn].thread = thread'
  BY <1>3
<1>5. \A k, l \in 1 .. Len(kept) : k < l => kept[k].turn < kept[l].turn
  BY <1>1, <1>2 DEF RememberedTurns
<1>6. \A u \in Turns :
        run'[u].known # <<>> /\ run'[u].thread = thread' =>
            \E k \in 1 .. Len(kept) : kept[k].turn = u
  BY <1>1, <1>2 DEF RememberedTurns
<1>7. \A u \in Turns :
        u = sent' /\ run'[u].phase = "answering" /\ run'[u].thread = thread' =>
            kept = run'[u].known
  BY <1>1, <1>2 DEF RememberedTurns
<1> QED
  BY <1>2, <1>4, <1>5, <1>6, <1>7 DEF RememberedTurns

\* A question is remembered, or its answer.
LEMMA MemoryBegin ==
    ASSUME ChatInv, MemoryInv, NEW t \in Turns, BeginTurn(t) PROVE MemoryInv'
<1>1. PICK q : q = [turn |-> t, answered |-> FALSE]
  OBVIOUS
<1>2. PICK known : known = Append(memory[run[t].thread], q)
  OBVIOUS
<1>3. /\ run[t].phase = "asked" /\ memory' = [memory EXCEPT ![run[t].thread] = known]
      /\ UNCHANGED <<thread, messages, isStreaming, sent>> /\ late' = (late \/ WritesLate(t))
      /\ \E answer \in Answers :
           run' = [run EXCEPT ![t].phase = "answering", ![t].answer = answer, ![t].known = known]
  BY <1>1, <1>2 DEF BeginTurn, panel
<1>4. /\ run'[t].phase = "answering" /\ run'[t].thread = run[t].thread
      /\ run'[t].known = known /\ run[t].known = <<>>
      /\ \A u \in Turns : u # t => run'[u] = run[u]
  BY <1>3, RunTypes DEF Runs, MemoryInv
<1>5. /\ q.turn = t /\ q \in Remembered
      /\ Len(known) = Len(memory[run[t].thread]) + 1 /\ known[Len(known)] = q
      /\ \A k \in 1 .. Len(memory[run[t].thread]) : known[k] = memory[run[t].thread][k]
      /\ Len(memory[run[t].thread]) \in Nat
  <2>1. q.turn = t /\ q \in Remembered
    BY <1>1 DEF Remembered
  <2>2. memory[run[t].thread] \in Seq(Remembered) /\ Len(memory[run[t].thread]) \in Nat
    BY RunTypes, MemoryTypes
  <2> QED
    BY <1>2, <2>1, <2>2, AppendProperties
<1>6. known # <<>>
  BY <1>5
<1>7. \A u \in Turns : u \in Nat
  BY BoundsAssumption DEF Turns
<1>8. LatestTurns'
  <2>1. \A u \in Turns : run'[u].thread = run[u].thread
    BY <1>4
  <2> QED
    BY <1>3, <2>1, Exchanges DEF MemoryInv, LatestTurns
<1>9. \A u \in Turns : run'[u].phase \in {"unsent", "asked"} => run'[u].known = <<>>
  BY <1>4 DEF MemoryInv
<1>10. FreshThreads'
  <2>1. \A u \in Turns : run'[u].thread = run[u].thread
    BY <1>4
  <2>2. run[t].thread <= thread /\ run[t].thread \in Nat /\ thread \in Nat
    BY RunTypes, BoundsAssumption DEF MemoryInv, FreshThreads, ChatInv, TypeOK, Threads
  <2>3. \A h \in Threads : h > thread => h # run[t].thread
    BY <2>2
  <2>4. \A h \in Threads : h > thread => memory'[h] = memory[h]
    BY <1>3, <2>3 DEF ChatInv, TypeOK
  <2> QED
    BY <1>3, <2>1, <2>4 DEF MemoryInv, FreshThreads
<1>11. CASE ~late' /\ run[t].thread # thread
  <2>1. ~late /\ memory'[thread] = memory[thread]
    BY <1>3, <1>11 DEF ChatInv, TypeOK
  <2> QED
    BY <1>3, <1>4, <1>8, <1>9, <1>10, <1>11, <2>1, MemoryElsewhere DEF MemoryInv
<1>12. CASE ~late' /\ run[t].thread = thread
  <2>1. RememberedTurns /\ t = sent /\ thread \in Threads
    BY <1>3, <1>12 DEF MemoryInv, WritesLate, ChatInv, TypeOK
  <2>2. PICK kept : kept = memory[thread]
    OBVIOUS
  <2>3. memory'[thread'] = known /\ sent' = sent /\ thread' = thread
    BY <1>3, <1>12, <2>1 DEF ChatInv, TypeOK
  <2>4. \A k \in 1 .. Len(kept) :
          /\ kept[k].turn \in Turns /\ kept[k].turn <= sent
          /\ run[kept[k].turn].known # <<>> /\ run[kept[k].turn].thread = thread
          /\ kept[k].turn # t
    BY <1>4, <2>1, <2>2, MemoryTypes DEF RememberedTurns
  <2>5. \A k \in 1 .. Len(kept) : kept[k].turn < t
    BY <1>7, <2>1, <2>4
  <2>6. /\ Len(kept) \in Nat /\ Len(known) = Len(kept) + 1 /\ known[Len(known)].turn = t
        /\ \A k \in 1 .. Len(kept) : known[k] = kept[k]
    BY <1>5, <1>12, <2>2
  <2>7. \A k \in 1 .. Len(known) : k = Len(known) \/ k \in 1 .. Len(kept)
    BY <2>6
  <2>8. ASSUME NEW k \in 1 .. Len(known)
        PROVE  /\ known[k].turn <= sent' /\ run'[known[k].turn].known # <<>>
               /\ run'[known[k].turn].thread = thread'
    <3>1. CASE k = Len(known)
      BY <1>4, <1>6, <1>7, <1>12, <2>1, <2>3, <2>6, <3>1
    <3>2. CASE k \in 1 .. Len(kept)
      BY <1>4, <2>3, <2>4, <2>6, <3>2
    <3> QED
      BY <2>7, <3>1, <3>2
  <2>9. ASSUME NEW k \in 1 .. Len(known), NEW l \in 1 .. Len(known), k < l
        PROVE  known[k].turn < known[l].turn
    <3>1. k \in 1 .. Len(kept)
      BY <2>6, <2>9
    <3>2. CASE l = Len(known)
      BY <2>5, <2>6, <3>1, <3>2
    <3>3. CASE l \in 1 .. Len(kept)
      BY <2>1, <2>2, <2>6, <2>9, <3>1, <3>3 DEF RememberedTurns
    <3> QED
      BY <2>7, <3>2, <3>3
  <2>10. ASSUME NEW u \in Turns, run'[u].known # <<>>, run'[u].thread = thread'
         PROVE  \E k \in 1 .. Len(known) : known[k].turn = u
    <3>1. CASE u = t
      <4>1. Len(known) \in 1 .. Len(known)
        BY <2>6
      <4> QED
        BY <2>6, <3>1, <4>1
    <3>2. CASE u # t
      <4>1. PICK k \in 1 .. Len(kept) : kept[k].turn = u
        BY <1>4, <2>1, <2>2, <2>3, <2>10, <3>2 DEF RememberedTurns
      <4>2. k \in 1 .. Len(known) /\ known[k] = kept[k]
        BY <2>6
      <4> QED
        BY <4>1, <4>2
    <3> QED
      BY <3>1, <3>2
  <2>11. \A u \in Turns : u = sent' => known = run'[u].known
    BY <1>4, <2>1, <2>3
  <2>12. RememberedTurns'
    BY <2>3, <2>8, <2>9, <2>10, <2>11 DEF RememberedTurns
  <2> QED
    BY <1>8, <1>9, <1>10, <2>12 DEF MemoryInv
<1> QED
  BY <1>8, <1>9, <1>10, <1>11, <1>12 DEF MemoryInv

LEMMA MemorySave ==
    ASSUME ChatInv, MemoryInv, NEW t \in Turns, SaveAnswer(t) PROVE MemoryInv'
<1>1. PICK known \in Seq(Remembered) : known = run[t].known
  BY RunTypes
<1>2. PICK saved : saved = [known EXCEPT ![Len(known)].answered = TRUE]
  OBVIOUS
<1>3. /\ run[t].phase = "answering" /\ run' = [run EXCEPT ![t].phase = "finishing"]
      /\ memory' = [memory EXCEPT ![run[t].thread] = saved]
      /\ UNCHANGED <<thread, messages, isStreaming, sent>> /\ late' = (late \/ WritesLate(t))
  BY <1>1, <1>2 DEF SaveAnswer, panel
<1>4. /\ run'[t].phase = "finishing"
      /\ \A u \in Turns : run'[u].thread = run[u].thread /\ run'[u].known = run[u].known
      /\ \A u \in Turns : u # t => run'[u] = run[u]
  BY <1>3, RunTypes DEF Runs
<1>5. Len(known) \in 1 .. Len(known) /\ known[Len(known)] \in Remembered
  BY <1>1, <1>3, ElementOfSeq DEF ChatInv, RunsInv
<1>6. Len(saved) = Len(known) /\ \A k \in 1 .. Len(known) : saved[k].turn = known[k].turn
  <2>1. Len(saved) = Len(known) /\ \A k \in 1 .. Len(known) : k # Len(known) => saved[k] = known[k]
    BY <1>2, <1>5
  <2>2. saved[Len(known)].turn = known[Len(known)].turn
    BY <1>2, <1>5 DEF Remembered
  <2> QED
    BY <2>1, <2>2
<1>7. LatestTurns'
  BY <1>3, <1>4, Exchanges DEF MemoryInv, LatestTurns
<1>8. \A u \in Turns : run'[u].phase \in {"unsent", "asked"} => run'[u].known = <<>>
  BY <1>4 DEF MemoryInv
<1>9. FreshThreads'
  <2>1. run[t].thread <= thread /\ run[t].thread \in Nat /\ thread \in Nat
    BY RunTypes, BoundsAssumption DEF MemoryInv, FreshThreads, ChatInv, TypeOK, Threads
  <2>2. \A h \in Threads : h > thread => h # run[t].thread
    BY <2>1
  <2>3. \A h \in Threads : h > thread => memory'[h] = memory[h]
    BY <1>3, <2>2 DEF ChatInv, TypeOK
  <2> QED
    BY <1>3, <1>4, <2>3 DEF MemoryInv, FreshThreads
<1>10. CASE ~late' /\ run[t].thread # thread
  <2>1. ~late /\ memory'[thread] = memory[thread]
    BY <1>3, <1>10 DEF ChatInv, TypeOK
  <2> QED
    BY <1>3, <1>4, <1>7, <1>8, <1>9, <1>10, <2>1, MemoryElsewhere DEF MemoryInv
<1>11. CASE ~late' /\ run[t].thread = thread
  <2>1. RememberedTurns /\ t = sent /\ thread \in Threads
    BY <1>3, <1>11 DEF MemoryInv, WritesLate, ChatInv, TypeOK
  <2>2. memory'[thread'] = saved /\ sent' = sent /\ thread' = thread
    BY <1>3, <1>11, <2>1 DEF ChatInv, TypeOK
  <2>3. memory[thread] = known
    BY <1>1, <1>3, <1>11, <2>1 DEF RememberedTurns
  <2>4. \A k \in 1 .. Len(known) :
          /\ known[k].turn \in Turns /\ known[k].turn <= sent
          /\ run[known[k].turn].known # <<>> /\ run[known[k].turn].thread = thread
    BY <2>1, <2>3, MemoryTypes DEF RememberedTurns
  <2>5. \A k \in 1 .. Len(saved) :
          /\ saved[k].turn <= sent'
          /\ run'[saved[k].turn].known # <<>> /\ run'[saved[k].turn].thread = thread'
    BY <1>4, <1>6, <2>2, <2>4
  <2>6. \A k, l \in 1 .. Len(saved) : k < l => saved[k].turn < saved[l].turn
    BY <1>6, <2>1, <2>3 DEF RememberedTurns
  <2>7. \A u \in Turns :
          run'[u].known # <<>> /\ run'[u].thread = thread' =>
              \E k \in 1 .. Len(saved) : saved[k].turn = u
    BY <1>4, <1>6, <2>1, <2>2, <2>3 DEF RememberedTurns
  <2>8. \A u \in Turns : u = sent' => run'[u].phase # "answering"
    BY <1>4, <2>1, <2>2
  <2>9. RememberedTurns'
    BY <2>2, <2>5, <2>6, <2>7, <2>8 DEF RememberedTurns
  <2> QED
    BY <1>7, <1>8, <1>9, <2>9 DEF MemoryInv
<1> QED
  BY <1>7, <1>8, <1>9, <1>10, <1>11 DEF MemoryInv

\* The steps that neither ask, nor answer, nor save.
LEMMA MemoryElse ==
    ASSUME ChatInv, MemoryInv,
           \/ StatusArrives \/ Reading \/ Reload \/ ConnectionBreaks \/ ServerDies
           \/ \E t \in Turns : YieldToken(t) \/ YieldClosing(t) \/ Abandon(t) \/ TurnRaises(t)
    PROVE  MemoryInv'
<1>1. ASSUME UNCHANGED <<messages, memory, sent, thread, late>>,
             \A t \in Turns :
               /\ run'[t].thread = run[t].thread /\ run'[t].known = run[t].known
               /\ run'[t].phase \in {"unsent", "asked", "answering"} =>
                    run'[t].phase = run[t].phase
      PROVE  MemoryInv'
  BY <1>1, MemoryStays
<1>2. CASE StatusArrives \/ ReadChunk \/ StreamRejects \/ ConnectionBreaks
  BY <1>1, <1>2 DEF StatusArrives, ReadChunk, StreamRejects, ConnectionBreaks, server, panel
<1>3. CASE TakeFrame
  <2>1. UNCHANGED <<thread, late, run, memory, sent>>
    BY <1>3 DEF TakeFrame, server
  <2>2. /\ Len(messages') = Len(messages)
        /\ \A i \in 1 .. Len(messages) : messages'[i].turn = messages[i].turn
    <3>1. messages \in Seq([turn : Turns, answer : Seq(Tokens)])
      BY DEF ChatInv, TypeOK
    <3>2. \/ messages' = messages
          \/ \E text : messages' = [messages EXCEPT ![Len(messages)].answer = Append(@, text)]
      BY <1>3 DEF TakeFrame
    <3>3. ASSUME NEW a, messages' = [messages EXCEPT ![Len(messages)].answer = a]
          PROVE  /\ Len(messages') = Len(messages)
                 /\ \A i \in 1 .. Len(messages) : messages'[i].turn = messages[i].turn
      <4>1. DOMAIN messages' = DOMAIN messages /\ Len(messages') = Len(messages)
        BY <3>1, <3>3
      <4>2. \A i \in 1 .. Len(messages) : messages[i] \in [turn : Turns, answer : Seq(Tokens)]
        BY <3>1, ElementOfSeq
      <4> QED
        BY <3>1, <3>3, <4>1, <4>2
    <3> QED
      BY <3>2, <3>3
  <2> QED
    BY <2>1, <2>2, MemoryStays
<1>4. CASE Reload
  <2>1. UNCHANGED <<thread, late, run, memory, sent>> /\ messages' = <<>>
    BY <1>4 DEF Reload, server
  <2>2. Len(messages') = 0
    BY <2>1
  <2> QED
    BY <2>1, <2>2, MemoryStays
<1>5. CASE ServerDies
  <2>1. /\ UNCHANGED <<messages, memory, sent, thread, late>>
        /\ run' = [t \in Turns |-> IF run[t].phase = "unsent" THEN run[t]
                                   ELSE [run[t] EXCEPT !.phase = "over"]]
    BY <1>5 DEF ServerDies, panel
  <2>2. \A t \in Turns : run[t] \in Runs
    BY RunTypes
  <2> QED
    BY <1>1, <2>1, <2>2 DEF Runs
<1>6. ASSUME NEW t \in Turns, YieldToken(t) \/ YieldClosing(t) \/ Abandon(t) \/ TurnRaises(t)
      PROVE  MemoryInv'
  <2>1. UNCHANGED <<messages, memory, sent, thread, late>>
    BY <1>6 DEF YieldToken, YieldClosing, Abandon, TurnRaises, Yield, panel
  <2>2. run \in [Turns -> Runs]
    BY RunTypes
  <2>3. \/ run' = [run EXCEPT ![t].told = run[t].told + 1]
        \/ \E phase \in {"failing", "finishing", "over"} : run' = [run EXCEPT ![t].phase = phase]
    BY <1>6 DEF YieldToken, YieldClosing, Abandon, TurnRaises
  <2>4. \A u \in Turns : u # t => run'[u] = run[u]
    BY <2>2, <2>3
  <2>5. /\ run'[t].thread = run[t].thread /\ run'[t].known = run[t].known
        /\ run'[t].phase = run[t].phase \/ run'[t].phase \in {"failing", "finishing", "over"}
    BY <2>2, <2>3 DEF Runs
  <2> QED
    BY <1>1, <2>1, <2>4, <2>5
<1> QED
  BY <1>2, <1>3, <1>4, <1>5, <1>6 DEF Reading

LEMMA ChatStep ==
    ASSUME ChatInv, MemoryInv, [Next]_vars PROVE ChatInv'
<1>1. CASE StatusArrives \/ StreamRejects \/ NewChat \/ Reload
  BY <1>1, ChatEnds
<1>2. CASE Send
  BY <1>2, ChatSend
<1>3. CASE ReadChunk
  BY <1>3, ChatChunk
<1>4. CASE TakeFrame
  BY <1>4, ChatTake
<1>5. ASSUME NEW t \in Turns, ServerStep(t) \/ TurnRaises(t) PROVE ChatInv'
  BY <1>5, ChatBegin, ChatToken, ChatQuiet, ChatClosing, ChatUnheard DEF ServerStep
<1>6. CASE ConnectionBreaks \/ ServerDies
  BY <1>6, ChatDies
<1>7. CASE UNCHANGED vars
  <2>1. UNCHANGED <<available, thread, messages, isStreaming, error, buffer, reloads, late, run,
                    memory, wire, connection, sent>>
    BY <1>7 DEF vars, panel, server
  <2>2. StreamInv'
    BY <2>1, KeptStays, StreamStays
  <2> QED
    BY <2>1, <2>2, KeptStays DEF ChatInv, TypeOK, RunsInv, ScreenInv, Shows, SilenceInv, OnScreen
<1> QED
  BY <1>1, <1>2, <1>3, <1>4, <1>5, <1>6, <1>7 DEF Next, Reading

LEMMA MemoryStep ==
    ASSUME ChatInv, MemoryInv, [Next]_vars PROVE MemoryInv'
<1>1. CASE Send
  BY <1>1, MemorySend
<1>2. CASE NewChat
  BY <1>2, MemoryNew
<1>3. ASSUME NEW t \in Turns, BeginTurn(t) \/ SaveAnswer(t) PROVE MemoryInv'
  BY <1>3, MemoryBegin, MemorySave
<1>4. CASE UNCHANGED vars
  <2>1. UNCHANGED <<messages, memory, sent, thread, late, run>>
    BY <1>4 DEF vars, panel, server
  <2> QED
    BY <2>1, MemoryStays
<1> QED
  BY <1>1, <1>2, <1>3, <1>4, MemoryElse DEF Next, ServerStep

\* However the stream is cut, whatever fails and whenever the page is reloaded, the panel, the
\* wire and the turns of the server are of their types, and fit together.
THEOREM ChatCorrect == Spec => [](ChatInv /\ MemoryInv)
<1>1. Init => ChatInv /\ MemoryInv
  <2>1. Init => MemoryInv
    <3> SUFFICES ASSUME Init PROVE MemoryInv
      OBVIOUS
    <3>1. /\ thread = 1 /\ 1 \in Threads /\ messages = <<>> /\ memory[thread] = <<>>
          /\ \A h \in Threads : memory[h] = <<>>
          /\ \A t \in Turns : run[t].thread = 1 /\ run[t].known = <<>> /\ run[t].phase = "unsent"
      BY BoundsAssumption DEF Init, Idle, Threads
    <3>2. LatestTurns /\ FreshThreads
      BY <3>1 DEF LatestTurns, FreshThreads
    <3>3. RememberedTurns
      BY <3>1 DEF RememberedTurns
    <3> QED
      BY <3>1, <3>2, <3>3 DEF MemoryInv
  <2> QED
    BY <2>1, ChatInit
<1>2. (ChatInv /\ MemoryInv) /\ [Next]_vars => (ChatInv /\ MemoryInv)'
  BY ChatStep, MemoryStep
<1> QED
  BY <1>1, <1>2, PTL DEF Spec

\* The panel's state, the wire and the checkpoints have their types at any time.
THEOREM TypeCorrect == Spec => []TypeOK
<1>1. ChatInv => TypeOK
  BY DEF ChatInv
<1> QED
  BY <1>1, ChatCorrect, PTL

\* Wherever the chunks are cut and wherever a stream breaks off, an exchange on screen shows the
\* first tokens of its turn's answer, each of them once and in their order.
THEOREM ShownFollowsAnswer == Spec => []ShownIsAPrefix
<1>1. ChatInv => ShownIsAPrefix
  <2> SUFFICES ASSUME ChatInv, NEW i \in DOMAIN messages
               PROVE  IsPrefix(messages[i].answer, run[messages[i].turn].answer)
    BY DEF ShownIsAPrefix
  <2> DEFINE a == messages[i].answer
             b == run[messages[i].turn].answer
  <2>1. /\ i \in 1 .. Len(messages) /\ a \in Seq(Tokens) /\ b \in Seq(Tokens)
        /\ Len(a) <= run[messages[i].turn].told
        /\ run[messages[i].turn].told <= Len(b) /\ run[messages[i].turn].told \in Nat
        /\ \A j \in 1 .. Len(a) : a[j] = b[j]
    BY Exchanges, RunTypes DEF ChatInv, RunsInv, ScreenInv, Shows
  <2> HIDE DEF a, b
  <2>2. Len(a) \in Nat /\ Len(b) \in Nat /\ Len(a) <= Len(b)
    BY <2>1
  <2>3. /\ SubSeq(b, 1, Len(a)) \in Seq(Tokens) /\ Len(SubSeq(b, 1, Len(a))) = Len(a)
        /\ \A j \in 1 .. Len(a) : SubSeq(b, 1, Len(a))[j] = b[j]
    BY <2>1, <2>2, SubSeqProperties
  <2>4. a = SubSeq(b, 1, Len(a))
    BY <2>1, <2>3, SeqEqual
  <2> QED
    BY <2>2, <2>4 DEF IsPrefix, a, b
<1> QED
  BY <1>1, ChatCorrect, PTL

\* An answer that stands on screen without an error is the whole answer, and its turn is over:
\* neither a failure of the agent nor a broken connection is mistaken for the answer's end.
THEOREM SilenceIsComplete == Spec => []SilenceMeansComplete
<1>1. ChatInv => SilenceMeansComplete
  <2> SUFFICES ASSUME ChatInv, ~isStreaming, error = "none", messages # <<>>
               PROVE  /\ messages[Len(messages)].answer = run[messages[Len(messages)].turn].answer
                      /\ run[messages[Len(messages)].turn].phase = "over"
    BY DEF SilenceMeansComplete
  <2> DEFINE m == messages[Len(messages)]
             b == run[m.turn].answer
  <2>1. /\ m.answer \in Seq(Tokens) /\ b \in Seq(Tokens) /\ Len(m.answer) = Len(b)
        /\ \A j \in 1 .. Len(m.answer) : m.answer[j] = b[j]
        /\ run[m.turn].phase = "over" /\ m.turn = sent
    BY Exchanges, RunTypes DEF ChatInv, ScreenInv, SilenceInv, OnScreen, Shows
  <2> HIDE DEF m, b
  <2>2. m.answer = b
    BY <2>1, SeqEqual
  <2> QED
    BY <2>1, <2>2 DEF m, b
<1> QED
  BY <1>1, ChatCorrect, PTL

\* What is on screen is what the agent will be reminded of: the exchanges that reached it are,
\* in their order, the last ones its checkpointer keeps of the panel's thread, and an answer
\* that stands without an error is kept as an answer.  Whatever breaks and whenever the page is
\* reloaded, this holds until a run that was left behind writes the thread after a newer turn.
THEOREM ScreenStaysRemembered == Spec => []ScreenIsRemembered
<1>1. ChatInv /\ MemoryInv => ScreenIsRemembered
  <2> SUFFICES ASSUME ChatInv, MemoryInv, ~late PROVE ScreenIsRemembered
    BY DEF ScreenIsRemembered
  <2> DEFINE kept  == memory[thread]
             begun == {i \in DOMAIN messages : run[messages[i].turn].known # <<>>}
             at == [i \in begun |-> CHOOSE k \in DOMAIN kept : kept[k].turn = messages[i].turn]
  <2>1. RememberedTurns /\ LatestTurns /\ thread \in Threads
    BY DEF MemoryInv, ChatInv, TypeOK
  <2>2. /\ Len(kept) \in Nat /\ DOMAIN kept = 1 .. Len(kept)
        /\ \A k \in 1 .. Len(kept) : kept[k].turn \in Turns
    BY <2>1, MemoryTypes
  <2>3. \A t \in Turns : t \in Nat
    BY BoundsAssumption DEF Turns
  <2>4. ASSUME NEW i \in begun
        PROVE  /\ i \in 1 .. Len(messages) /\ messages[i].turn \in Turns
               /\ messages[i].turn = (sent + i) - Len(messages)
               /\ \E k \in DOMAIN kept : kept[k].turn = messages[i].turn
    <3>1. i \in 1 .. Len(messages) /\ messages[i].turn \in Turns
      BY Exchanges
    <3>2. run[messages[i].turn].thread = thread /\ run[messages[i].turn].known # <<>>
      BY <2>1, <3>1 DEF LatestTurns
    <3> QED
      BY <2>1, <2>2, <3>1, <3>2 DEF LatestTurns, RememberedTurns
  <2>5. \A i \in begun : at[i] \in DOMAIN kept /\ kept[at[i]].turn = messages[i].turn
    BY <2>4
  <2>6. \A k, l \in 1 .. Len(kept) : k < l => kept[k].turn < kept[l].turn
    BY <2>1 DEF RememberedTurns
  <2>7. sent \in Nat /\ Len(messages) \in Nat
    BY Exchanges DEF ChatInv, TypeOK
  <2>8. ASSUME NEW k \in 1 .. Len(kept), NEW i \in begun, messages[i].turn <= kept[k].turn
        PROVE  \E j \in begun : messages[j].turn = kept[k].turn
    <3>1. /\ kept[k].turn <= sent /\ run[kept[k].turn].known # <<>> /\ kept[k].turn \in Nat
      BY <2>1, <2>2, <2>3 DEF RememberedTurns
    <3>2. PICK j \in Int : j = (kept[k].turn + Len(messages)) - sent
      BY <2>7, <3>1
    <3>3. j \in 1 .. Len(messages) /\ (sent + j) - Len(messages) = kept[k].turn
      <4>1. \A o, n, t \in Nat : \A m \in 1 .. n :
              t <= o /\ (o + m) - n <= t =>
                  (t + n) - o \in 1 .. n /\ (o + ((t + n) - o)) - n = t
        OBVIOUS
      <4>2. i \in 1 .. Len(messages) /\ (sent + i) - Len(messages) <= kept[k].turn
        BY <2>4, <2>8
      <4> QED
        BY <2>7, <3>1, <3>2, <4>1, <4>2
    <3>4. messages[j].turn = kept[k].turn
      BY <2>1, <3>3 DEF LatestTurns
    <3>5. j \in begun
      BY <3>1, <3>3, <3>4, Exchanges
    <3> QED
      BY <3>4, <3>5
  <2>9. ~isStreaming /\ error = "none" /\ messages # <<>> =>
          kept # <<>> /\ Last(kept).answered
    BY DEF ChatInv, SilenceInv, Kept, Last
  <2> HIDE DEF kept, begun
  <2>10. at \in [begun -> DOMAIN kept]
    BY <2>5
  <2> HIDE DEF at
  <2>11. ASSUME NEW i \in begun, NEW j \in begun, i < j PROVE at[i] < at[j]
    <3>1. kept[at[i]].turn < kept[at[j]].turn
      BY <2>4, <2>5, <2>7, <2>11
    <3>2. at[i] \in 1 .. Len(kept) /\ at[j] \in 1 .. Len(kept)
      BY <2>2, <2>5
    <3>3. kept[at[i]].turn \in Nat /\ kept[at[j]].turn \in Nat
      BY <2>2, <2>3, <3>2
    <3>4. ~(at[j] < at[i]) /\ at[i] # at[j]
      BY <2>6, <3>1, <3>2, <3>3
    <3> QED
      BY <3>2, <3>4
  <2>12. ASSUME NEW i \in begun, NEW k \in at[i] .. Len(kept) PROVE k \in Range(at)
    <3>1. k \in 1 .. Len(kept) /\ at[i] \in 1 .. Len(kept) /\ at[i] <= k
      BY <2>2, <2>5
    <3>2. kept[at[i]].turn \in Nat /\ kept[k].turn \in Nat
      BY <2>2, <2>3, <3>1
    <3>3. messages[i].turn <= kept[k].turn
      BY <2>5, <2>6, <3>1, <3>2
    <3>4. PICK j \in begun : messages[j].turn = kept[k].turn
      BY <2>8, <3>1, <3>3
    <3>5. at[j] \in 1 .. Len(kept) /\ kept[at[j]].turn = kept[k].turn
      BY <2>2, <2>5, <3>4
    <3>6. at[j] = k
      BY <2>6, <3>1, <3>2, <3>5
    <3> QED
      BY <2>10, <3>6 DEF Range
  <2> QED
    BY <2>5, <2>9, <2>10, <2>11, <2>12 DEF ScreenIsRemembered, kept, begun
<1> QED
  BY <1>1, ChatCorrect, PTL

=============================================================================
