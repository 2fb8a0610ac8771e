----------------------------- MODULE ChatStream -----------------------------
(***************************************************************************)
(* One turn after another of the chat: the panel posts a message, the      *)
(* agent's tokens are framed as server-sent events, the frames arrive cut  *)
(* into arbitrary chunks, and the panel appends what it parses to the      *)
(* answer on screen.  The server may fail in the middle of an answer or    *)
(* die, the connection may break while the server goes on, and the page    *)
(* may be reloaded at any time: the run that is left behind then ends when *)
(* it likes, and may save its answer late.  The thread id, kept in the     *)
(* browser's storage, is all that ties the turns of a conversation         *)
(* together: the checkpointer keeps what was said under it.                *)
(***************************************************************************)
EXTENDS Naturals, Sequences, SequencesExt

CONSTANTS
    Answers,      \* the answers the agent may give, as sequences of tokens
    MaxTurns,     \* bound on the messages sent
    MaxThreads,   \* bound on the threads begun
    MaxReloads    \* bound on the reloads of the page

Turns   == 1 .. MaxTurns
Threads == 1 .. MaxThreads
Tokens  == UNION {Range(answer) : answer \in Answers}

ASSUME BoundsAssumption ==
    MaxTurns \in Nat /\ MaxThreads \in Nat \ {0} /\ MaxReloads \in Nat
ASSUME TokensAssumption == "none" \notin Tokens /\ Answers \subseteq Seq(Tokens)

VARIABLES
    available,    \* what the panel knows of the agent: "unknown", "yes" or "no"
    thread,       \* the thread id in the panel and in the browser's storage
    messages,     \* the exchanges on screen: a turn and the answer shown so far
    isStreaming,  \* is a turn's stream being read?
    error,        \* what the panel reports: "none", "server" or "network"
    buffer,       \* what the parser has not consumed
    wire,         \* what was sent and has not been read
    connection,   \* the panel's connection: "closed", "open" or "broken"
    sent,         \* the number of turns sent; the last one is the panel's
    run,          \* what the server does for each turn
    memory,       \* what the checkpointer keeps of each thread
    reloads,      \* how often the page was reloaded
    late          \* has a run saved the panel's thread after a newer turn was sent?

panel  == <<available, thread, messages, isStreaming, error, buffer, reloads>>
server == <<run, memory, late>>
vars   == <<panel, server, wire, connection, sent>>

Events  == {"token", "error", "done"}
Frames  == [event : Events, text : Tokens \cup {"none"}]
Symbols == [is : {"event", "data", "newline"}, says : Events \cup Tokens \cup {"none"}]
Phases  == {"unsent", "asked", "answering", "failing", "finishing", "over"}
Remembered == [turn : Turns, answered : BOOLEAN]

TypeOK ==
    /\ available \in {"unknown", "yes", "no"}
    /\ thread \in Threads
    /\ messages \in Seq([turn : Turns, answer : Seq(Tokens)])
    /\ isStreaming \in BOOLEAN
    /\ error \in {"none", "server", "network"}
    /\ buffer \in Seq(Symbols) /\ wire \in Seq(Symbols)
    /\ connection \in {"closed", "open", "broken"}
    /\ sent \in 0 .. MaxTurns
    /\ run \in [Turns -> [phase : Phases, thread : Threads, answer : Seq(Tokens),
                          told : Nat, known : Seq(Remembered)]]
    /\ memory \in [Threads -> Seq(Remembered)]
    /\ reloads \in 0 .. MaxReloads
    /\ late \in BOOLEAN

----------------------------------------------------------------------------
(* Plausible mistakes, for trying the properties against.                  *)

Newline == [is |-> "newline", says |-> "none"]

\* What a chunk holds of the next frame is dropped.
ChunkConsumed(bytes, at) == <<>>

\* Whatever carries data is a token.
AnythingIsAToken(event, text) == event # "done"

\* A failure is logged, and the client only told that the answer is done.
FailureUntold(phase) == "done"

\* A new chat leaves the old one on screen.
StillShown == messages

\* The spinner is stopped by done, and by nothing else.
StreamingUnlessDone(end) == end # "done"

----------------------------------------------------------------------------
(* The wire format. *)

\* format_sse: two lines and an empty one; JSON keeps a token's own newlines out of them.
FormatSse(event, text) ==
    << [is |-> "event", says |-> event], Newline, [is |-> "data", says |-> text],
       Newline, Newline >>

\* Where an empty line ends a frame.
FrameEnds(bytes) ==
    {i \in DOMAIN bytes : i < Len(bytes) /\ bytes[i] = Newline /\ bytes[i + 1] = Newline}

\* What is left when the frame that ends here was taken: the beginning of the next one.
Unconsumed(bytes, at) == SubSeq(bytes, at + 2, Len(bytes))

\* Only a token's payload has a text.
IsToken(event, text) == event = "token" /\ text # "none"

\* What the last line of a kind says.
LineSays(bytes, kind) ==
    LET lines == {i \in DOMAIN bytes : bytes[i].is = kind} IN
    IF lines = {} THEN "none" ELSE bytes[Max(lines)].says

----------------------------------------------------------------------------

Idle == [phase |-> "unsent", thread |-> 1, answer |-> <<>>, told |-> 0, known |-> <<>>]

Init ==
    /\ available = "unknown"
    /\ thread = 1
    /\ messages = <<>>
    /\ isStreaming = FALSE
    /\ error = "none"
    /\ buffer = <<>> /\ wire = <<>>
    /\ connection = "closed"
    /\ sent = 0
    /\ run = [t \in Turns |-> Idle]
    /\ memory = [h \in Threads |-> <<>>]
    /\ reloads = 0
    /\ late = FALSE

----------------------------------------------------------------------------
(* The panel: useChat and the buttons of ChatPanel. *)

\* A status that cannot be fetched counts as unavailable.
StatusArrives ==
    /\ available = "unknown"
    /\ available' \in {"yes", "no"}
    /\ UNCHANGED <<thread, messages, isStreaming, error, buffer, reloads,
                   server, wire, connection, sent>>

\* send: the composer is disabled while the status is unknown or an answer is streaming.
Send ==
    /\ available = "yes"
    /\ ~isStreaming
    /\ sent < MaxTurns
    /\ sent' = sent + 1
    /\ messages' = Append(messages, [turn |-> sent + 1, answer |-> <<>>])
    /\ isStreaming' = TRUE
    /\ error' = "none"
    /\ buffer' = <<>> /\ wire' = <<>>
    /\ connection' = "open"
    /\ run' = [run EXCEPT ![sent + 1].phase = "asked", ![sent + 1].thread = thread]
    /\ UNCHANGED <<available, thread, reloads, memory, late>>

\* getReader().read(): some of what has arrived, wherever it was cut.  The frames the
\* buffer holds are consumed before more is read.
ReadChunk ==
    /\ isStreaming
    /\ FrameEnds(buffer) = {}
    /\ \E n \in 1 .. Len(wire) :
         /\ buffer' = buffer \o SubSeq(wire, 1, n)
         /\ wire' = SubSeq(wire, n + 1, Len(wire))
    /\ UNCHANGED <<available, thread, messages, isStreaming, error, reloads,
                   server, connection, sent>>

\* send's finally, however the stream ended.
StreamingAfter(end) == FALSE

\* parseFrame and the loop of send, for the first frame that is complete.
TakeFrame ==
    /\ isStreaming
    /\ \E at \in FrameEnds(buffer) :
         LET event == LineSays(SubSeq(buffer, 1, at), "event")
             text  == LineSays(SubSeq(buffer, 1, at), "data")
             last  == Len(messages)
         IN
         /\ \A i \in FrameEnds(buffer) : at <= i
         /\ buffer' = Unconsumed(buffer, at)
         /\ messages' = IF IsToken(event, text)
                        THEN [messages EXCEPT ![last].answer = Append(@, text)] ELSE messages
         /\ error' = IF event = "error" THEN "server" ELSE error
         /\ isStreaming' = IF event = "done" THEN StreamingAfter("done") ELSE TRUE
         /\ connection' = IF event = "done" THEN "closed" ELSE connection
    /\ UNCHANGED <<available, thread, reloads, server, wire, sent>>

\* fetch or read() rejects, or the response is not ok: the catch of send.
StreamRejects ==
    /\ isStreaming
    /\ connection = "broken"
    /\ FrameEnds(buffer) = {}
    /\ error' = "network"
    /\ isStreaming' = StreamingAfter("rejected")
    /\ buffer' = <<>>
    /\ connection' = "closed"
    /\ UNCHANGED <<available, thread, messages, reloads, server, wire, sent>>

\* What a new chat leaves on screen.
Cleared == <<>>

\* newChat: its button is disabled while an answer is streaming.
NewChat ==
    /\ available # "no"
    /\ ~isStreaming
    /\ messages # <<>>
    /\ thread < MaxThreads
    /\ thread' = thread + 1
    /\ messages' = Cleared
    /\ error' = "none"
    /\ late' = FALSE
    /\ UNCHANGED <<available, isStreaming, buffer, reloads, run, memory, wire,
                   connection, sent>>

\* The thread id survives in the browser's storage, and nothing else does.
Reload ==
    /\ reloads < MaxReloads
    /\ reloads' = reloads + 1
    /\ available' = "unknown"
    /\ messages' = <<>>
    /\ isStreaming' = FALSE
    /\ error' = "none"
    /\ buffer' = <<>> /\ wire' = <<>>
    /\ connection' = "closed"
    /\ UNCHANGED <<thread, server, sent>>

----------------------------------------------------------------------------
(* The server: post_chat, _sse_frames, stream_tokens and the agent.        *)

\* Somebody still reads what the turn's generator yields.
IsHeard(t) == t = sent /\ isStreaming /\ connection = "open"

\* What is sent to a reader who is gone is dropped, until the server notices.
Yield(t, event, text) ==
    wire' = IF IsHeard(t) THEN wire \o FormatSse(event, text) ELSE wire

\* A run that was left behind writes the thread on which a newer turn was sent.
WritesLate(t) == t # sent /\ run[t].thread = thread

\* The agent continues from the thread's latest checkpoint and saves the question.
BeginTurn(t) ==
    /\ run[t].phase = "asked"
    /\ \E answer \in Answers :
         LET known == Append(memory[run[t].thread], [turn |-> t, answered |-> FALSE]) IN
         /\ run' = [run EXCEPT ![t].phase = "answering", ![t].answer = answer,
                               ![t].known = known]
         /\ memory' = [memory EXCEPT ![run[t].thread] = known]
    /\ late' = (late \/ WritesLate(t))
    /\ UNCHANGED <<panel, wire, connection, sent>>

YieldToken(t) ==
    /\ run[t].phase = "answering"
    /\ run[t].told < Len(run[t].answer)
    /\ Yield(t, "token", run[t].answer[run[t].told + 1])
    /\ run' = [run EXCEPT ![t].told = @ + 1]
    /\ UNCHANGED <<panel, memory, late, connection, sent>>

\* The stream of tokens ends once the answer is in the checkpoint.
SaveAnswer(t) ==
    /\ run[t].phase = "answering"
    /\ run[t].told = Len(run[t].answer)
    /\ memory' = [memory EXCEPT ![run[t].thread] =
                    [run[t].known EXCEPT ![Len(run[t].known)].answered = TRUE]]
    /\ run' = [run EXCEPT ![t].phase = "finishing"]
    /\ late' = (late \/ WritesLate(t))
    /\ UNCHANGED <<panel, wire, connection, sent>>

\* The model, a tool or the checkpointer raises; the headers are long gone.
TurnRaises(t) ==
    /\ run[t].phase \in {"asked", "answering"}
    /\ run' = [run EXCEPT ![t].phase = "failing"]
    /\ UNCHANGED <<panel, memory, late, wire, connection, sent>>

\* The frame a generator that is not answering yields next: done comes last, always.
ClosingEvent(phase) == IF phase = "failing" THEN "error" ELSE "done"

YieldClosing(t) ==
    /\ run[t].phase \in {"failing", "finishing"}
    /\ Yield(t, ClosingEvent(run[t].phase), "none")
    /\ run' = [run EXCEPT ![t].phase = IF @ = "failing" THEN "finishing" ELSE "over"]
    /\ UNCHANGED <<panel, memory, late, connection, sent>>

\* The request never arrived, or GeneratorExit at a yield: nothing more is sent, and done is
\* skipped.  Until then the run goes on, so one that told its last token saves the answer.
Abandon(t) ==
    /\ run[t].phase \in {"asked", "answering", "failing", "finishing"}
    /\ ~IsHeard(t)
    /\ run' = [run EXCEPT ![t].phase = "over"]
    /\ UNCHANGED <<panel, memory, late, wire, connection, sent>>

\* fetch or read() rejects while the server lives, or the response is not ok: what the browser
\* had not read is lost, and the run knows nothing of it.
ConnectionBreaks ==
    /\ connection = "open"
    /\ connection' = "broken"
    /\ wire' = <<>>
    /\ UNCHANGED <<panel, server, sent>>

\* The server dies and is restarted: the connection breaks and nothing resumes its runs.
ServerDies ==
    /\ connection = "open"
    /\ connection' = "broken"
    /\ wire' = <<>>
    /\ run' = [t \in Turns |-> IF run[t].phase = "unsent" THEN run[t]
                               ELSE [run[t] EXCEPT !.phase = "over"]]
    /\ UNCHANGED <<panel, memory, late, sent>>

ServerStep(t) ==
    BeginTurn(t) \/ YieldToken(t) \/ SaveAnswer(t) \/ YieldClosing(t) \/ Abandon(t)

Reading == ReadChunk \/ TakeFrame \/ StreamRejects

Next ==
    \/ StatusArrives \/ Send \/ Reading \/ NewChat \/ Reload
    \/ \E t \in Turns : ServerStep(t) \/ TurnRaises(t)
    \/ ConnectionBreaks \/ ServerDies

Spec == Init /\ [][Next]_vars

\* While the server can work on a turn it has taken (its calls to the model time out), or the
\* browser can read what has arrived, one of them does; nobody has to send, to start a new chat
\* or to reload, and a connection need not break.
Working == Reading \/ \E t \in Turns : ServerStep(t)
FairSpec == Spec /\ WF_vars(Working)

----------------------------------------------------------------------------
(* Properties. *)

\* However the stream is cut into chunks, and wherever it breaks off, the screen never shows
\* anything but the first tokens of the turn's answer, each of them once and in order.
ShownIsAPrefix ==
    \A i \in DOMAIN messages : IsPrefix(messages[i].answer, run[messages[i].turn].answer)

\* An answer that stands there without an error is all of the answer: a failure of the model
\* or of the connection in the middle of it is never mistaken for its end.
SilenceMeansComplete ==
    ~isStreaming /\ error = "none" /\ messages # <<>> =>
        LET shown == messages[Len(messages)] IN
        /\ shown.answer = run[shown.turn].answer
        /\ run[shown.turn].phase = "over"

\* What the person sees is what the agent remembers: the exchanges on screen that reached the
\* agent are, in their order, the latest ones of the panel's thread, and a finished answer is
\* part of what the next turn builds on.  A reload or a broken connection may leave a run
\* behind; this holds until such a run writes the thread after a newer turn was sent on it.
ScreenIsRemembered ==
    ~late =>
        LET kept  == memory[thread]
            begun == {i \in DOMAIN messages : run[messages[i].turn].known # <<>>}
        IN /\ \E at \in [begun -> DOMAIN kept] :
                /\ \A i \in begun : kept[at[i]].turn = messages[i].turn
                /\ \A i, j \in begun : i < j => at[i] < at[j]
                /\ \A i \in begun : at[i] .. Len(kept) \subseteq Range(at)
           /\ ~isStreaming /\ error = "none" /\ messages # <<>> =>
                kept # <<>> /\ Last(kept).answered

\* The composer comes back: every stream ends, in done or in a failure.
StreamingEnds == isStreaming ~> ~isStreaming

=============================================================================
