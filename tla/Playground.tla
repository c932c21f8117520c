----------------------------- MODULE Playground -----------------------------
(***************************************************************************)
(* The chat playground of the web front end                                *)
(* (web/default/src/features/playground): the conversation with its copy   *)
(* in localStorage, the streamed answer with its 50 ms buffer, and the     *)
(* automatic resend of a request that a page reload cut off.               *)
(*                                                                         *)
(* The page is one thread: an action is the handler of one event. The      *)
(* order of user, stream, timer and reload events is free. config.stream   *)
(* is TRUE: no control of the page changes it.                             *)
(***************************************************************************)
EXTENDS Integers, Sequences, SequencesExt

CONSTANTS
  MaxRetries,    \* config.autoResendMaxRetries
  MaxMessages    \* bound on the length of the conversation

ASSUME PlaygroundAssumption ==
  MaxRetries \in Nat /\ MaxMessages \in Nat \ 0 .. 2

VARIABLES
  messages,    \* the conversation on the page
  stored,      \* its copy in localStorage
  page,        \* [loaded, triggered, editing, saving] of the mounted page
  enabled,     \* config.autoResendEnabled
  stream,      \* [open, quiet, buffer, requesting]: is there an SSE source
               \* (isStreaming), has it gone silent, are there chunks that are
               \* not flushed yet, isRequesting
  resend,      \* [mode, count, timer]: the refs of the automatic resend
  automatic    \* history: automatic requests since the page was loaded

vars == <<messages, stored, page, enabled, stream, resend, automatic>>

User == [from |-> "user"]
Assistant == [from : {"assistant"}, status : {"loading", "streaming", "complete", "error"},
              flag : BOOLEAN, content : BOOLEAN]

TypeOK ==
  /\ messages \in Seq(Assistant \cup {User}) /\ stored \in Seq(Assistant \cup {User})
  /\ Len(messages) <= MaxMessages /\ Len(stored) <= MaxMessages
  /\ page \in [loaded : BOOLEAN, triggered : BOOLEAN, editing : 0 .. MaxMessages, saving : BOOLEAN]
  /\ enabled \in BOOLEAN
  /\ stream \in [open : BOOLEAN, quiet : BOOLEAN, buffer : BOOLEAN, requesting : BOOLEAN]
  /\ resend \in [mode : BOOLEAN, count : -1 .. MaxRetries, timer : BOOLEAN]
  /\ automatic \in Nat

\* A page that was just mounted.
FreshPage == [loaded |-> FALSE, triggered |-> FALSE, editing |-> 0, saving |-> FALSE]
FreshStream == [open |-> FALSE, quiet |-> FALSE, buffer |-> FALSE, requesting |-> FALSE]
NoResend == [mode |-> FALSE, count |-> -1, timer |-> FALSE]

\* Conversations of earlier sessions: resends failed for good, each after a
\* reload of its own, the user asked again and deleted the new answer, once the
\* first question as well.
Abandoned == [from |-> "assistant", status |-> "error", flag |-> TRUE, content |-> TRUE]
Reset == [from |-> "assistant", status |-> "loading", flag |-> TRUE, content |-> FALSE]
Earlier == {<<>>, <<User, Abandoned, User>>, <<Reset, User, Abandoned, User>>,
            <<User, Reset, User, Abandoned, User>>}

Init ==
  /\ messages = <<>> /\ stored \in {ms \in Earlier : Len(ms) <= MaxMessages}
  /\ page = FreshPage /\ enabled \in BOOLEAN
  /\ stream = FreshStream /\ resend = NoResend
  /\ automatic = 0

-----------------------------------------------------------------------------
(* Messages. *)

\* createLoadingAssistantMessage
Loading == [from |-> "assistant", status |-> "loading", flag |-> FALSE, content |-> FALSE]

IsAssistant(m) == m.from = "assistant"
IsPending(m) == IsAssistant(m) /\ m.status \in {"loading", "streaming"}
IsFlagged(m) == IsAssistant(m) /\ m.flag

\* hasPendingAutoResend
HasPendingAutoResend(ms) == ms # <<>> /\ IsFlagged(Last(ms))

\* updateLastAssistantMessage with f
UpdateLast(ms, f(_)) ==
  IF ms # <<>> /\ IsAssistant(Last(ms)) THEN [ms EXCEPT ![Len(ms)] = f(Last(ms))] ELSE ms

\* resetPendingMessageForRetry, of every flagged message
ResetPending(ms) ==
  [i \in DOMAIN ms |-> IF IsFlagged(ms[i]) THEN [Loading EXCEPT !.flag = TRUE] ELSE ms[i]]

\* flushStreamUpdates: the chunks go into whatever message is last.
Flushed(ms) ==
  UpdateLast(ms, LAMBDA m :
    IF ~stream.buffer \/ m.status = "error" THEN m
    ELSE [m EXCEPT !.content = TRUE, !.status = "streaming"])

\* handleStreamComplete, stopGeneration
Completed(m) == [m EXCEPT !.status = "complete", !.flag = FALSE]

\* updateAssistantMessageWithError: the content is the error, the flag stays.
Failed(m) == [m EXCEPT !.status = "error", !.content = TRUE]

IsGenerating == stream.open \/ stream.requesting

-----------------------------------------------------------------------------
(* Sending. *)

\* Mutant: the timer of a scheduled retry is left running.
SendChatKeepsTimer(ms, mode, count) ==
  /\ stream' = [stream EXCEPT !.open = TRUE, !.quiet = FALSE, !.requesting = TRUE]
  /\ resend' = IF \E i \in DOMAIN ms : IsFlagged(ms[i])
               THEN [mode |-> mode, count |-> count, timer |-> resend.timer]
               ELSE [NoResend EXCEPT !.timer = resend.timer]

\* sendChat and sendStreamRequest, which closes the source before. The buffer
\* of the old source is not emptied.
SendChat(ms, mode, count) ==
  /\ stream' = [stream EXCEPT !.open = TRUE, !.quiet = FALSE, !.requesting = TRUE]
  /\ resend' = IF \E i \in DOMAIN ms : IsFlagged(ms[i])
               THEN [mode |-> mode, count |-> count, timer |-> FALSE] ELSE NoResend

\* updateMessages, with the timer of the debounced save.
UpdateMessages(ms) == messages' = ms /\ page' = [page EXCEPT !.saving = TRUE]

\* The effect of index.tsx is due: it runs before any other event.
RecoveryDue == page.loaded /\ ~page.triggered /\ HasPendingAutoResend(messages)

\* What the user does needs the page loaded.
Ready == page.loaded /\ ~RecoveryDue

\* A user's request for the conversation ms, of which the first n messages
\* are the old ones: the editor of another message is gone.
SendByUser(ms, n) ==
  /\ Len(ms) <= MaxMessages
  /\ messages' = ms
  /\ page' = [page EXCEPT !.saving = TRUE, !.editing = IF @ <= n THEN @ ELSE 0]
  /\ SendChat(ms, resend.mode, resend.count)
  /\ UNCHANGED <<stored, enabled, automatic>>

HandleSendMessage ==
  /\ Ready /\ ~IsGenerating
  /\ SendByUser(messages \o <<User, Loading>>, Len(messages))

\* createRegeneratedMessages: a user's message is kept, an answer is replaced.
HandleRegenerateMessage(i) ==
  LET n == IF IsAssistant(messages[i]) THEN i - 1 ELSE i IN
  /\ Ready /\ ~IsGenerating
  /\ IsAssistant(messages[i]) => messages[i].content /\ ~IsPending(messages[i])
  /\ SendByUser(Append(SubSeq(messages, 1, n), Loading), n)

\* applyEdit with submission, offered on a user's message; the editor may have
\* been open since before the generation that is running.
ApplyEdit ==
  /\ Ready /\ page.editing \in 1 .. Len(messages) /\ ~IsAssistant(messages[page.editing])
  /\ LET ms == Append(SubSeq(messages, 1, page.editing), Loading) IN
     /\ messages' = ms /\ Len(ms) <= MaxMessages
     /\ page' = [page EXCEPT !.saving = TRUE, !.editing = 0]
     /\ SendChat(ms, resend.mode, resend.count)
  /\ UNCHANGED <<stored, enabled, automatic>>

\* handleEditMessage, of a user's message or of an answer that has content
HandleEditMessage(i) ==
  /\ Ready /\ ~IsGenerating
  /\ IsAssistant(messages[i]) => messages[i].content
  /\ page.editing # i
  /\ page' = [page EXCEPT !.editing = i]
  /\ UNCHANGED <<messages, stored, enabled, stream, resend, automatic>>

\* applyEdit without submission. An answer that was reset for a retry since its
\* editor was opened has content again, and keeps its status.
SaveEdit ==
  /\ Ready /\ page.editing \in 1 .. Len(messages)
  /\ messages' = IF IsAssistant(messages[page.editing])
                 THEN [messages EXCEPT ![page.editing].content = TRUE] ELSE messages
  /\ page' = [page EXCEPT !.saving = TRUE, !.editing = 0]
  /\ UNCHANGED <<stored, enabled, stream, resend, automatic>>

\* handleEditOpenChange
CloseEditor ==
  /\ Ready /\ page.editing # 0
  /\ page' = [page EXCEPT !.editing = 0]
  /\ UNCHANGED <<messages, stored, enabled, stream, resend, automatic>>

HandleDeleteMessage(i) ==
  /\ Ready /\ ~IsGenerating
  /\ messages' = RemoveAt(messages, i)
  /\ page' = [page EXCEPT !.saving = TRUE,
                          !.editing = IF @ = i THEN 0 ELSE IF @ > i THEN @ - 1 ELSE @]
  /\ UNCHANGED <<stored, enabled, stream, resend, automatic>>

HandleClearMessages ==
  /\ Ready /\ ~IsGenerating /\ messages # <<>>
  /\ messages' = <<>>
  /\ page' = [page EXCEPT !.saving = TRUE, !.editing = 0]
  /\ UNCHANGED <<stored, enabled, stream, resend, automatic>>

\* Mutant: what is in the buffer is left to its timer.
StopKeepsBuffer ==
  /\ Ready /\ IsGenerating
  /\ UpdateMessages(UpdateLast(messages, LAMBDA m : IF IsPending(m) THEN Completed(m) ELSE m))
  /\ stream' = [FreshStream EXCEPT !.buffer = stream.buffer] /\ resend' = NoResend
  /\ UNCHANGED <<stored, enabled, automatic>>

\* Mutant: only an answer that has begun is completed.
StopLeavesLoading ==
  /\ Ready /\ IsGenerating
  /\ UpdateMessages(UpdateLast(Flushed(messages), LAMBDA m :
       IF m.status = "streaming" THEN Completed(m) ELSE m))
  /\ stream' = FreshStream /\ resend' = NoResend
  /\ UNCHANGED <<stored, enabled, automatic>>

\* stopGeneration
StopGeneration ==
  /\ Ready /\ IsGenerating
  /\ UpdateMessages(UpdateLast(Flushed(messages), LAMBDA m : IF IsPending(m) THEN Completed(m) ELSE m))
  /\ stream' = FreshStream /\ resend' = NoResend
  /\ UNCHANGED <<stored, enabled, automatic>>

-----------------------------------------------------------------------------
(* Events of the open source. *)

\* handleStreamUpdate
Chunk ==
  /\ Ready /\ stream.open /\ ~stream.quiet
  /\ stream' = [stream EXCEPT !.buffer = TRUE]
  /\ UNCHANGED <<messages, stored, page, enabled, resend, automatic>>

\* The 50 ms timer, which is set while there is something in the buffer.
FlushTimer ==
  /\ Ready /\ stream.buffer
  /\ UpdateMessages(Flushed(messages))
  /\ stream' = [stream EXCEPT !.buffer = FALSE]
  /\ UNCHANGED <<stored, enabled, resend, automatic>>

\* [DONE]: the source is closed, and handleStreamComplete.
Done ==
  /\ Ready /\ stream.open /\ ~stream.quiet
  /\ UpdateMessages(UpdateLast(Flushed(messages), LAMBDA m :
       IF m.status \in {"complete", "error"} /\ ~m.flag THEN m ELSE Completed(m)))
  /\ stream' = FreshStream /\ resend' = NoResend
  /\ UNCHANGED <<stored, enabled, automatic>>

\* Mutant: one retry more than the maximum.
ShouldRetryOnceMore == resend.mode /\ enabled /\ resend.count <= MaxRetries

\* decideAutoResend
ShouldRetry == resend.mode /\ enabled /\ resend.count < MaxRetries

\* Mutant: a final error leaves isRequesting set.
ErrorKeepsRequesting ==
  /\ Ready /\ stream.open /\ ~stream.quiet
  /\ IF ShouldRetry
     THEN /\ UpdateMessages(Flushed(messages))
          /\ resend' = [resend EXCEPT !.count = @ + 1, !.timer = TRUE]
     ELSE /\ UpdateMessages(UpdateLast(Flushed(messages), Failed))
          /\ resend' = NoResend
  /\ stream' = [FreshStream EXCEPT !.requesting = TRUE]
  /\ UNCHANGED <<stored, enabled, automatic>>

\* An error event, a bad ready state or a chunk that cannot be parsed:
\* handleStreamError, then the source is closed.
Error ==
  /\ Ready /\ stream.open /\ ~stream.quiet
  /\ IF ShouldRetry
     THEN /\ UpdateMessages(Flushed(messages))
          /\ resend' = [resend EXCEPT !.count = @ + 1, !.timer = TRUE]
          /\ stream' = [FreshStream EXCEPT !.requesting = TRUE]
     ELSE /\ UpdateMessages(UpdateLast(Flushed(messages), Failed))
          /\ resend' = NoResend
          /\ stream' = FreshStream
  /\ UNCHANGED <<stored, enabled, automatic>>

\* The connection ends with status 200 and without [DONE]: nothing handles it.
EndsQuietly ==
  /\ Ready /\ stream.open /\ ~stream.quiet
  /\ stream' = [stream EXCEPT !.quiet = TRUE]
  /\ UNCHANGED <<messages, stored, page, enabled, resend, automatic>>

\* The timer of handleStreamError, after the backoff.
RetryTimer ==
  /\ Ready /\ resend.timer
  /\ UpdateMessages(ResetPending(messages))
  /\ SendChat(ResetPending(messages), resend.mode, resend.count)
  /\ automatic' = automatic + 1
  /\ UNCHANGED <<stored, enabled>>

-----------------------------------------------------------------------------
(* Storage, reload and recovery. *)

\* The 500 ms timer of persistMessages.
SaveTimer ==
  /\ Ready /\ page.saving
  /\ stored' = messages
  /\ page' = [page EXCEPT !.saving = FALSE]
  /\ UNCHANGED <<messages, enabled, stream, resend, automatic>>

\* A reload of the page at any moment, without any cleanup.
Reload ==
  /\ messages' = <<>> /\ page' = FreshPage /\ stream' = FreshStream /\ resend' = NoResend
  /\ automatic' = 0
  /\ UNCHANGED <<stored, enabled>>

\* normalizeStoredMessageForLoad: a partial answer counts as complete.
Normalized(m) == IF IsPending(m) /\ m.content THEN [m EXCEPT !.status = "complete"] ELSE m

\* sanitizeMessagesOnLoad: the last pending answer is flagged.
Sanitized(ms) ==
  LET pending == {i \in DOMAIN ms : IsPending(ms[i])} IN
  IF pending = {} THEN ms
  ELSE [ms EXCEPT ![Max(pending)] = [@ EXCEPT !.status = "loading", !.flag = TRUE]]

\* loadMessages, which saves what it changed.
LoadMessages ==
  /\ ~page.loaded
  /\ messages' = Sanitized([i \in DOMAIN stored |-> Normalized(stored[i])])
  /\ stored' = messages'
  /\ page' = [page EXCEPT !.loaded = TRUE]
  /\ UNCHANGED <<enabled, stream, resend, automatic>>

\* Mutant: the page forgets that it has recovered.
RecoverForgets ==
  /\ RecoveryDue
  /\ page' = [page EXCEPT !.saving = TRUE]
  /\ IF enabled
     THEN /\ messages' = ResetPending(messages)
          /\ SendChat(ResetPending(messages), TRUE, 0)
          /\ automatic' = automatic + 1
     ELSE /\ messages' = UpdateLast(messages, LAMBDA m : [Failed(m) EXCEPT !.flag = FALSE])
          /\ UNCHANGED <<stream, resend, automatic>>
  /\ UNCHANGED <<stored, enabled>>

\* The effect of index.tsx and triggerAutoResend.
Recover ==
  /\ RecoveryDue
  /\ page' = [page EXCEPT !.triggered = TRUE, !.saving = TRUE]
  /\ IF enabled
     THEN /\ messages' = ResetPending(messages)
          /\ SendChat(ResetPending(messages), TRUE, 0)
          /\ automatic' = automatic + 1
     ELSE /\ messages' = UpdateLast(messages, LAMBDA m : [Failed(m) EXCEPT !.flag = FALSE])
          /\ UNCHANGED <<stream, resend, automatic>>
  /\ UNCHANGED <<stored, enabled>>

\* updateConfig('autoResendEnabled')
ToggleAutoResend ==
  /\ Ready /\ ~IsGenerating
  /\ enabled' = ~enabled
  /\ UNCHANGED <<messages, stored, page, stream, resend, automatic>>

-----------------------------------------------------------------------------
\* What happens without the user.
ByItself ==
  \/ Chunk \/ FlushTimer \/ Done \/ Error \/ EndsQuietly
  \/ RetryTimer \/ SaveTimer \/ LoadMessages \/ Recover

ByUser ==
  \/ HandleSendMessage \/ ApplyEdit \/ HandleClearMessages \/ StopGeneration
  \/ SaveEdit \/ CloseEditor \/ ToggleAutoResend \/ Reload
  \/ \E i \in DOMAIN messages :
       HandleRegenerateMessage(i) \/ HandleEditMessage(i) \/ HandleDeleteMessage(i)

Next == ByItself \/ ByUser

Spec == Init /\ [][Next]_vars

\* Effects and timers of the browser run; a source that has not gone quiet
\* reports [DONE] or an error in the end.
Fairness == WF_vars(LoadMessages) /\ WF_vars(Recover) /\ WF_vars(RetryTimer)
            /\ WF_vars(SaveTimer) /\ WF_vars(FlushTimer) /\ WF_vars(Done \/ Error)

FairSpec == Spec /\ Fairness

-----------------------------------------------------------------------------
(* Properties. *)

\* A retry that is scheduled has something to retry: the timer only runs while
\* the page resends automatically, a message is still marked for it, and the
\* last message waits for an answer. Nothing the user does before it fires
\* leaves a timer for a conversation that is gone.
RetryHasTarget ==
  resend.timer =>
    /\ resend.mode /\ stream.requesting
    /\ \E i \in DOMAIN messages : IsFlagged(messages[i])
    /\ messages # <<>> /\ IsPending(Last(messages))

\* No spinner without a request behind it: while the last message waits for an
\* answer the page is generating or about to recover it. The exception is an
\* older message that failed for good while flagged: a later recovery resets
\* it along with the one it is for.
SpinnerIsServed ==
  page.loaded /\ messages # <<>> /\ IsPending(Last(messages))
    => \/ IsGenerating \/ RecoveryDue
       \/ Last(messages).flag /\ page.triggered /\ ~resend.mode

\* One load of the page costs at most one resend and MaxRetries retries, whatever
\* sends, edits, stops, deletions and failures come between: what the user does
\* while the page resends by itself does not renew the budget.
RetriesAreBounded == automatic <= MaxRetries + 1

\* An answer on the page is not touched by timers or late events: a complete
\* message that does not wait for a resend stays as it is until the user acts.
AnswersStay ==
  [][ByItself => \A i \in DOMAIN messages :
       IsAssistant(messages[i]) /\ messages[i].status = "complete" /\ ~messages[i].flag
         => messages'[i] = messages[i]]_vars

\* Generation ends, with its retries, unless the connection went quiet.
GenerationEnds == IsGenerating ~> ~IsGenerating \/ stream.quiet
=============================================================================
