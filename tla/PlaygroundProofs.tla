-------------------------- MODULE PlaygroundProofs --------------------------
(***************************************************************************)
(* Proofs about module Playground, for conversations of any length and any *)
(* number of retries: a scheduled retry has its message, no spinner is     *)
(* left without a request, a reload costs a bounded number of requests,    *)
(* and answers stay as they are until the user acts.                       *)
(***************************************************************************)
EXTENDS Playground, SequenceTheorems, WellFoundedInduction, TLAPS

Messages == Assistant \cup {User}

\* A conversation in which only the last message may wait unmarked.
Conversation(ms) ==
  /\ ms \in Seq(Messages) /\ Len(ms) <= MaxMessages
  /\ \A i \in 1 .. Len(ms) - 1 : IsPending(ms[i]) => ms[i].flag

\* Before the page is loaded it is fresh; an editor is open on one of its messages.
PageInv ==
  /\ page \in [loaded : BOOLEAN, triggered : BOOLEAN, editing : 0 .. MaxMessages, saving : BOOLEAN]
  /\ ~page.loaded => page = FreshPage /\ messages = <<>>
  /\ page.editing # 0 => page.editing \in 1 .. Len(messages)

\* The page generates while, and only while, the last message waits, save for a
\* marked message that an older session abandoned.
WaitInv ==
  /\ page.loaded /\ messages # <<>> /\ IsPending(messages[Len(messages)]) /\ ~messages[Len(messages)].flag
       => IsGenerating
  /\ IsGenerating => /\ page.loaded /\ messages # <<>> /\ IsPending(messages[Len(messages)])
                     /\ messages[Len(messages)].flag => page.triggered

\* Only an open source has chunks in the buffer.
StreamInv ==
  /\ stream \in [open : BOOLEAN, quiet : BOOLEAN, buffer : BOOLEAN, requesting : BOOLEAN]
  /\ stream.buffer => stream.open

ResendInv ==
  /\ resend \in [mode : BOOLEAN, count : -1 .. MaxRetries, timer : BOOLEAN]
  /\ resend.mode => /\ IsGenerating /\ page.triggered
                    /\ \E i \in DOMAIN messages : IsFlagged(messages[i])
  /\ resend.timer => resend.mode /\ stream.requesting

\* The requests that the page sent by itself are counted by the retry counter.
CountInv ==
  /\ automatic \in Nat /\ automatic <= MaxRetries + 1
  /\ ~page.triggered => automatic = 0
  /\ resend.mode => automatic <= resend.count + 1
  /\ resend.timer => automatic <= resend.count

IInv ==
  /\ Conversation(messages) /\ Conversation(stored) /\ enabled \in BOOLEAN
  /\ PageInv /\ WaitInv /\ StreamInv /\ ResendInv /\ CountInv

-----------------------------------------------------------------------------
(* Messages. *)

LEMMA MessageFacts ==
  ASSUME NEW m \in Messages
  PROVE  /\ IsAssistant(m) <=> m \in Assistant
         /\ IsPending(m) => m \in Assistant
         /\ IsFlagged(m) => m \in Assistant
         /\ m \in Assistant => /\ m.flag \in BOOLEAN /\ m.content \in BOOLEAN
                               /\ m.status \in {"loading", "streaming", "complete", "error"}
                               /\ IsPending(m) <=> m.status \in {"loading", "streaming"}
                               /\ IsFlagged(m) <=> m.flag
BY DEF Messages, Assistant, User, IsAssistant, IsPending, IsFlagged

LEMMA LoadingFacts ==
  /\ Loading \in Messages /\ Loading \in Assistant /\ IsPending(Loading) /\ ~Loading.flag /\ ~IsFlagged(Loading)
  /\ User \in Messages /\ ~IsAssistant(User) /\ ~IsPending(User) /\ ~IsFlagged(User)
BY DEF Messages, Assistant, User, Loading, IsAssistant, IsPending, IsFlagged

LEMMA CompletedFacts ==
  ASSUME NEW m \in Assistant
  PROVE  Completed(m) \in Assistant /\ ~IsPending(Completed(m)) /\ ~Completed(m).flag
BY DEF Assistant, Completed, IsPending

LEMMA FailedFacts ==
  ASSUME NEW m \in Assistant
  PROVE  Failed(m) \in Assistant /\ ~IsPending(Failed(m))
BY DEF Assistant, Failed, IsPending

\* The last message is replaced.
LEMMA LastReplaced ==
  ASSUME NEW ms \in Seq(Messages), ms # <<>>, NEW m \in Messages
  PROVE  LET ns == [ms EXCEPT ![Len(ms)] = m]
         IN /\ ns \in Seq(Messages) /\ Len(ns) = Len(ms) /\ ns # <<>> /\ Len(ms) \in Nat \ {0}
            /\ \A i \in 1 .. Len(ms) - 1 : ns[i] = ms[i]
            /\ ns[Len(ms)] = m
            /\ ms[Len(ms)] \in Messages
<1>1. Len(ms) \in Nat \ {0}
  BY EmptySeq
<1>2. Len(ms) \in 1 .. Len(ms) /\ \A i \in 1 .. Len(ms) - 1 : i \in 1 .. Len(ms) /\ i # Len(ms)
  BY <1>1
<1> DEFINE ns == [ms EXCEPT ![Len(ms)] = m]
<1>3. /\ ns \in Seq(Messages) /\ Len(ns) = Len(ms)
      /\ \A j \in 1 .. Len(ms) : ns[j] = IF j = Len(ms) THEN m ELSE ms[j]
  BY <1>2, ExceptSeq
<1> HIDE DEF ns
<1>4. ns # <<>>
  BY <1>1, <1>3, EmptySeq
<1>5. ms[Len(ms)] \in Messages
  BY <1>2, ElementOfSeq
<1> QED BY <1>1, <1>2, <1>3, <1>4, <1>5 DEF ns

\* What a message is reset to before it is sent again.
Marked == [Loading EXCEPT !.flag = TRUE]

LEMMA MarkedFacts ==
  Marked \in Assistant /\ Marked \in Messages /\ IsPending(Marked) /\ Marked.flag /\ IsFlagged(Marked)
BY DEF Marked, Messages, Assistant, Loading, IsPending, IsFlagged, IsAssistant

\* A sequence of the same length, message by message.
LEMMA FunctionIsSeq ==
  ASSUME NEW n \in Nat, NEW f, f \in [1 .. n -> Messages]
  PROVE  f \in Seq(Messages) /\ Len(f) = n
BY DEF Messages

LEMMA ResetFacts ==
  ASSUME NEW ms \in Seq(Messages)
  PROVE  LET ns == ResetPending(ms)
         IN /\ ns \in Seq(Messages) /\ Len(ns) = Len(ms) /\ (ms # <<>> => ns # <<>>)
            /\ \A i \in 1 .. Len(ms) : ns[i] = IF IsFlagged(ms[i]) THEN Marked ELSE ms[i]
<1> DEFINE ns == ResetPending(ms)
<1>1. Len(ms) \in Nat /\ DOMAIN ms = 1 .. Len(ms) /\ \A i \in 1 .. Len(ms) : ms[i] \in Messages
  BY LenProperties, ElementOfSeq
<1>2. ns = [i \in 1 .. Len(ms) |-> IF IsFlagged(ms[i]) THEN Marked ELSE ms[i]]
  BY <1>1 DEF ResetPending, Marked
<1>3. ns \in [1 .. Len(ms) -> Messages]
  BY <1>1, <1>2, MarkedFacts
<1> HIDE DEF ns
<1>4. ns \in Seq(Messages) /\ Len(ns) = Len(ms)
  BY <1>1, <1>3, FunctionIsSeq
<1>5. ms # <<>> => ns # <<>>
  BY <1>1, <1>4, EmptySeq
<1> QED BY <1>2, <1>4, <1>5 DEF ns

\* The first n messages, and a message that waits.
LEMMA AskedAgain ==
  ASSUME NEW ms \in Seq(Messages), NEW n \in 0 .. Len(ms)
  PROVE  LET ns == Append(SubSeq(ms, 1, n), Loading)
         IN /\ ns \in Seq(Messages) /\ Len(ns) = n + 1 /\ ns # <<>>
            /\ \A i \in 1 .. n : ns[i] = ms[i]
            /\ ns[n + 1] = Loading
<1> DEFINE p == SubSeq(ms, 1, n)
           ns == Append(p, Loading)
<1>1. Len(ms) \in Nat /\ \A i \in 1 .. Len(ms) : ms[i] \in Messages
  BY LenProperties, ElementOfSeq
<1>2. \A i \in 1 .. n : ms[i] \in Messages
  BY <1>1
<1>3. p \in Seq(Messages) /\ Len(p) = (IF 1 <= n THEN n - 1 + 1 ELSE 0) /\ \A i \in 1 .. n - 1 + 1 : p[i] = ms[1 + i - 1]
  BY <1>1, <1>2, SubSeqProperties
<1>4. Len(p) = n /\ \A i \in 1 .. n : p[i] = ms[i]
  BY <1>1, <1>3
<1> HIDE DEF p
<1>5. /\ ns \in Seq(Messages) /\ Len(ns) = Len(p) + 1 /\ ns # <<>>
      /\ \A i \in 1 .. Len(p) : ns[i] = p[i]
      /\ ns[Len(p) + 1] = Loading
  BY <1>3, LoadingFacts, AppendProperties
<1> HIDE DEF ns
<1> QED BY <1>4, <1>5 DEF ns, p

LEMMA Asked ==
  ASSUME NEW ms \in Seq(Messages)
  PROVE  LET ns == ms \o <<User, Loading>>
         IN /\ ns \in Seq(Messages) /\ Len(ns) = Len(ms) + 2 /\ ns # <<>>
            /\ \A i \in 1 .. Len(ms) : ns[i] = ms[i]
            /\ ns[Len(ms) + 1] = User /\ ns[Len(ms) + 2] = Loading
<1> DEFINE q == <<User, Loading>>
           ns == ms \o q
<1>1. q \in Seq(Messages) /\ Len(q) = 2 /\ q[1] = User /\ q[2] = Loading
  BY LoadingFacts
<1> HIDE DEF q
<1>2. /\ ns \in Seq(Messages) /\ Len(ns) = Len(ms) + Len(q)
      /\ \A i \in 1 .. Len(ms) + Len(q) : ns[i] = IF i <= Len(ms) THEN ms[i] ELSE q[i - Len(ms)]
  BY <1>1, ConcatProperties
<1>3. Len(ms) \in Nat
  BY LenProperties
<1> HIDE DEF ns
<1>4. ns # <<>>
  BY <1>1, <1>2, <1>3, EmptySeq
<1>5. \A i \in 1 .. Len(ms) : ns[i] = ms[i]
  BY <1>1, <1>2, <1>3
<1>6. ns[Len(ms) + 1] = User /\ ns[Len(ms) + 2] = Loading
  BY <1>1, <1>2, <1>3
<1> QED BY <1>1, <1>2, <1>4, <1>5, <1>6 DEF ns, q

\* A message is deleted: the later ones move up.
LEMMA Deleted ==
  ASSUME NEW ms \in Seq(Messages), NEW k \in 1 .. Len(ms)
  PROVE  LET ns == RemoveAt(ms, k)
         IN /\ ns \in Seq(Messages) /\ Len(ns) = Len(ms) - 1 /\ Len(ms) \in Nat \ {0}
            /\ \A i \in 1 .. Len(ms) - 1 : ns[i] = IF i < k THEN ms[i] ELSE ms[i + 1]
<1> DEFINE p == SubSeq(ms, 1, k - 1)
           q == SubSeq(ms, k + 1, Len(ms))
           ns == RemoveAt(ms, k)
<1>1. Len(ms) \in Nat \ {0} /\ k \in Int /\ \A i \in 1 .. Len(ms) : ms[i] \in Messages
  BY LenProperties, ElementOfSeq
<1>2. /\ p \in Seq(Messages) /\ Len(p) = (IF 1 <= k - 1 THEN k - 1 - 1 + 1 ELSE 0)
      /\ \A i \in 1 .. k - 1 - 1 + 1 : p[i] = ms[1 + i - 1]
  <2>1. \A i \in 1 .. k - 1 : ms[i] \in Messages
    BY <1>1
  <2> QED BY <1>1, <2>1, SubSeqProperties
<1>3. /\ q \in Seq(Messages) /\ Len(q) = (IF k + 1 <= Len(ms) THEN Len(ms) - (k + 1) + 1 ELSE 0)
      /\ \A i \in 1 .. Len(ms) - (k + 1) + 1 : q[i] = ms[(k + 1) + i - 1]
  <2>1. \A i \in k + 1 .. Len(ms) : ms[i] \in Messages
    BY <1>1
  <2> QED BY <1>1, <2>1, SubSeqProperties
<1>4. Len(p) = k - 1 /\ Len(q) = Len(ms) - k
  BY <1>1, <1>2, <1>3
<1> HIDE DEF p, q
<1>5. /\ ns = p \o q /\ ns \in Seq(Messages) /\ Len(ns) = Len(p) + Len(q)
      /\ \A i \in 1 .. Len(p) + Len(q) : ns[i] = IF i <= Len(p) THEN p[i] ELSE q[i - Len(p)]
  BY <1>2, <1>3, ConcatProperties DEF RemoveAt, p, q
<1> HIDE DEF ns
<1>6. Len(ns) = Len(ms) - 1
  BY <1>1, <1>4, <1>5
<1>7. ASSUME NEW i \in 1 .. Len(ms) - 1 PROVE ns[i] = IF i < k THEN ms[i] ELSE ms[i + 1]
  <2>1. ns[i] = IF i <= k - 1 THEN p[i] ELSE q[i - (k - 1)]
    BY <1>1, <1>4, <1>5
  <2>2. CASE i < k
    <3>1. i \in 1 .. k - 1 - 1 + 1 /\ 1 + i - 1 = i /\ i <= k - 1
      BY <1>1, <2>2
    <3>2. p[i] = ms[i]
      BY <1>2, <3>1
    <3> QED BY <2>1, <2>2, <3>1, <3>2
  <2>3. CASE i >= k
    <3>1. i - (k - 1) \in 1 .. Len(ms) - (k + 1) + 1 /\ (k + 1) + (i - (k - 1)) - 1 = i + 1 /\ ~(i <= k - 1) /\ ~(i < k)
      BY <1>1, <2>3
    <3>2. q[i - (k - 1)] = ms[i + 1]
      BY <1>3, <3>1
    <3> QED BY <2>1, <3>1, <3>2
  <2> QED BY <1>1, <2>2, <2>3
<1> QED BY <1>1, <1>5, <1>6, <1>7 DEF ns

-----------------------------------------------------------------------------
(* The inductive invariant, event by event. *)

PageType == [loaded : BOOLEAN, triggered : BOOLEAN, editing : 0 .. MaxMessages, saving : BOOLEAN]
StreamType == [open : BOOLEAN, quiet : BOOLEAN, buffer : BOOLEAN, requesting : BOOLEAN]
ResendType == [mode : BOOLEAN, count : -1 .. MaxRetries, timer : BOOLEAN]

LEMMA Facts ==
  ASSUME IInv
  PROVE  /\ MaxMessages \in Nat /\ MaxRetries \in Nat
         /\ messages \in Seq(Messages) /\ Len(messages) \in Nat /\ Len(messages) <= MaxMessages
         /\ DOMAIN messages = 1 .. Len(messages) /\ \A i \in 1 .. Len(messages) : messages[i] \in Messages
         /\ messages # <<>> => /\ Len(messages) \in Nat \ {0} /\ Len(messages) \in 1 .. Len(messages)
                               /\ messages[Len(messages)] \in Messages
         /\ page \in PageType /\ stream \in StreamType /\ resend \in ResendType
<1>1. messages \in Seq(Messages) /\ Len(messages) <= MaxMessages
  BY DEF IInv, Conversation
<1>2. Len(messages) \in Nat /\ DOMAIN messages = 1 .. Len(messages) /\ \A i \in 1 .. Len(messages) : messages[i] \in Messages
  BY <1>1, LenProperties, ElementOfSeq
<1>3. messages # <<>> => Len(messages) \in Nat \ {0}
  BY <1>1, EmptySeq
<1>4. page \in PageType /\ stream \in StreamType /\ resend \in ResendType
  BY DEF IInv, PageInv, StreamInv, ResendInv, PageType, StreamType, ResendType
<1> QED BY <1>1, <1>2, <1>3, <1>4, PlaygroundAssumption

\* A step that leaves the conversation alone.
LEMMA SameMessages ==
  ASSUME IInv, messages' = messages, stored' \in {stored, messages}, enabled' \in BOOLEAN,
         UNCHANGED <<resend, automatic>>,
         page' \in PageType, page.loaded,
         page'.loaded = page.loaded, page'.triggered = page.triggered,
         page'.editing # 0 => page'.editing \in 1 .. Len(messages),
         stream' \in StreamType, stream'.open = stream.open, stream'.requesting = stream.requesting,
         stream'.buffer => stream.open
  PROVE  IInv'
<1>1. Conversation(messages)' /\ Conversation(stored)' /\ enabled' \in BOOLEAN
  BY DEF IInv, Conversation
<1>2. PageInv'
  BY DEF PageInv, PageType
<1>3. WaitInv'
  BY DEF IInv, WaitInv, IsGenerating
<1>4. StreamInv'
  BY DEF StreamInv, StreamType
<1>5. ResendInv'
  BY DEF IInv, ResendInv, IsGenerating
<1>6. CountInv'
  BY DEF IInv, CountInv
<1> QED BY <1>1, <1>2, <1>3, <1>4, <1>5, <1>6 DEF IInv

\* The conversation ms that replaces messages has the same length.
SameLength(ms) == Len(ms) = Len(messages)

\* A generation ends: its message waits no more.
LEMMA GenerationEnded ==
  ASSUME IInv, page.loaded, Conversation(messages'), SameLength(messages'),
         messages' # <<>> => ~IsPending(messages'[Len(messages')]),
         stored' = stored, enabled' = enabled,
         page' = [page EXCEPT !.saving = TRUE],
         stream' = FreshStream, resend' = NoResend, automatic' = automatic
  PROVE  IInv'
<1>1. Conversation(messages)' /\ Conversation(stored)' /\ enabled' \in BOOLEAN
  BY DEF IInv, Conversation
<1>2. page \in PageType /\ page' \in PageType /\ page'.loaded /\ page'.triggered = page.triggered /\ page'.editing = page.editing
  BY Facts DEF PageType
<1>3. PageInv'
  BY <1>2 DEF IInv, PageInv, PageType, SameLength
<1>4. stream' \in StreamType /\ ~stream'.open /\ ~stream'.requesting /\ ~stream'.buffer
  BY DEF FreshStream, StreamType
<1>5. WaitInv'
  BY <1>4 DEF WaitInv, IsGenerating
<1>6. StreamInv'
  BY <1>4 DEF StreamInv, StreamType
<1>7. resend' \in ResendType /\ ~resend'.mode /\ ~resend'.timer
  BY PlaygroundAssumption DEF NoResend, ResendType
<1>8. ResendInv'
  BY <1>7 DEF ResendInv, ResendType
<1>9. CountInv'
  <2>1. CountInv /\ MaxRetries \in Nat
    BY PlaygroundAssumption DEF IInv
  <2>2. automatic' \in Nat /\ automatic' <= MaxRetries + 1
    BY <2>1 DEF CountInv
  <2>3. ~page'.triggered => automatic' = 0
    BY <1>2, <2>1 DEF CountInv
  <2> QED BY <1>7, <2>2, <2>3 DEF CountInv
<1> QED BY <1>1, <1>3, <1>5, <1>6, <1>8, <1>9 DEF IInv

\* A request is sent for the conversation ms, the last message of which waits.
LEMMA RequestSent ==
  ASSUME IInv, NEW ms, Conversation(ms), ms # <<>>, IsPending(ms[Len(ms)]),
         messages' = ms, stored' = stored, enabled' = enabled,
         page' \in PageType, page'.loaded, ms[Len(ms)].flag => page'.triggered,
         page'.editing # 0 => page'.editing \in 1 .. Len(ms),
         NEW mode \in BOOLEAN, NEW count \in -1 .. MaxRetries, SendChat(ms, mode, count),
         mode => page'.triggered /\ automatic' <= count + 1,
         automatic' \in Nat, automatic' <= MaxRetries + 1, ~page'.triggered => automatic' = 0
  PROVE  IInv'
<1>1. Conversation(messages)' /\ Conversation(stored)' /\ enabled' \in BOOLEAN
  BY DEF IInv, Conversation
<1>2. PageInv'
  BY DEF PageInv, PageType
<1>3. stream \in StreamType
  BY Facts
<1>4. stream' \in StreamType /\ stream'.open /\ stream'.requesting
  BY <1>3 DEF SendChat, StreamType
<1>5. StreamInv'
  BY <1>4 DEF StreamInv, StreamType
<1>6. WaitInv'
  BY <1>4 DEF WaitInv, IsGenerating
<1>7. /\ resend' \in ResendType /\ ~resend'.timer
      /\ resend'.mode => mode /\ resend'.count = count /\ \E i \in DOMAIN ms : IsFlagged(ms[i])
  BY PlaygroundAssumption DEF SendChat, ResendType, NoResend
<1>8. ResendInv'
  BY <1>4, <1>7 DEF ResendInv, ResendType, IsGenerating
<1>9. CountInv'
  BY <1>7 DEF CountInv
<1> QED BY <1>1, <1>2, <1>5, <1>6, <1>8, <1>9 DEF IInv

\* The pieces of the invariant that the proofs below keep needing.
LEMMA WhenReady ==
  ASSUME IInv, Ready
  PROVE  /\ page.loaded
         /\ IsGenerating => /\ messages # <<>> /\ messages[Len(messages)] \in Assistant
                            /\ messages[Len(messages)].status \in {"loading", "streaming"}
                            /\ IsPending(messages[Len(messages)])
         /\ ~IsGenerating => ~resend.mode /\ ~resend.timer
         /\ ~IsGenerating => \A i \in 1 .. Len(messages) : IsPending(messages[i]) => messages[i].flag
<1>1. page.loaded
  BY DEF Ready
<1>2. IsGenerating => messages # <<>> /\ IsPending(messages[Len(messages)])
  BY DEF IInv, WaitInv
<1>3. IsGenerating => /\ messages[Len(messages)] \in Assistant
                      /\ messages[Len(messages)].status \in {"loading", "streaming"}
  BY <1>2, Facts, MessageFacts
<1>4. ~IsGenerating => ~resend.mode /\ ~resend.timer
  BY DEF IInv, ResendInv
<1>5. ASSUME ~IsGenerating, NEW i \in 1 .. Len(messages), IsPending(messages[i]) PROVE messages[i].flag
  <2>1. messages # <<>> /\ Len(messages) \in Nat
    BY <1>5, Facts, EmptySeq
  <2>2. CASE i = Len(messages)
    BY <1>1, <1>5, <2>1, <2>2 DEF IInv, WaitInv
  <2>3. CASE i # Len(messages)
    <3>1. i \in 1 .. Len(messages) - 1
      BY <2>1, <2>3
    <3> QED BY <1>5, <3>1 DEF IInv, Conversation
  <2> QED BY <2>2, <2>3
<1> QED BY <1>1, <1>2, <1>3, <1>4, <1>5

\* flushStreamUpdates while the page generates: the last message still waits,
\* marked as before.
LEMMA FlushedFacts ==
  ASSUME IInv, Ready, IsGenerating
  PROVE  \E m \in Assistant :
           /\ Flushed(messages) = [messages EXCEPT ![Len(messages)] = m]
           /\ m.status \in {"loading", "streaming"} /\ m.flag = messages[Len(messages)].flag
           /\ ~stream.buffer => m = messages[Len(messages)]
<1> DEFINE l == messages[Len(messages)]
           m == IF ~stream.buffer \/ l.status = "error" THEN l
                ELSE [l EXCEPT !.content = TRUE, !.status = "streaming"]
<1>1. messages # <<>> /\ l \in Assistant /\ l.status \in {"loading", "streaming"} /\ IsPending(l)
  BY WhenReady
<1>2. Flushed(messages) = [messages EXCEPT ![Len(messages)] = m]
  BY <1>1 DEF Flushed, UpdateLast, Last, IsPending
<1>3. m \in Assistant /\ m.status \in {"loading", "streaming"} /\ m.flag = l.flag /\ (~stream.buffer => m = l)
  <2> HIDE DEF l
  <2> QED BY <1>1 DEF Assistant
<1> HIDE DEF m
<1> QED BY <1>2, <1>3

\* Only the last message, an answer, is replaced.
LEMMA LastChanged ==
  ASSUME IInv, messages # <<>>, messages[Len(messages)] \in Assistant,
         NEW m \in Assistant
  PROVE  LET ns == [messages EXCEPT ![Len(messages)] = m]
         IN /\ Conversation(ns) /\ SameLength(ns) /\ ns # <<>> /\ ns[Len(ns)] = m /\ Len(ns) = Len(messages)
            /\ \A i \in 1 .. Len(messages) - 1 : ns[i] = messages[i]
<1> DEFINE ns == [messages EXCEPT ![Len(messages)] = m]
<1>1. m \in Messages /\ messages \in Seq(Messages)
  BY Facts DEF Messages
<1>2. /\ ns \in Seq(Messages) /\ Len(ns) = Len(messages) /\ ns # <<>> /\ Len(messages) \in Nat \ {0}
      /\ \A i \in 1 .. Len(messages) - 1 : ns[i] = messages[i]
      /\ ns[Len(messages)] = m
  BY <1>1, LastReplaced
<1> HIDE DEF ns
<1>3. Conversation(ns)
  BY <1>2 DEF IInv, Conversation
<1>4. SameLength(ns)
  BY <1>2 DEF SameLength
<1> QED BY <1>2, <1>3, <1>4 DEF ns

LEMMA ReplacedTwice ==
  ASSUME NEW ms \in Seq(Messages), ms # <<>>, NEW m, NEW k
  PROVE  LET ns == [ms EXCEPT ![Len(ms)] = m]
         IN [ns EXCEPT ![Len(ms)] = k] = [ms EXCEPT ![Len(ms)] = k]
OBVIOUS

\* What a handler does to the last message after it flushed the buffer.
LEMMA FlushedAndEnded ==
  ASSUME IInv, Ready, IsGenerating
  PROVE  \E m \in Assistant :
           /\ m.status \in {"loading", "streaming"} /\ IsPending(m)
           /\ Flushed(messages) # <<>> /\ IsAssistant(Last(Flushed(messages))) /\ Last(Flushed(messages)) = m
           /\ \A k : [Flushed(messages) EXCEPT ![Len(Flushed(messages))] = k] = [messages EXCEPT ![Len(messages)] = k]
<1>1. PICK m \in Assistant : /\ Flushed(messages) = [messages EXCEPT ![Len(messages)] = m]
                             /\ m.status \in {"loading", "streaming"}
  BY FlushedFacts
<1>2. messages # <<>> /\ messages[Len(messages)] \in Assistant /\ messages \in Seq(Messages)
  BY WhenReady, Facts
<1> DEFINE ns == [messages EXCEPT ![Len(messages)] = m]
<1>3. ns # <<>> /\ ns[Len(ns)] = m /\ Len(ns) = Len(messages)
  BY <1>2, LastChanged
<1>4. \A k : [ns EXCEPT ![Len(messages)] = k] = [messages EXCEPT ![Len(messages)] = k]
  BY <1>2, ReplacedTwice
<1>5. IsAssistant(m) /\ IsPending(m)
  BY <1>1 DEF Assistant, IsAssistant, IsPending
<1> HIDE DEF ns
<1>6. Flushed(messages) = ns
  BY <1>1 DEF ns
<1> QED BY <1>1, <1>3, <1>4, <1>5, <1>6 DEF Last

LEMMA AnswerEnded ==
  ASSUME IInv, Ready, IsGenerating, NEW k \in Assistant, ~IsPending(k),
         UpdateMessages([messages EXCEPT ![Len(messages)] = k]),
         stream' = FreshStream, resend' = NoResend, automatic' = automatic,
         UNCHANGED <<stored, enabled>>
  PROVE  IInv'
<1> DEFINE ns == [messages EXCEPT ![Len(messages)] = k]
<1>1. page.loaded /\ messages # <<>> /\ messages[Len(messages)] \in Assistant
  BY WhenReady
<1>2. Conversation(ns) /\ SameLength(ns) /\ ns[Len(ns)] = k
  BY <1>1, LastChanged
<1>3. messages' = ns /\ page' = [page EXCEPT !.saving = TRUE]
  BY DEF UpdateMessages
<1> HIDE DEF ns
<1> QED BY <1>1, <1>2, <1>3, GenerationEnded

LEMMA DoneStep ==
  ASSUME IInv, Done
  PROVE  IInv'
<1>1. Ready /\ IsGenerating /\ stream' = FreshStream /\ resend' = NoResend /\ UNCHANGED <<stored, enabled, automatic>>
  BY DEF Done, IsGenerating
<1>2. PICK m \in Assistant :
        /\ m.status \in {"loading", "streaming"} /\ IsPending(m)
        /\ Flushed(messages) # <<>> /\ IsAssistant(Last(Flushed(messages))) /\ Last(Flushed(messages)) = m
        /\ \A k : [Flushed(messages) EXCEPT ![Len(Flushed(messages))] = k] = [messages EXCEPT ![Len(messages)] = k]
  BY <1>1, FlushedAndEnded
<1>3. UpdateMessages([messages EXCEPT ![Len(messages)] = Completed(m)])
  BY <1>2 DEF Done, UpdateLast
<1>4. Completed(m) \in Assistant /\ ~IsPending(Completed(m))
  BY CompletedFacts
<1> QED BY <1>1, <1>3, <1>4, AnswerEnded

LEMMA StopStep ==
  ASSUME IInv, StopGeneration
  PROVE  IInv'
<1>1. /\ Ready /\ IsGenerating /\ stream' = FreshStream /\ resend' = NoResend
      /\ UNCHANGED <<stored, enabled, automatic>>
  BY DEF StopGeneration
<1>2. PICK m \in Assistant :
        /\ m.status \in {"loading", "streaming"} /\ IsPending(m)
        /\ Flushed(messages) # <<>> /\ IsAssistant(Last(Flushed(messages))) /\ Last(Flushed(messages)) = m
        /\ \A k : [Flushed(messages) EXCEPT ![Len(Flushed(messages))] = k] = [messages EXCEPT ![Len(messages)] = k]
  BY <1>1, FlushedAndEnded
<1>3. UpdateMessages([messages EXCEPT ![Len(messages)] = Completed(m)])
  BY <1>2 DEF StopGeneration, UpdateLast
<1>4. Completed(m) \in Assistant /\ ~IsPending(Completed(m))
  BY CompletedFacts
<1> QED BY <1>1, <1>3, <1>4, AnswerEnded

\* The last message is flushed and waits on.
LEMMA FlushStep ==
  ASSUME IInv, Ready, IsGenerating, UpdateMessages(Flushed(messages)), UNCHANGED <<stored, enabled, automatic>>,
         stream' \in StreamType, stream'.open \/ stream'.requesting, stream'.buffer => stream'.open,
         resend' \in ResendType, resend'.mode = resend.mode,
         resend'.timer => resend'.mode /\ stream'.requesting /\ automatic <= resend'.count,
         resend'.mode => automatic <= resend'.count + 1
  PROVE  IInv'
<1>1. PICK m \in Assistant : /\ Flushed(messages) = [messages EXCEPT ![Len(messages)] = m]
                             /\ m.status \in {"loading", "streaming"} /\ m.flag = messages[Len(messages)].flag
  BY FlushedFacts
<1>2. page.loaded /\ messages # <<>> /\ messages[Len(messages)] \in Assistant
  BY WhenReady
<1> DEFINE ns == [messages EXCEPT ![Len(messages)] = m]
<1>3. /\ Conversation(ns) /\ SameLength(ns) /\ ns # <<>> /\ ns[Len(ns)] = m /\ Len(ns) = Len(messages)
      /\ \A i \in 1 .. Len(messages) - 1 : ns[i] = messages[i]
  BY <1>2, LastChanged
<1> HIDE DEF ns
<1>4. messages' = ns /\ page' = [page EXCEPT !.saving = TRUE]
  BY <1>1 DEF UpdateMessages, ns
<1>5. Conversation(messages)' /\ Conversation(stored)' /\ enabled' \in BOOLEAN
  BY <1>3, <1>4 DEF IInv, Conversation
<1>6. /\ page \in PageType /\ page' \in PageType /\ page'.loaded /\ page'.triggered = page.triggered
      /\ page'.editing = page.editing
  BY <1>2, <1>4, Facts DEF PageType
<1>7. PageInv'
  BY <1>3, <1>4, <1>6 DEF IInv, PageInv, PageType, SameLength
<1>8. IsPending(m)
  BY <1>1 DEF Assistant, IsPending, IsAssistant
<1>9. m.flag => page.triggered
  BY <1>1 DEF IInv, WaitInv
<1>10. WaitInv'
  BY <1>3, <1>4, <1>6, <1>8, <1>9 DEF WaitInv, IsGenerating
<1>11. StreamInv'
  BY DEF StreamInv, StreamType
<1>12. ASSUME resend'.mode PROVE page'.triggered /\ \E i \in DOMAIN ns : IsFlagged(ns[i])
  <2>1. page.triggered /\ \E i \in DOMAIN messages : IsFlagged(messages[i])
    BY <1>12 DEF IInv, ResendInv
  <2>2. PICK i \in 1 .. Len(messages) : IsFlagged(messages[i])
    BY <2>1, Facts
  <2>3. DOMAIN ns = 1 .. Len(ns)
    BY <1>3, LenProperties DEF Conversation
  <2>4. IsFlagged(ns[i])
    <3>1. CASE i = Len(messages)
      BY <1>1, <1>2, <1>3, <2>2, <3>1 DEF IsFlagged, IsAssistant, Assistant
    <3>2. CASE i # Len(messages)
      <4>1. Len(messages) \in Nat
        BY Facts
      <4>2. i \in 1 .. Len(messages) - 1
        BY <3>2, <4>1
      <4> QED BY <1>3, <2>2, <4>2
    <3> QED BY <3>1, <3>2
  <2> QED BY <1>3, <1>6, <2>1, <2>3, <2>4
<1>13. ResendInv'
  BY <1>4, <1>12 DEF ResendInv, ResendType, IsGenerating
<1>14. CountInv'
  BY <1>6 DEF IInv, CountInv
<1> QED BY <1>5, <1>7, <1>10, <1>11, <1>13, <1>14 DEF IInv

LEMMA FlushTimerStep ==
  ASSUME IInv, FlushTimer
  PROVE  IInv'
<1>1. /\ Ready /\ stream.buffer /\ UpdateMessages(Flushed(messages)) /\ UNCHANGED <<stored, enabled, resend, automatic>>
      /\ stream' = [stream EXCEPT !.buffer = FALSE]
  BY DEF FlushTimer
<1>2. stream.open /\ IsGenerating
  BY <1>1 DEF IInv, StreamInv, IsGenerating
<1>3. stream' \in StreamType /\ stream'.open /\ ~stream'.buffer /\ stream'.requesting = stream.requesting
  BY <1>1, <1>2, Facts DEF StreamType
<1>4. /\ resend' \in ResendType /\ resend' = resend
      /\ resend.timer => resend.mode /\ stream.requesting /\ automatic <= resend.count
      /\ resend.mode => automatic <= resend.count + 1
  BY <1>1, Facts DEF IInv, ResendInv, CountInv
<1> QED BY <1>1, <1>2, <1>3, <1>4, FlushStep

LEMMA ErrorStep ==
  ASSUME IInv, Error
  PROVE  IInv'
<1>1. Ready /\ IsGenerating /\ UNCHANGED <<stored, enabled, automatic>>
  BY DEF Error, IsGenerating
<1>2. CASE ShouldRetry
  <2>1. /\ UpdateMessages(Flushed(messages)) /\ resend' = [resend EXCEPT !.count = @ + 1, !.timer = TRUE]
        /\ stream' = [FreshStream EXCEPT !.requesting = TRUE]
    BY <1>2 DEF Error
  <2>2. stream' \in StreamType /\ stream'.requesting /\ ~stream'.buffer
    BY <2>1 DEF FreshStream, StreamType
  <2>3. resend \in ResendType /\ resend.mode /\ resend.count < MaxRetries /\ MaxRetries \in Nat
    BY <1>2, Facts DEF ShouldRetry
  <2>4. resend.count \in -1 .. MaxRetries /\ resend.count + 1 \in -1 .. MaxRetries
    BY <2>3 DEF ResendType
  <2>5. resend' \in ResendType /\ resend'.mode = resend.mode /\ resend'.count = resend.count + 1 /\ resend'.timer
    BY <2>1, <2>3, <2>4 DEF ResendType
  <2>6. automatic \in Nat /\ automatic <= resend.count + 1
    BY <2>3 DEF IInv, CountInv
  <2>7. automatic <= resend'.count /\ automatic <= resend'.count + 1
    BY <2>4, <2>5, <2>6
  <2> QED BY <1>1, <2>1, <2>2, <2>3, <2>5, <2>7, FlushStep
<1>3. CASE ~ShouldRetry
  <2>1. PICK m \in Assistant :
          /\ m.status \in {"loading", "streaming"} /\ IsPending(m)
          /\ Flushed(messages) # <<>> /\ IsAssistant(Last(Flushed(messages))) /\ Last(Flushed(messages)) = m
          /\ \A k : [Flushed(messages) EXCEPT ![Len(Flushed(messages))] = k] = [messages EXCEPT ![Len(messages)] = k]
    BY <1>1, FlushedAndEnded
  <2>2. /\ UpdateMessages([messages EXCEPT ![Len(messages)] = Failed(m)])
        /\ resend' = NoResend /\ stream' = FreshStream
    BY <1>3, <2>1 DEF Error, UpdateLast
  <2>3. Failed(m) \in Assistant /\ ~IsPending(Failed(m))
    BY FailedFacts
  <2> QED BY <1>1, <2>2, <2>3, AnswerEnded
<1> QED BY <1>2, <1>3

\* The page sends the marked messages again: triggerAutoResend and the timer.
LEMMA ResendStep ==
  ASSUME IInv, page.loaded, messages # <<>>, IsPending(messages[Len(messages)]) \/ IsFlagged(messages[Len(messages)]),
         messages' = ResetPending(messages), UNCHANGED <<stored, enabled>>,
         page' \in PageType, page'.loaded, page'.triggered, page'.editing = page.editing,
         NEW mode \in BOOLEAN, NEW count \in -1 .. MaxRetries, SendChat(ResetPending(messages), mode, count),
         automatic' = automatic + 1, automatic <= count
  PROVE  IInv'
<1> DEFINE ns == ResetPending(messages)
<1>1. /\ ns \in Seq(Messages) /\ Len(ns) = Len(messages) /\ ns # <<>>
      /\ \A i \in 1 .. Len(messages) : ns[i] = IF IsFlagged(messages[i]) THEN Marked ELSE messages[i]
  BY Facts, ResetFacts
<1> HIDE DEF ns
<1>2. Len(messages) \in Nat \ {0} /\ Len(messages) <= MaxMessages /\ MaxRetries \in Nat
  BY Facts
<1>3. Conversation(ns)
  <2>1. ASSUME NEW i \in 1 .. Len(ns) - 1, IsPending(ns[i]) PROVE ns[i].flag
    <3>1. i \in 1 .. Len(messages) /\ i \in 1 .. Len(messages) - 1
      BY <1>1, <1>2
    <3>2. CASE IsFlagged(messages[i])
      BY <1>1, <3>1, <3>2, MarkedFacts
    <3>3. CASE ~IsFlagged(messages[i])
      BY <1>1, <2>1, <3>1, <3>3 DEF IInv, Conversation
    <3> QED BY <3>2, <3>3
  <2> QED BY <1>1, <1>2, <2>1 DEF Conversation
<1>4. IsPending(ns[Len(ns)])
  <2>1. Len(messages) \in 1 .. Len(messages)
    BY <1>2
  <2> QED BY <1>1, <2>1, MarkedFacts
<1>5. page'.editing # 0 => page'.editing \in 1 .. Len(ns)
  <2>1. page.editing # 0 => page.editing \in 1 .. Len(messages)
    BY DEF IInv, PageInv
  <2> QED BY <1>1, <2>1
<1>6. automatic' \in Nat /\ automatic' <= MaxRetries + 1 /\ automatic' <= count + 1
  BY <1>2 DEF IInv, CountInv
<1>7. messages' = ns /\ SendChat(ns, mode, count)
  BY DEF ns
<1> QED BY <1>1, <1>3, <1>4, <1>5, <1>6, <1>7, RequestSent

LEMMA RetryTimerStep ==
  ASSUME IInv, RetryTimer
  PROVE  IInv'
<1>1. /\ Ready /\ resend.timer /\ messages' = ResetPending(messages) /\ page' = [page EXCEPT !.saving = TRUE]
      /\ SendChat(ResetPending(messages), resend.mode, resend.count)
      /\ automatic' = automatic + 1 /\ UNCHANGED <<stored, enabled>>
  BY DEF RetryTimer, UpdateMessages
<1>2. page \in PageType /\ resend.mode \in BOOLEAN /\ resend.count \in -1 .. MaxRetries
  BY Facts DEF ResendType
<1>3. resend.mode /\ automatic <= resend.count /\ page.triggered /\ IsGenerating
  BY <1>1 DEF IInv, ResendInv, CountInv
<1>4. page.loaded /\ messages # <<>> /\ IsPending(messages[Len(messages)])
  BY <1>1, <1>3, WhenReady
<1>5. page' \in PageType /\ page'.loaded /\ page'.triggered /\ page'.editing = page.editing
  BY <1>1, <1>2, <1>3, <1>4 DEF PageType
<1> QED BY <1>1, <1>2, <1>3, <1>4, <1>5, ResendStep

LEMMA RecoverStep ==
  ASSUME IInv, Recover
  PROVE  IInv'
<1>1. /\ page.loaded /\ ~page.triggered /\ messages # <<>> /\ IsFlagged(messages[Len(messages)])
      /\ page' = [page EXCEPT !.triggered = TRUE, !.saving = TRUE] /\ UNCHANGED <<stored, enabled>>
  BY DEF Recover, RecoveryDue, HasPendingAutoResend, Last
<1>2. page \in PageType /\ page' \in PageType /\ page'.loaded /\ page'.triggered /\ page'.editing = page.editing
  BY <1>1, Facts DEF PageType
<1>3. CASE enabled
  <2>1. /\ messages' = ResetPending(messages) /\ SendChat(ResetPending(messages), TRUE, 0)
        /\ automatic' = automatic + 1
    BY <1>3 DEF Recover
  <2>2. automatic = 0
    BY <1>1 DEF IInv, CountInv
  <2>3. 0 \in -1 .. MaxRetries /\ automatic <= 0 /\ TRUE \in BOOLEAN
    BY <2>2, PlaygroundAssumption
  <2> QED BY <1>1, <1>2, <2>1, <2>3, ResendStep
<1>4. CASE ~enabled
  <2> DEFINE l == messages[Len(messages)]
             k == [Failed(l) EXCEPT !.flag = FALSE]
             ns == [messages EXCEPT ![Len(messages)] = k]
  <2>1. l \in Assistant
    BY <1>1, Facts, MessageFacts
  <2>2. messages' = ns /\ UNCHANGED <<stream, resend, automatic>>
    BY <1>1, <1>4, <2>1 DEF Recover, UpdateLast, Last, IsFlagged
  <2>3. k \in Assistant /\ ~IsPending(k)
    <3> HIDE DEF l
    <3> QED BY <2>1 DEF Failed, Assistant, IsPending
  <2> HIDE DEF k
  <2>4. Conversation(ns) /\ SameLength(ns) /\ ns # <<>> /\ ns[Len(ns)] = k
    BY <1>1, <2>1, <2>3, LastChanged
  <2> HIDE DEF ns
  <2>5. l.flag
    BY <1>1 DEF IsFlagged
  <2>6. ~IsGenerating
    BY <1>1, <2>5 DEF IInv, WaitInv
  <2>7. ~resend.mode /\ ~resend.timer
    BY <2>6 DEF IInv, ResendInv
  <2>8. Conversation(messages)' /\ Conversation(stored)' /\ enabled' \in BOOLEAN
    BY <1>1, <2>2, <2>4 DEF IInv, Conversation
  <2>9. PageInv'
    BY <1>2, <2>2, <2>4 DEF IInv, PageInv, PageType, SameLength
  <2>10. WaitInv'
    BY <2>2, <2>3, <2>4, <2>6 DEF WaitInv, IsGenerating
  <2>11. StreamInv'
    BY <2>2 DEF IInv, StreamInv
  <2>12. ResendInv'
    BY <2>2, <2>7 DEF IInv, ResendInv
  <2>13. CountInv'
    BY <1>2, <2>2, <2>7 DEF IInv, CountInv
  <2> QED BY <2>8, <2>9, <2>10, <2>11, <2>12, <2>13 DEF IInv
<1> QED BY <1>3, <1>4

\* A page whose editor moves to message e.
LEMMA EditorMoved ==
  ASSUME NEW p \in PageType, NEW e \in 0 .. MaxMessages
  PROVE  LET q == [p EXCEPT !.saving = TRUE, !.editing = e]
         IN q \in PageType /\ q.loaded = p.loaded /\ q.triggered = p.triggered /\ q.editing = e
BY DEF PageType

\* The first n messages stay, others follow, the last of which waits.
LEMMA SendStep ==
  ASSUME IInv, Ready, NEW ms, NEW n \in 0 .. Len(messages),
         ms \in Seq(Messages), n < Len(ms), Len(ms) <= MaxMessages, ms # <<>>, ms[Len(ms)] = Loading,
         \A i \in 1 .. n : ms[i] = messages[i],
         \A i \in 1 .. Len(ms) - 1 : IsPending(ms[i]) => ms[i].flag,
         messages' = ms, UNCHANGED <<stored, enabled, automatic>>,
         page' \in PageType, page'.loaded = page.loaded, page'.triggered = page.triggered,
         page'.editing # 0 => page'.editing = page.editing /\ page.editing <= n,
         SendChat(ms, resend.mode, resend.count)
  PROVE  IInv'
<1>1. Len(messages) \in Nat /\ MaxRetries \in Nat /\ Len(ms) \in Nat
  BY Facts, LenProperties
<1>2. Conversation(ms) /\ IsPending(ms[Len(ms)]) /\ ~ms[Len(ms)].flag
  BY LoadingFacts DEF Conversation
<1>3. page'.loaded
  BY DEF Ready
<1>4. page'.editing # 0 => page'.editing \in 1 .. Len(ms)
  <2>1. page.editing # 0 => page.editing \in 1 .. Len(messages)
    BY DEF IInv, PageInv
  <2>2. page'.editing # 0 => page.editing \in 1 .. n
    BY <1>1, <2>1
  <2>3. page'.editing # 0 => page.editing \in 1 .. Len(ms) /\ ms[page.editing] = messages[page.editing]
    BY <1>1, <2>2
  <2> QED BY <2>1, <2>3
<1>5. /\ resend.mode \in BOOLEAN /\ resend.count \in -1 .. MaxRetries
      /\ resend.mode => page'.triggered
  BY Facts DEF ResendType, IInv, ResendInv
<1>6. /\ automatic' \in Nat /\ automatic' <= MaxRetries + 1
      /\ resend.mode => automatic' <= resend.count + 1
      /\ ~page'.triggered => automatic' = 0
  BY DEF IInv, CountInv
<1> QED BY <1>2, <1>3, <1>4, <1>5, <1>6, RequestSent

LEMMA SendByUserStep ==
  ASSUME IInv, Ready, NEW ms, NEW n \in 0 .. Len(messages), SendByUser(ms, n),
         ms \in Seq(Messages), n < Len(ms), ms # <<>>, ms[Len(ms)] = Loading,
         \A i \in 1 .. n : ms[i] = messages[i],
         \A i \in 1 .. Len(ms) - 1 : IsPending(ms[i]) => ms[i].flag
  PROVE  IInv'
<1>1. /\ Len(ms) <= MaxMessages /\ messages' = ms /\ UNCHANGED <<stored, enabled, automatic>>
      /\ page' = [page EXCEPT !.saving = TRUE, !.editing = IF page.editing <= n THEN page.editing ELSE 0]
      /\ SendChat(ms, resend.mode, resend.count)
  BY DEF SendByUser
<1>2. page \in PageType /\ MaxMessages \in Nat
  BY Facts
<1>3. /\ page' \in PageType /\ page'.loaded = page.loaded /\ page'.triggered = page.triggered
      /\ page'.editing # 0 => page'.editing = page.editing /\ page.editing <= n
  <2> DEFINE e == IF page.editing <= n THEN page.editing ELSE 0
  <2>1. e \in 0 .. MaxMessages
    BY <1>2 DEF PageType
  <2>2. page' = [page EXCEPT !.saving = TRUE, !.editing = e]
    BY <1>1
  <2>3. e # 0 => e = page.editing /\ page.editing <= n
    OBVIOUS
  <2> HIDE DEF e
  <2> QED BY <1>2, <2>1, <2>2, <2>3, EditorMoved
<1> QED BY <1>1, <1>3, SendStep

LEMMA HandleSendStep ==
  ASSUME IInv, HandleSendMessage
  PROVE  IInv'
<1> DEFINE ms == messages \o <<User, Loading>>
           n == Len(messages)
<1>1. Ready /\ ~IsGenerating /\ SendByUser(ms, n)
  BY DEF HandleSendMessage
<1>2. n \in Nat /\ n \in 0 .. Len(messages) /\ messages \in Seq(Messages)
  BY Facts
<1>3. /\ ms \in Seq(Messages) /\ Len(ms) = n + 2 /\ ms # <<>>
      /\ \A i \in 1 .. n : ms[i] = messages[i]
      /\ ms[n + 1] = User /\ ms[n + 2] = Loading
  BY <1>2, Asked
<1> HIDE DEF ms
<1>4. ASSUME NEW i \in 1 .. Len(ms) - 1, IsPending(ms[i]) PROVE ms[i].flag
  <2>1. i \in 1 .. n \/ i = n + 1
    BY <1>2, <1>3
  <2>2. ~(i = n + 1)
    BY <1>3, <1>4, LoadingFacts
  <2>3. i \in 1 .. n
    BY <2>1, <2>2
  <2> QED BY <1>1, <1>3, <1>4, <2>3, WhenReady
<1>5. n < Len(ms) /\ ms[Len(ms)] = Loading
  BY <1>2, <1>3
<1> HIDE DEF n
<1> QED BY <1>1, <1>2, <1>3, <1>4, <1>5, SendByUserStep

LEMMA RegenerateStep ==
  ASSUME IInv, NEW k \in DOMAIN messages, HandleRegenerateMessage(k)
  PROVE  IInv'
<1> DEFINE n == IF IsAssistant(messages[k]) THEN k - 1 ELSE k
           ms == Append(SubSeq(messages, 1, n), Loading)
<1>1. Ready /\ ~IsGenerating /\ SendByUser(ms, n)
  BY DEF HandleRegenerateMessage
<1>2. n \in Nat /\ n \in 0 .. Len(messages) /\ messages \in Seq(Messages) /\ Len(messages) \in Nat
  BY Facts
<1> HIDE DEF n
<1>3. /\ ms \in Seq(Messages) /\ Len(ms) = n + 1 /\ ms # <<>>
      /\ \A i \in 1 .. n : ms[i] = messages[i]
      /\ ms[n + 1] = Loading
  BY <1>2, AskedAgain
<1> HIDE DEF ms
<1>4. ASSUME NEW i \in 1 .. Len(ms) - 1, IsPending(ms[i]) PROVE ms[i].flag
  <2>1. i \in 1 .. n /\ i \in 1 .. Len(messages)
    BY <1>2, <1>3
  <2> QED BY <1>1, <1>3, <1>4, <2>1, WhenReady
<1>5. n < Len(ms) /\ ms[Len(ms)] = Loading
  BY <1>2, <1>3
<1> QED BY <1>1, <1>2, <1>3, <1>4, <1>5, SendByUserStep

\* The edited message is a user's, so a message that waits without a mark is not
\* among those that stay.
LEMMA ApplyEditStep ==
  ASSUME IInv, ApplyEdit
  PROVE  IInv'
<1> DEFINE n == page.editing
           ms == Append(SubSeq(messages, 1, n), Loading)
<1>1. /\ Ready /\ n \in 1 .. Len(messages) /\ messages' = ms /\ Len(ms) <= MaxMessages
      /\ page' = [page EXCEPT !.saving = TRUE, !.editing = 0]
      /\ SendChat(ms, resend.mode, resend.count) /\ UNCHANGED <<stored, enabled, automatic>>
  BY DEF ApplyEdit
<1>2. /\ n \in Nat /\ n \in 0 .. Len(messages) /\ messages \in Seq(Messages) /\ Len(messages) \in Nat /\ n # 0
      /\ page \in PageType /\ MaxMessages \in Nat
  BY <1>1, Facts
<1>3. ~IsAssistant(messages[n])
  BY DEF ApplyEdit
<1>4. /\ page' \in PageType /\ page'.loaded = page.loaded /\ page'.triggered = page.triggered /\ page'.editing = 0
  <2>1. 0 \in 0 .. MaxMessages
    BY <1>2
  <2> QED BY <1>1, <1>2, <2>1, EditorMoved
<1> HIDE DEF n
<1>5. /\ ms \in Seq(Messages) /\ Len(ms) = n + 1 /\ ms # <<>>
      /\ \A i \in 1 .. n : ms[i] = messages[i]
      /\ ms[n + 1] = Loading
  BY <1>2, AskedAgain
<1> HIDE DEF ms
<1>6. ASSUME NEW i \in 1 .. Len(ms) - 1, IsPending(ms[i]) PROVE ms[i].flag
  <2>1. i \in 1 .. n /\ ms[i] = messages[i]
    BY <1>2, <1>5
  <2>2. i # n
    BY <1>3, <1>6, <2>1 DEF IsPending
  <2>3. i \in 1 .. Len(messages) - 1
    BY <1>2, <2>1, <2>2
  <2> QED BY <1>6, <2>1, <2>3 DEF IInv, Conversation
<1>7. n < Len(ms) /\ ms[Len(ms)] = Loading
  BY <1>2, <1>5
<1> QED BY <1>1, <1>2, <1>4, <1>5, <1>6, <1>7, SendStep

LEMMA DeleteStep ==
  ASSUME IInv, NEW k \in DOMAIN messages, HandleDeleteMessage(k)
  PROVE  IInv'
<1> DEFINE ns == RemoveAt(messages, k)
           e == page.editing
<1>1. /\ Ready /\ ~IsGenerating /\ messages' = ns /\ UNCHANGED <<stored, enabled, stream, resend, automatic>>
      /\ page' = [page EXCEPT !.saving = TRUE, !.editing = IF e = k THEN 0 ELSE IF e > k THEN e - 1 ELSE e]
  BY DEF HandleDeleteMessage
<1>2. /\ k \in 1 .. Len(messages) /\ messages \in Seq(Messages) /\ Len(messages) <= MaxMessages
      /\ page \in PageType /\ MaxMessages \in Nat
  BY Facts
<1>3. /\ ns \in Seq(Messages) /\ Len(ns) = Len(messages) - 1 /\ Len(messages) \in Nat \ {0}
      /\ \A i \in 1 .. Len(messages) - 1 : ns[i] = IF i < k THEN messages[i] ELSE messages[i + 1]
  BY <1>2, Deleted
<1> HIDE DEF ns
<1>4. \A i \in 1 .. Len(ns) : \E j \in 1 .. Len(messages) : ns[i] = messages[j]
  <2>1. \A i \in 1 .. Len(ns) : i \in 1 .. Len(messages) - 1 /\ i \in 1 .. Len(messages) /\ i + 1 \in 1 .. Len(messages)
    BY <1>3
  <2> QED BY <1>3, <2>1
<1>5. \A i \in 1 .. Len(ns) : IsPending(ns[i]) => ns[i].flag
  BY <1>1, <1>4, WhenReady
<1>6. Conversation(ns)
  <2>1. Len(ns) <= MaxMessages
    BY <1>2, <1>3
  <2>2. \A i \in 1 .. Len(ns) - 1 : i \in 1 .. Len(ns)
    BY <1>3
  <2> QED BY <1>3, <1>5, <2>1, <2>2 DEF Conversation
<1>7. e \in Nat /\ k \in Nat /\ (e # 0 => e \in 1 .. Len(messages))
  BY <1>2 DEF IInv, PageInv, PageType
<1>8. /\ page' \in PageType /\ page'.loaded = page.loaded /\ page'.triggered = page.triggered
      /\ page'.editing = IF e = k THEN 0 ELSE IF e > k THEN e - 1 ELSE e
  <2>1. e \in 0 .. MaxMessages
    BY <1>2 DEF PageType
  <2> DEFINE f == IF e = k THEN 0 ELSE IF e > k THEN e - 1 ELSE e
  <2>2. f \in 0 .. MaxMessages
    BY <1>2, <1>7, <2>1
  <2>3. page' = [page EXCEPT !.saving = TRUE, !.editing = f]
    BY <1>1
  <2> HIDE DEF f, e
  <2>4. page' \in PageType /\ page'.loaded = page.loaded /\ page'.triggered = page.triggered /\ page'.editing = f
    BY <1>2, <2>2, <2>3 DEF PageType
  <2> QED BY <2>4 DEF f
<1> HIDE DEF e
<1>9. page'.editing # 0 => page'.editing \in 1 .. Len(ns)
  BY <1>2, <1>3, <1>7, <1>8
<1>10. Conversation(messages)' /\ Conversation(stored)' /\ enabled' \in BOOLEAN
  BY <1>1, <1>6 DEF IInv, Conversation
<1>11. PageInv'
  <2>1. page'.loaded
    BY <1>1, <1>8 DEF Ready
  <2> QED BY <1>1, <1>8, <1>9, <2>1 DEF PageInv, PageType
<1>12. ~resend.mode /\ ~resend.timer
  BY <1>1, WhenReady
<1>13. WaitInv'
  <2>1. ns # <<>> => Len(ns) \in 1 .. Len(ns)
    BY <1>3, EmptySeq
  <2> QED BY <1>1, <1>5, <2>1 DEF WaitInv, IsGenerating
<1>14. StreamInv' /\ ResendInv' /\ CountInv'
  BY <1>1, <1>8, <1>12 DEF IInv, StreamInv, ResendInv, CountInv
<1> QED BY <1>10, <1>11, <1>13, <1>14 DEF IInv

LEMMA ClearStep ==
  ASSUME IInv, HandleClearMessages
  PROVE  IInv'
<1>1. /\ Ready /\ ~IsGenerating /\ messages' = <<>> /\ UNCHANGED <<stored, enabled, stream, resend, automatic>>
      /\ page' = [page EXCEPT !.saving = TRUE, !.editing = 0]
  BY DEF HandleClearMessages
<1>2. page \in PageType /\ MaxMessages \in Nat
  BY Facts
<1>3. page' \in PageType /\ page'.loaded = page.loaded /\ page'.triggered = page.triggered /\ page'.editing = 0
  <2>1. 0 \in 0 .. MaxMessages
    BY <1>2
  <2> QED BY <1>1, <1>2, <2>1, EditorMoved
<1>4. Conversation(messages)' /\ Conversation(stored)' /\ enabled' \in BOOLEAN
  BY <1>1, <1>2, EmptySeq DEF IInv, Conversation
<1>5. PageInv' /\ WaitInv'
  BY <1>1, <1>3 DEF PageInv, PageType, WaitInv, IsGenerating, Ready
<1>6. ~resend.mode /\ ~resend.timer
  BY <1>1, WhenReady
<1>7. StreamInv' /\ ResendInv' /\ CountInv'
  BY <1>1, <1>3, <1>6 DEF IInv, StreamInv, ResendInv, CountInv
<1> QED BY <1>4, <1>5, <1>7 DEF IInv
-----------------------------------------------------------------------------
(* Steps that leave the conversation alone. *)

LEMMA ChunkStep ==
  ASSUME IInv, Chunk \/ EndsQuietly
  PROVE  IInv'
<1>1. /\ Ready /\ stream.open /\ UNCHANGED <<messages, stored, page, enabled, resend, automatic>>
      /\ stream' = [stream EXCEPT !.buffer = TRUE] \/ stream' = [stream EXCEPT !.quiet = TRUE]
  BY DEF Chunk, EndsQuietly
<1>2. page.loaded /\ page \in PageType /\ stream \in StreamType
  BY <1>1, Facts DEF Ready
<1>3. stream' \in StreamType /\ stream'.open = stream.open /\ stream'.requesting = stream.requesting
  BY <1>1, <1>2 DEF StreamType
<1>4. page.editing # 0 => page.editing \in 1 .. Len(messages)
  BY DEF IInv, PageInv
<1>5. enabled \in BOOLEAN
  BY DEF IInv
<1> QED BY <1>1, <1>2, <1>3, <1>4, <1>5, SameMessages

LEMMA SaveTimerStep ==
  ASSUME IInv, SaveTimer
  PROVE  IInv'
<1>1. /\ Ready /\ UNCHANGED <<messages, enabled, stream, resend, automatic>>
      /\ stored' = messages /\ page' = [page EXCEPT !.saving = FALSE]
  BY DEF SaveTimer
<1>2. page.loaded /\ page \in PageType /\ stream \in StreamType
  BY <1>1, Facts DEF Ready
<1>3. page' \in PageType /\ page'.loaded = page.loaded /\ page'.triggered = page.triggered /\ page'.editing = page.editing
  BY <1>1, <1>2 DEF PageType
<1>4. page.editing # 0 => page.editing \in 1 .. Len(messages)
  BY DEF IInv, PageInv
<1>5. enabled \in BOOLEAN /\ (stream.buffer => stream.open)
  BY DEF IInv, StreamInv
<1> QED BY <1>1, <1>2, <1>3, <1>4, <1>5, SameMessages

LEMMA EditorStep ==
  ASSUME IInv, CloseEditor \/ \E k \in DOMAIN messages : HandleEditMessage(k)
  PROVE  IInv'
<1>1. page \in PageType /\ stream \in StreamType /\ DOMAIN messages = 1 .. Len(messages)
      /\ Len(messages) \in Nat /\ Len(messages) <= MaxMessages /\ MaxMessages \in Nat
  BY Facts
<1>2. enabled \in BOOLEAN /\ (stream.buffer => stream.open)
  BY DEF IInv, StreamInv
<1>3. PICK e \in 0 .. MaxMessages, s \in BOOLEAN :
        /\ page' = [page EXCEPT !.editing = e, !.saving = s]
        /\ e # 0 => e \in 1 .. Len(messages)
  <2>1. CASE CloseEditor
    <3>1. page' = [page EXCEPT !.editing = 0]
      BY <2>1 DEF CloseEditor
    <3>2. page.saving \in BOOLEAN /\ page' = [page EXCEPT !.editing = 0, !.saving = page.saving]
      BY <1>1, <3>1 DEF PageType
    <3>3. 0 \in 0 .. MaxMessages
      BY <1>1
    <3> QED BY <3>2, <3>3
  <2>2. CASE \E k \in DOMAIN messages : HandleEditMessage(k)
    <3>1. PICK k \in 1 .. Len(messages) : page' = [page EXCEPT !.editing = k]
      BY <1>1, <2>2 DEF HandleEditMessage
    <3>2. k \in 0 .. MaxMessages
      BY <1>1
    <3>3. page.saving \in BOOLEAN /\ page' = [page EXCEPT !.editing = k, !.saving = page.saving]
      BY <1>1, <3>1 DEF PageType
    <3> QED BY <3>1, <3>2, <3>3
  <2> QED BY <2>1, <2>2
<1>4. page' \in PageType /\ page'.loaded = page.loaded /\ page'.triggered = page.triggered /\ page'.editing = e
  BY <1>1, <1>3 DEF PageType
<1>5. Ready /\ UNCHANGED <<messages, stored, enabled, stream, resend, automatic>>
  BY DEF CloseEditor, HandleEditMessage
<1>6. page.loaded
  BY <1>5 DEF Ready
<1> QED BY <1>1, <1>2, <1>3, <1>4, <1>5, <1>6, SameMessages

\* The text of a message is saved: it waits, and is marked, as before.
LEMMA SaveEditStep ==
  ASSUME IInv, SaveEdit
  PROVE  IInv'
<1> DEFINE e == page.editing
           m == [messages[e] EXCEPT !.content = TRUE]
           ns == IF IsAssistant(messages[e]) THEN [messages EXCEPT ![e] = m] ELSE messages
<1>1. /\ Ready /\ e \in 1 .. Len(messages) /\ messages' = ns
      /\ page' = [page EXCEPT !.saving = TRUE, !.editing = 0]
      /\ UNCHANGED <<stored, enabled, stream, resend, automatic>>
  BY DEF SaveEdit
<1>2. /\ messages \in Seq(Messages) /\ Len(messages) \in Nat /\ DOMAIN messages = 1 .. Len(messages)
      /\ page \in PageType /\ page.loaded /\ MaxMessages \in Nat
  BY <1>1, Facts DEF Ready
<1>3. /\ page' \in PageType /\ page'.loaded = page.loaded /\ page'.triggered = page.triggered /\ page'.editing = 0
  <2>1. 0 \in 0 .. MaxMessages
    BY <1>2
  <2> QED BY <1>1, <1>2, <2>1, EditorMoved
<1> HIDE DEF e
<1>4. ASSUME IsAssistant(messages[e])
      PROVE  /\ m \in Assistant /\ m \in Messages /\ m.flag = messages[e].flag
             /\ IsPending(m) <=> IsPending(messages[e])
             /\ IsFlagged(m) <=> IsFlagged(messages[e])
  <2>1. messages[e] \in Assistant
    BY <1>1, <1>2, <1>4, MessageFacts
  <2> QED BY <2>1 DEF Assistant, Messages, IsPending, IsFlagged, IsAssistant
<1> HIDE DEF m
<1>5. /\ ns \in Seq(Messages) /\ Len(ns) = Len(messages) /\ DOMAIN ns = DOMAIN messages
      /\ \A i \in 1 .. Len(messages) :
           /\ IsPending(ns[i]) <=> IsPending(messages[i])
           /\ IsFlagged(ns[i]) <=> IsFlagged(messages[i])
           /\ IsPending(ns[i]) => ns[i].flag = messages[i].flag
  <2>1. CASE IsAssistant(messages[e])
    <3>1. ns = [messages EXCEPT ![e] = m]
      BY <2>1
    <3>2. ns \in Seq(Messages) /\ Len(ns) = Len(messages) /\ DOMAIN ns = DOMAIN messages
      BY <1>1, <1>2, <1>4, <2>1, <3>1
    <3>3. \A i \in 1 .. Len(messages) : ns[i] = IF i = e THEN m ELSE messages[i]
      BY <1>2, <3>1
    <3> HIDE DEF ns
    <3> QED BY <1>4, <2>1, <3>2, <3>3
  <2>2. CASE ~IsAssistant(messages[e])
    BY <1>2, <2>2
  <2> QED BY <2>1, <2>2
<1> HIDE DEF ns
<1>6. Conversation(messages)' /\ Conversation(stored)' /\ enabled' \in BOOLEAN
  <2>1. Conversation(messages) /\ Conversation(stored) /\ enabled \in BOOLEAN
    BY DEF IInv
  <2>2. \A i \in 1 .. Len(ns) - 1 : i \in 1 .. Len(messages) - 1 /\ i \in 1 .. Len(messages)
    BY <1>2, <1>5
  <2>3. Conversation(ns)
    BY <1>5, <2>1, <2>2 DEF Conversation
  <2>4. messages' = ns /\ stored' = stored /\ enabled' = enabled
    BY <1>1
  <2> QED BY <2>1, <2>3, <2>4 DEF Conversation
<1>7. PageInv'
  BY <1>2, <1>3 DEF PageInv, PageType
<1>8. WaitInv'
  <2>1. ns # <<>> /\ messages # <<>> /\ Len(messages) \in 1 .. Len(messages)
    BY <1>1, <1>2, <1>5, EmptySeq
  <2> QED BY <1>1, <1>2, <1>3, <1>5, <2>1 DEF IInv, WaitInv, IsGenerating
<1>9. StreamInv' /\ CountInv'
  BY <1>1, <1>3 DEF IInv, StreamInv, CountInv
<1>10. ResendInv'
  BY <1>1, <1>2, <1>3, <1>5 DEF IInv, ResendInv, IsGenerating
<1> QED BY <1>6, <1>7, <1>8, <1>9, <1>10 DEF IInv

LEMMA ToggleStep ==
  ASSUME IInv, ToggleAutoResend
  PROVE  IInv'
<1>1. Ready /\ enabled' = ~enabled /\ UNCHANGED <<messages, stored, page, stream, resend, automatic>>
  BY DEF ToggleAutoResend
<1>2. page.loaded /\ page \in PageType /\ stream \in StreamType
  BY <1>1, Facts DEF Ready
<1>3. page.editing # 0 => page.editing \in 1 .. Len(messages)
  BY DEF IInv, PageInv
<1>4. enabled' \in BOOLEAN /\ (stream.buffer => stream.open)
  BY <1>1 DEF IInv, StreamInv
<1> QED BY <1>1, <1>2, <1>3, <1>4, SameMessages

-----------------------------------------------------------------------------
(* Reload and load. *)

LEMMA FreshFacts ==
  /\ FreshPage \in PageType /\ ~FreshPage.loaded /\ ~FreshPage.triggered /\ FreshPage.editing = 0
  /\ FreshStream \in StreamType /\ ~FreshStream.open /\ ~FreshStream.requesting /\ ~FreshStream.buffer
  /\ NoResend \in ResendType /\ ~NoResend.mode /\ ~NoResend.timer
<1>1. 0 \in 0 .. MaxMessages /\ -1 \in -1 .. MaxRetries
  BY PlaygroundAssumption
<1>2. FreshPage \in PageType /\ ~FreshPage.loaded /\ ~FreshPage.triggered /\ FreshPage.editing = 0
  BY <1>1 DEF FreshPage, PageType
<1>3. FreshStream \in StreamType /\ ~FreshStream.open /\ ~FreshStream.requesting /\ ~FreshStream.buffer
  BY DEF FreshStream, StreamType
<1>4. NoResend \in ResendType /\ ~NoResend.mode /\ ~NoResend.timer
  BY <1>1 DEF NoResend, ResendType
<1> QED BY <1>2, <1>3, <1>4

LEMMA EmptyConversation ==
  Conversation(<<>>)
<1>1. <<>> \in Seq(Messages) /\ Len(<<>>) = 0
  BY EmptySeq
<1> QED BY <1>1, PlaygroundAssumption DEF Conversation

\* A page that was just mounted satisfies the invariant.
LEMMA Mounted ==
  ASSUME messages = <<>>, Conversation(stored), enabled \in BOOLEAN,
         page = FreshPage, stream = FreshStream, resend = NoResend, automatic = 0
  PROVE  IInv
<1>1. Conversation(messages)
  BY EmptyConversation
<1>2. PageInv
  BY FreshFacts DEF PageInv, PageType
<1>3. WaitInv
  BY FreshFacts DEF WaitInv, IsGenerating
<1>4. StreamInv
  BY FreshFacts DEF StreamInv, StreamType
<1>5. ResendInv
  BY FreshFacts DEF ResendInv, ResendType
<1>6. CountInv
  BY FreshFacts, PlaygroundAssumption DEF CountInv
<1> QED BY <1>1, <1>2, <1>3, <1>4, <1>5, <1>6 DEF IInv

LEMMA MountedAgain ==
  ASSUME messages' = <<>>, Conversation(stored'), enabled' \in BOOLEAN,
         page' = FreshPage, stream' = FreshStream, resend' = NoResend, automatic' = 0
  PROVE  IInv'
<1>1. Conversation(messages')
  BY EmptyConversation
<1>2. PageInv'
  BY FreshFacts DEF PageInv, PageType
<1>3. WaitInv'
  BY FreshFacts DEF WaitInv, IsGenerating
<1>4. StreamInv'
  BY FreshFacts DEF StreamInv, StreamType
<1>5. ResendInv'
  BY FreshFacts DEF ResendInv, ResendType
<1>6. CountInv'
  BY FreshFacts, PlaygroundAssumption DEF CountInv
<1>7. Conversation(messages)' /\ Conversation(stored)'
  BY <1>1 DEF Conversation
<1> QED BY <1>2, <1>3, <1>4, <1>5, <1>6, <1>7 DEF IInv

LEMMA ReloadStep ==
  ASSUME IInv, Reload
  PROVE  IInv'
<1>1. Conversation(stored') /\ enabled' \in BOOLEAN
  BY DEF Reload, IInv
<1> QED BY <1>1, MountedAgain DEF Reload

\* The last of some indices.
LEMMA MaxIndex ==
  ASSUME NEW n \in Nat, NEW S \in SUBSET (1 .. n), S # {}
  PROVE  Max(S) \in S /\ \A i \in S : i <= Max(S)
<1> DEFINE T == {n - i : i \in S}
<1>1. T \in SUBSET Nat /\ T # {}
  <2>1. \A i \in S : n - i \in Nat
    OBVIOUS
  <2>2. PICK i \in S : TRUE
    OBVIOUS
  <2>3. n - i \in T
    BY <2>2
  <2> QED BY <2>1, <2>3
<1>2. \E x \in T : \A y \in T : ~ (<<y, x>> \in OpToRel(<, Nat))
  <2> HIDE DEF T
  <2> QED BY <1>1, NatLessThanWellFounded, WFMin
<1>3. \A x, y \in Nat : <<y, x>> \in OpToRel(<, Nat) <=> y < x
  BY DEF OpToRel
<1>4. PICK x \in T : \A y \in T : ~ (<<y, x>> \in OpToRel(<, Nat))
  BY <1>2
<1>5. PICK k \in S : x = n - k
  BY <1>4
<1>6. ASSUME NEW i \in S PROVE k >= i
  <2>1. n - i \in T /\ n - i \in Nat /\ x \in Nat
    BY <1>1, <1>4
  <2>2. ~ (n - i < n - k)
    BY <1>3, <1>4, <1>5, <2>1
  <2> QED BY <2>2
<1>7. \E m \in S : \A i \in S : m >= i
  BY <1>6
<1>8. Max(S) \in S /\ \A i \in S : Max(S) >= i
  BY <1>7 DEF Max
<1> HIDE DEF T
<1> QED BY <1>8

\* normalizeStoredMessageForLoad leaves no wait that it changed.
LEMMA NormalizedFacts ==
  ASSUME NEW m \in Messages
  PROVE  Normalized(m) \in Messages /\ (IsPending(Normalized(m)) => Normalized(m) = m)
<1>1. CASE IsPending(m) /\ m.content
  <2>1. m \in Assistant
    BY <1>1, MessageFacts
  <2>2. Normalized(m) = [m EXCEPT !.status = "complete"]
    BY <1>1 DEF Normalized
  <2>3. [m EXCEPT !.status = "complete"] \in Assistant /\ [m EXCEPT !.status = "complete"].status = "complete"
    BY <2>1 DEF Assistant
  <2> QED BY <2>2, <2>3 DEF Messages, IsPending
<1>2. CASE ~(IsPending(m) /\ m.content)
  BY <1>2 DEF Normalized
<1> QED BY <1>1, <1>2

\* What loadMessages makes of a stored conversation: every message that waits
\* is marked.
LEMMA LoadedFacts ==
  ASSUME NEW ms, Conversation(ms)
  PROVE  LET ns == Sanitized([i \in DOMAIN ms |-> Normalized(ms[i])])
         IN /\ ns \in Seq(Messages) /\ Len(ns) = Len(ms)
            /\ \A i \in 1 .. Len(ns) : IsPending(ns[i]) => ns[i].flag
<1> DEFINE os == [i \in DOMAIN ms |-> Normalized(ms[i])]
           ns == Sanitized(os)
           pending == {i \in DOMAIN os : IsPending(os[i])}
<1>1. ms \in Seq(Messages) /\ Len(ms) \in Nat /\ DOMAIN ms = 1 .. Len(ms) /\ \A i \in 1 .. Len(ms) : ms[i] \in Messages
  <2>1. ms \in Seq(Messages)
    BY DEF Conversation
  <2> QED BY <2>1, LenProperties, ElementOfSeq
<1>2. os \in [1 .. Len(ms) -> Messages]
  BY <1>1, NormalizedFacts
<1>3. \A i \in 1 .. Len(ms) : IsPending(os[i]) => os[i] = ms[i]
  BY <1>1, NormalizedFacts
<1> HIDE DEF os
<1>4. os \in Seq(Messages) /\ Len(os) = Len(ms) /\ DOMAIN os = 1 .. Len(ms)
  BY <1>1, <1>2, FunctionIsSeq
<1>5. ASSUME NEW i \in 1 .. Len(ms) - 1, IsPending(os[i]) PROVE os[i].flag
  <2>1. i \in 1 .. Len(ms)
    BY <1>1
  <2> QED BY <1>3, <1>5, <2>1 DEF Conversation
<1>6. CASE pending = {}
  <2>1. ns = os
    BY <1>6 DEF Sanitized
  <2> QED BY <1>4, <1>6, <2>1 DEF os
<1>7. CASE pending # {}
  <2> DEFINE k == Max(pending)
             m == [os[k] EXCEPT !.status = "loading", !.flag = TRUE]
  <2>1. k \in pending /\ \A i \in pending : i <= k
    <3>1. pending \in SUBSET (1 .. Len(ms))
      BY <1>4
    <3> HIDE DEF pending
    <3> QED BY <1>1, <1>7, <3>1, MaxIndex
  <2>2. ns = [os EXCEPT ![k] = m]
    BY <1>7 DEF Sanitized
  <2> HIDE DEF k
  <2>3. k \in 1 .. Len(ms) /\ os[k] \in Messages /\ IsPending(os[k])
    BY <1>2, <1>4, <2>1
  <2>4. m \in Assistant /\ m.flag
    <3>1. os[k] \in Assistant
      BY <2>3, MessageFacts
    <3> QED BY <3>1 DEF Assistant
  <2> HIDE DEF m
  <2>5. /\ ns \in Seq(Messages) /\ Len(ns) = Len(ms)
        /\ \A j \in 1 .. Len(ms) : ns[j] = IF j = k THEN m ELSE os[j]
    <3>1. m \in Messages
      BY <2>4 DEF Messages
    <3> QED BY <1>4, <2>2, <2>3, <3>1, ExceptSeq
  <2> HIDE DEF ns
  <2>6. ASSUME NEW i \in 1 .. Len(ns), IsPending(ns[i]) PROVE ns[i].flag
    <3>1. CASE i = k
      BY <2>4, <2>5, <3>1
    <3>2. CASE i # k
      <4>1. i \in 1 .. Len(ms) /\ ns[i] = os[i] /\ IsPending(os[i])
        BY <2>5, <2>6, <3>2
      <4>2. i \in pending
        BY <1>4, <4>1
      <4>3. i \in 1 .. Len(ms) - 1
        BY <1>1, <2>1, <2>3, <3>2, <4>1, <4>2
      <4> QED BY <1>5, <4>1, <4>3
    <3> QED BY <3>1, <3>2
  <2> QED BY <2>5, <2>6 DEF ns, os
<1> QED BY <1>6, <1>7

LEMMA LoadMessagesStep ==
  ASSUME IInv, LoadMessages
  PROVE  IInv'
<1> DEFINE ns == Sanitized([i \in DOMAIN stored |-> Normalized(stored[i])])
<1>1. /\ ~page.loaded /\ messages' = ns /\ stored' = ns /\ page' = [page EXCEPT !.loaded = TRUE]
      /\ UNCHANGED <<enabled, stream, resend, automatic>>
  BY DEF LoadMessages
<1>2. /\ ns \in Seq(Messages) /\ Len(ns) = Len(stored)
      /\ \A i \in 1 .. Len(ns) : IsPending(ns[i]) => ns[i].flag
  BY LoadedFacts DEF IInv
<1> HIDE DEF ns
<1>3. Len(ns) \in Nat /\ (ns # <<>> => Len(ns) \in 1 .. Len(ns)) /\ \A i \in 1 .. Len(ns) - 1 : i \in 1 .. Len(ns)
  <2>1. Len(ns) \in Nat /\ (ns # <<>> => Len(ns) # 0)
    BY <1>2, EmptySeq
  <2> QED BY <2>1
<1>4. Conversation(ns)
  BY <1>2, <1>3 DEF IInv, Conversation
<1>5. page = FreshPage
  BY <1>1 DEF IInv, PageInv
<1>6. page' \in PageType /\ page'.loaded /\ ~page'.triggered /\ page'.editing = 0
  BY <1>1, <1>5, FreshFacts DEF PageType
<1>7. ~IsGenerating /\ ~resend.mode /\ ~resend.timer
  BY <1>1 DEF IInv, WaitInv, ResendInv
<1>8. Conversation(messages)' /\ Conversation(stored)' /\ enabled' \in BOOLEAN
  BY <1>1, <1>4 DEF IInv, Conversation
<1>9. PageInv'
  BY <1>6 DEF PageInv, PageType
<1>10. WaitInv'
  BY <1>1, <1>2, <1>3, <1>7 DEF WaitInv, IsGenerating
<1>11. StreamInv' /\ ResendInv'
  BY <1>1, <1>7 DEF IInv, StreamInv, ResendInv
<1>12. CountInv'
  <2>1. automatic = 0
    BY <1>5, FreshFacts DEF IInv, CountInv
  <2> QED BY <1>1, <1>7, <2>1, PlaygroundAssumption DEF CountInv
<1> QED BY <1>8, <1>9, <1>10, <1>11, <1>12 DEF IInv
-----------------------------------------------------------------------------
(* The invariant and what follows from it. *)

LEMMA EarlierFacts ==
  ASSUME NEW ms \in Earlier, Len(ms) <= MaxMessages
  PROVE  Conversation(ms)
<1>1. User \in Messages /\ Abandoned \in Messages /\ Reset \in Messages
  BY DEF Messages, Assistant, User, Abandoned, Reset
<1>2. ~IsPending(User) /\ ~IsPending(Abandoned) /\ Reset.flag
  BY DEF User, Abandoned, Reset, IsPending, IsAssistant
<1>3. CASE ms = <<>>
  BY <1>3, EmptyConversation
<1>4. CASE ms = <<User, Abandoned, User>>
  <2>1. /\ ms \in Seq(Messages) /\ Len(ms) = 3 /\ ms[1] = User /\ ms[2] = Abandoned
    BY <1>1, <1>4
  <2>2. \A i \in 1 .. Len(ms) - 1 : i = 1 \/ i = 2
    BY <2>1
  <2> QED BY <1>2, <2>1, <2>2 DEF Conversation
<1>5. CASE ms = <<User, Reset, User, Abandoned, User>>
  <2>1. /\ ms \in Seq(Messages) /\ Len(ms) = 5
        /\ ms[1] = User /\ ms[2] = Reset /\ ms[3] = User /\ ms[4] = Abandoned
    BY <1>1, <1>5
  <2>2. \A i \in 1 .. Len(ms) - 1 : i = 1 \/ i = 2 \/ i = 3 \/ i = 4
    BY <2>1
  <2> QED BY <1>2, <2>1, <2>2 DEF Conversation
<1>6. CASE ms = <<Reset, User, Abandoned, User>>
  <2>1. /\ ms \in Seq(Messages) /\ Len(ms) = 4
        /\ ms[1] = Reset /\ ms[2] = User /\ ms[3] = Abandoned
    BY <1>1, <1>6
  <2>2. \A i \in 1 .. Len(ms) - 1 : i = 1 \/ i = 2 \/ i = 3
    BY <2>1
  <2> QED BY <1>2, <2>1, <2>2 DEF Conversation
<1> QED BY <1>3, <1>4, <1>5, <1>6 DEF Earlier

LEMMA InvInit ==
  Init => IInv
<1> SUFFICES ASSUME Init PROVE IInv
  OBVIOUS
<1>1. Conversation(stored)
  BY EarlierFacts DEF Init
<1> QED BY <1>1, Mounted DEF Init

LEMMA InvNext ==
  IInv /\ [Next]_vars => IInv'
<1> SUFFICES ASSUME IInv, [Next]_vars PROVE IInv'
  OBVIOUS
<1>1. CASE Chunk \/ EndsQuietly
  BY <1>1, ChunkStep
<1>2. CASE FlushTimer
  BY <1>2, FlushTimerStep
<1>3. CASE Done
  BY <1>3, DoneStep
<1>4. CASE Error
  BY <1>4, ErrorStep
<1>5. CASE RetryTimer
  BY <1>5, RetryTimerStep
<1>6. CASE SaveTimer
  BY <1>6, SaveTimerStep
<1>7. CASE LoadMessages
  BY <1>7, LoadMessagesStep
<1>8. CASE Recover
  BY <1>8, RecoverStep
<1>9. CASE HandleSendMessage
  BY <1>9, HandleSendStep
<1>10. CASE ApplyEdit
  BY <1>10, ApplyEditStep
<1>11. CASE HandleClearMessages
  BY <1>11, ClearStep
<1>12. CASE StopGeneration
  BY <1>12, StopStep
<1>13. CASE CloseEditor \/ \E k \in DOMAIN messages : HandleEditMessage(k)
  BY <1>13, EditorStep
<1>14. CASE ToggleAutoResend
  BY <1>14, ToggleStep
<1>15. CASE Reload
  BY <1>15, ReloadStep
<1>16. ASSUME NEW k \in DOMAIN messages, HandleRegenerateMessage(k) PROVE IInv'
  BY <1>16, RegenerateStep
<1>17. ASSUME NEW k \in DOMAIN messages, HandleDeleteMessage(k) PROVE IInv'
  BY <1>17, DeleteStep
<1>18. CASE SaveEdit
  BY <1>18, SaveEditStep
<1>19. CASE UNCHANGED vars
  BY <1>19 DEF vars, IInv, Conversation, PageInv, WaitInv, StreamInv, ResendInv, CountInv, IsGenerating
<1> QED
  BY <1>1, <1>2, <1>3, <1>4, <1>5, <1>6, <1>7, <1>8, <1>9, <1>10, <1>11, <1>12, <1>13, <1>14, <1>15,
     <1>16, <1>17, <1>18, <1>19 DEF Next, ByItself, ByUser

LEMMA Invariant ==
  Spec => []IInv
BY InvInit, InvNext, PTL DEF Spec

\* The conversation, the refs of the hooks and the browser's stored copy keep
\* their types, and neither conversation outgrows its bound.
THEOREM TypeCorrect ==
  Spec => []TypeOK
<1>1. IInv => TypeOK
  <2> SUFFICES ASSUME IInv PROVE TypeOK
    OBVIOUS
  <2>1. /\ messages \in Seq(Assistant \cup {User}) /\ Len(messages) <= MaxMessages
        /\ stored \in Seq(Assistant \cup {User}) /\ Len(stored) <= MaxMessages
    BY DEF IInv, Conversation, Messages
  <2> QED BY <2>1 DEF IInv, PageInv, StreamInv, ResendInv, CountInv, TypeOK
<1> QED BY <1>1, Invariant, PTL

\* handleStreamError's timer never outlives what it is for: while it runs the
\* page resends automatically, a message is marked for it and the last one waits.
THEOREM ScheduledRetryHasTarget ==
  Spec => []RetryHasTarget
<1>1. IInv => RetryHasTarget
  <2> SUFFICES ASSUME IInv, resend.timer
               PROVE  /\ resend.mode /\ stream.requesting
                      /\ \E i \in DOMAIN messages : IsFlagged(messages[i])
                      /\ messages # <<>> /\ IsPending(Last(messages))
    BY DEF RetryHasTarget
  <2>1. resend.mode /\ stream.requesting /\ IsGenerating /\ \E i \in DOMAIN messages : IsFlagged(messages[i])
    BY DEF IInv, ResendInv
  <2>2. messages # <<>> /\ IsPending(messages[Len(messages)])
    BY <2>1 DEF IInv, WaitInv
  <2> QED BY <2>1, <2>2 DEF Last
<1> QED BY <1>1, Invariant, PTL

\* Whatever the user, the stream and reloads do, a message that shows a spinner
\* has a request or a recovery behind it, save for one that an earlier session
\* gave up.
THEOREM NoIdleSpinner ==
  Spec => []SpinnerIsServed
<1>1. IInv => SpinnerIsServed
  <2> SUFFICES ASSUME IInv, page.loaded, messages # <<>>, IsPending(Last(messages)), ~IsGenerating, ~RecoveryDue
               PROVE  Last(messages).flag /\ page.triggered /\ ~resend.mode
    BY DEF SpinnerIsServed
  <2>1. Last(messages) = messages[Len(messages)]
    BY DEF Last
  <2>2. Last(messages).flag
    BY <2>1 DEF IInv, WaitInv
  <2>3. IsFlagged(Last(messages))
    BY <2>2 DEF IsFlagged, IsPending
  <2>4. page.triggered
    BY <2>3 DEF RecoveryDue, HasPendingAutoResend
  <2>5. ~resend.mode
    BY DEF IInv, ResendInv
  <2> QED BY <2>2, <2>4, <2>5
<1> QED BY <1>1, Invariant, PTL

\* decideAutoResend bounds what the page sends by itself, whatever the
\* configured number of retries: one resend and MaxRetries retries for each load
\* of the page. Sends, edits and stops of the user do not renew the budget: only
\* a recovery sets the counter to 0, and a page recovers once.
THEOREM ResendsAreBounded ==
  Spec => []RetriesAreBounded
<1>1. IInv => RetriesAreBounded
  BY DEF IInv, CountInv, RetriesAreBounded
<1> QED BY <1>1, Invariant, PTL

-----------------------------------------------------------------------------
(* Answers stay. *)

\* An answer that is complete and not marked.
IsSettled(m) == IsAssistant(m) /\ m.status = "complete" /\ ~m.flag

\* A step that changes only the last message, which is not settled.
LEMMA OnlyLastChanges ==
  ASSUME IInv, messages # <<>>, ~IsSettled(messages[Len(messages)]), messages[Len(messages)] \in Assistant,
         NEW m \in Assistant, messages' = [messages EXCEPT ![Len(messages)] = m],
         NEW i \in DOMAIN messages, IsSettled(messages[i])
  PROVE  messages'[i] = messages[i]
<1>1. \A j \in 1 .. Len(messages) - 1 : messages'[j] = messages[j]
  BY LastChanged
<1>2. i \in 1 .. Len(messages) /\ Len(messages) \in Nat
  BY Facts
<1>3. i # Len(messages)
  OBVIOUS
<1>4. i \in 1 .. Len(messages) - 1
  BY <1>2, <1>3
<1> QED BY <1>1, <1>4

\* While the page generates, the last message waits.
LEMMA WaitingIsNotSettled ==
  ASSUME IInv, Ready, IsGenerating
  PROVE  messages # <<>> /\ messages[Len(messages)] \in Assistant /\ ~IsSettled(messages[Len(messages)])
<1>1. messages # <<>> /\ messages[Len(messages)] \in Assistant /\ messages[Len(messages)].status \in {"loading", "streaming"}
  BY WhenReady
<1> QED BY <1>1 DEF IsSettled

\* The reset of marked messages touches no settled one.
LEMMA ResetKeepsSettled ==
  ASSUME IInv, messages' = ResetPending(messages), NEW i \in DOMAIN messages, IsSettled(messages[i])
  PROVE  messages'[i] = messages[i]
<1>1. i \in 1 .. Len(messages) /\ messages \in Seq(Messages)
  BY Facts
<1>2. messages'[i] = IF IsFlagged(messages[i]) THEN Marked ELSE messages[i]
  BY <1>1, ResetFacts
<1>3. ~IsFlagged(messages[i])
  BY DEF IsSettled, IsFlagged
<1> QED BY <1>2, <1>3

\* Timers, effects and late events of a stream write only to messages that wait:
\* an answer that is complete and not marked for a resend stays as it is until
\* the user acts.
THEOREM AnswersAreKept ==
  Spec => AnswersStay
<1>1. ASSUME IInv, ByItself, NEW i \in DOMAIN messages, IsSettled(messages[i])
      PROVE  messages'[i] = messages[i]
  <2>1. CASE Chunk \/ EndsQuietly \/ SaveTimer
    BY <2>1 DEF Chunk, EndsQuietly, SaveTimer
  <2>2. CASE FlushTimer
    <3>1. Ready /\ IsGenerating /\ messages' = Flushed(messages)
      BY <1>1, <2>2 DEF FlushTimer, UpdateMessages, IInv, StreamInv, IsGenerating
    <3>2. \E m \in Assistant : Flushed(messages) = [messages EXCEPT ![Len(messages)] = m]
      BY <1>1, <3>1, FlushedFacts
    <3> QED BY <1>1, <3>1, <3>2, WaitingIsNotSettled, OnlyLastChanges
  <2>3. CASE Done
    <3>1. Ready /\ IsGenerating
      BY <2>3 DEF Done, IsGenerating
    <3>2. PICK m \in Assistant :
            /\ m.status \in {"loading", "streaming"} /\ IsPending(m)
            /\ Flushed(messages) # <<>> /\ IsAssistant(Last(Flushed(messages))) /\ Last(Flushed(messages)) = m
            /\ \A k : [Flushed(messages) EXCEPT ![Len(Flushed(messages))] = k] = [messages EXCEPT ![Len(messages)] = k]
      BY <1>1, <3>1, FlushedAndEnded
    <3>3. messages' = [messages EXCEPT ![Len(messages)] = Completed(m)]
      BY <2>3, <3>2 DEF Done, UpdateLast, UpdateMessages
    <3>4. Completed(m) \in Assistant
      BY CompletedFacts
    <3> QED BY <1>1, <3>1, <3>3, <3>4, WaitingIsNotSettled, OnlyLastChanges
  <2>4. CASE Error
    <3>1. Ready /\ IsGenerating
      BY <2>4 DEF Error, IsGenerating
    <3>2. PICK m \in Assistant :
            /\ m.status \in {"loading", "streaming"} /\ IsPending(m)
            /\ Flushed(messages) # <<>> /\ IsAssistant(Last(Flushed(messages))) /\ Last(Flushed(messages)) = m
            /\ \A k : [Flushed(messages) EXCEPT ![Len(Flushed(messages))] = k] = [messages EXCEPT ![Len(messages)] = k]
      BY <1>1, <3>1, FlushedAndEnded
    <3>3. CASE ShouldRetry
      <4>1. messages' = Flushed(messages)
        BY <2>4, <3>3 DEF Error, UpdateMessages
      <4>2. \E k \in Assistant : Flushed(messages) = [messages EXCEPT ![Len(messages)] = k]
        BY <1>1, <3>1, FlushedFacts
      <4> QED BY <1>1, <3>1, <4>1, <4>2, WaitingIsNotSettled, OnlyLastChanges
    <3>4. CASE ~ShouldRetry
      <4>1. messages' = [messages EXCEPT ![Len(messages)] = Failed(m)]
        BY <2>4, <3>2, <3>4 DEF Error, UpdateLast, UpdateMessages
      <4>2. Failed(m) \in Assistant
        BY FailedFacts
      <4> QED BY <1>1, <3>1, <4>1, <4>2, WaitingIsNotSettled, OnlyLastChanges
    <3> QED BY <3>3, <3>4
  <2>5. CASE RetryTimer
    <3>1. messages' = ResetPending(messages)
      BY <2>5 DEF RetryTimer, UpdateMessages
    <3> QED BY <1>1, <3>1, ResetKeepsSettled
  <2>6. CASE LoadMessages
    <3>1. messages = <<>>
      BY <1>1, <2>6 DEF LoadMessages, IInv, PageInv
    <3> QED BY <1>1, <3>1
  <2>7. CASE Recover
    <3>1. messages # <<>> /\ IsFlagged(messages[Len(messages)])
      BY <2>7 DEF Recover, RecoveryDue, HasPendingAutoResend, Last
    <3>2. messages[Len(messages)] \in Assistant /\ ~IsSettled(messages[Len(messages)])
      BY <1>1, <3>1, Facts, MessageFacts DEF IsSettled
    <3>3. CASE enabled
      BY <1>1, <2>7, <3>3, ResetKeepsSettled DEF Recover
    <3>4. CASE ~enabled
      <4> DEFINE l == messages[Len(messages)]
                 k == [Failed(l) EXCEPT !.flag = FALSE]
      <4>1. messages' = [messages EXCEPT ![Len(messages)] = k]
        BY <2>7, <3>1, <3>4 DEF Recover, UpdateLast, Last, IsFlagged
      <4>2. k \in Assistant
        <5> HIDE DEF l
        <5> QED BY <3>2 DEF Failed, Assistant, l
      <4> HIDE DEF k
      <4> QED BY <1>1, <3>1, <3>2, <4>1, <4>2, OnlyLastChanges
    <3> QED BY <3>3, <3>4
  <2> QED BY <1>1, <2>1, <2>2, <2>3, <2>4, <2>5, <2>6, <2>7 DEF ByItself
<1>2. IInv /\ [Next]_vars
        => [ByItself => \A i \in DOMAIN messages :
              IsAssistant(messages[i]) /\ messages[i].status = "complete" /\ ~messages[i].flag
                => messages'[i] = messages[i]]_vars
  BY <1>1 DEF IsSettled
<1> QED BY <1>2, Invariant, PTL DEF Spec, AnswersStay
=============================================================================
