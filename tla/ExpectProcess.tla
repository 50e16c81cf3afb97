--------------------------- MODULE ExpectProcess ---------------------------
(***************************************************************************)
(* expect/ExpectProcess.js: a test drives a child process and waits for    *)
(* lines of its output.  The child's writes reach the test in chunks cut   *)
(* anywhere; each chunk is split into pieces that go into an AsyncQueue,   *)
(* from which the searches of expect() and the single reads of             *)
(* expectNext() take them.                                                 *)
(*                                                                         *)
(* Everything but the child's writing runs on one event loop: a 'data'     *)
(* callback is run to its end, then the continuations of the awaits it     *)
(* resolved, and only then another callback or timer.  The order of the    *)
(* continuations among each other is left open.                            *)
(*                                                                         *)
(* A line that the child writes is two fragments and an end of line, so    *)
(* that a chunk can end in the middle of it.                               *)
(*                                                                         *)
(* A name such as Split_WholeLines, defined just before the operator it is *)
(* named after, is that operator with a bug: the properties are tried out  *)
(* on it.                                                                  *)
(***************************************************************************)
EXTENDS Naturals, Sequences, FiniteSets, SequencesExt

CONSTANTS
    Texts,         \* the lines the child may write
    EOL,           \* os.EOL
    Pending,
    MaxLines,      \* bound on the lines the child writes
    MaxExpects     \* bound on the calls of expect() and expectNext()

ASSUME EOLAssumption == EOL \notin Texts \X {1, 2}
ASSUME PendingAssumption == Pending \notin Seq(Texts \X {1, 2})
ASSUME ExpectBoundsAssumption == MaxLines \in Nat /\ MaxExpects \in Nat

VARIABLES
    promises, resolvers, value, taken,     \* stdoutQ, an AsyncQueue
    written,       \* what the child has written
    pipe,          \* the part of it that no 'data' event has delivered
    chunk,         \* the pieces the running 'data' callback must still enqueue
    calls          \* the calls of expect() and expectNext(), in order

stdoutQ == <<promises, resolvers, value, taken>>
expectVars == <<promises, resolvers, value, taken, written, pipe, chunk, calls>>

Fragment == Texts \X {1, 2}

\* The queue's own bound limits only its Next, which is not used here.
Q == INSTANCE AsyncQueue WITH Values <- Seq(Fragment), MaxCalls <- 0

Outcome == {"pending", "found", "failed", "timeout"}

\* cond: the text a line must hold.  from: the first of the dequeue() calls
\* made for it.  entry: the entry whose promise is awaited, or was the last to
\* be.  active: the async function has not returned.
Call == [kind : {"expect", "expectNext"}, cond : Texts, from : Nat \ {0},
         entry : Nat \ {0}, active : BOOLEAN, outcome : Outcome]

\* The calls in progress: each awaits the promise of an entry the queue has
\* made, a caller waits only while the async function runs, and a function that
\* still runs without one is the search of an expect() that timed out.
TypeOK ==
    /\ Q!TypeOK
    /\ written \in Seq(Texts)
    /\ pipe \in Seq(Fragment \cup {EOL})
    /\ chunk \in Seq(Seq(Fragment))
    /\ calls \in Seq(Call)
    /\ \A i \in 1..Len(calls) :
           /\ calls[i].entry \in 1..Len(value)
           /\ calls[i].outcome = "pending" => calls[i].active
           /\ calls[i].active => calls[i].outcome \in {"pending", "timeout"}

Init ==
    /\ Q!Init
    /\ written = <<>>
    /\ pipe = <<>>
    /\ chunk = <<>>
    /\ calls = <<>>

-----------------------------------------------------------------------------
(* The child and its stdout *)

Line(t) == << <<t, 1>>, <<t, 2>>, EOL >>

Write(t) ==
    /\ Len(written) < MaxLines
    /\ written' = Append(written, t)
    /\ pipe' = pipe \o Line(t)
    /\ UNCHANGED <<stdoutQ, chunk, calls>>

\* The pieces of the first n characters of data: an end of line begins a new
\* one.
Pieces(data) ==
    LET pieces[n \in 0..Len(data)] ==
            IF n = 0 THEN << <<>> >>
            ELSE IF data[n] = EOL THEN Append(pieces[n - 1], <<>>)
            ELSE [pieces[n - 1] EXCEPT ![Len(pieces[n - 1])] = Append(@, data[n])]
    IN  pieces

Split_WholeLines(data) == Front(Pieces(data)[Len(data)])
\* data.split(os.EOL): also the (possibly empty) piece after the last end of
\* line.
Split(data) == Pieces(data)[Len(data)]

\* expectMatch(), expectLine(): the text is somewhere in the line.
Match(c, line) == {<<c, 1>>, <<c, 2>>} \subseteq Range(line)

\* The continuation after an await whose promise is resolved.
Ready(i) == calls[i].active /\ value[calls[i].entry] # Pending

\* No callback is running and no continuation is due.
Idle == chunk = <<>> /\ \A i \in 1..Len(calls) : ~Ready(i)

\* The 'data' callback, with the first n characters of what is in the pipe.
OnData(n) ==
    /\ Idle
    /\ chunk' = Split(SubSeq(pipe, 1, n))
    /\ pipe' = SubSeq(pipe, n + 1, Len(pipe))
    /\ UNCHANGED <<stdoutQ, written, calls>>

EnqueueLine ==
    /\ chunk # <<>>
    /\ Q!Enqueue(Head(chunk))
    /\ chunk' = Tail(chunk)
    /\ UNCHANGED <<written, pipe, calls>>

-----------------------------------------------------------------------------
(* The test *)

\* The tests await every call before the next.
CallerFree == \A i \in 1..Len(calls) : calls[i].outcome # "pending"

\* expect(): start the search and its timer; expectNext(): take one line.
\* Both reach their first dequeue() before they return.
Expect(kind, c) ==
    /\ Len(calls) < MaxExpects
    /\ chunk = <<>>
    /\ CallerFree
    /\ Q!Dequeue
    /\ calls' = Append(calls, [kind |-> kind, cond |-> c,
                               from |-> Len(taken'), entry |-> Last(taken'),
                               active |-> TRUE, outcome |-> "pending"])
    /\ UNCHANGED <<written, pipe, chunk>>

Settle_StaysActive(i, outcome) ==
    [calls EXCEPT ![i].outcome = IF @ = "pending" THEN outcome ELSE @]
\* The race of AsyncTimeout() is settled by whichever comes first.
Settle(i, outcome) ==
    [calls EXCEPT ![i].active = FALSE,
                  ![i].outcome = IF @ = "pending" THEN outcome ELSE @]

\* expectSearch() goes on with the line it was waiting for.
Search_ReadsAhead(i) ==
    /\ chunk = <<>>
    /\ Ready(i)
    /\ calls[i].kind = "expect"
    /\ \/ /\ Match(calls[i].cond, value[calls[i].entry])
          /\ calls' = Settle(i, "found")
          /\ Q!Dequeue
       \/ /\ ~Match(calls[i].cond, value[calls[i].entry])
          /\ Q!Dequeue
          /\ calls' = [calls EXCEPT ![i].entry = Last(taken')]
    /\ UNCHANGED <<written, pipe, chunk>>
Search(i) ==
    /\ chunk = <<>>
    /\ Ready(i)
    /\ calls[i].kind = "expect"
    /\ \/ /\ Match(calls[i].cond, value[calls[i].entry])
          /\ calls' = Settle(i, "found")
          /\ UNCHANGED stdoutQ
       \/ /\ ~Match(calls[i].cond, value[calls[i].entry])
          /\ Q!Dequeue
          /\ calls' = [calls EXCEPT ![i].entry = Last(taken')]
    /\ UNCHANGED <<written, pipe, chunk>>

\* expectNext() goes on: expectLine() returns or throws.
TakeOne(i) ==
    /\ chunk = <<>>
    /\ Ready(i)
    /\ calls[i].kind = "expectNext"
    /\ calls' = Settle(i, IF Match(calls[i].cond, value[calls[i].entry])
                          THEN "found" ELSE "failed")
    /\ UNCHANGED <<stdoutQ, written, pipe, chunk>>

TimerArmed_UntilFirstLine(i) ==
    /\ calls[i].kind = "expect"
    /\ calls[i].outcome = "pending"
    /\ calls[i].from = Len(taken)
\* The timer of AsyncTimeout(): cleared when the search came first.
TimerArmed(i) == calls[i].kind = "expect" /\ calls[i].outcome = "pending"

\* The caller is rejected.  Nothing stops the search.
Timeout(i) ==
    /\ Idle
    /\ TimerArmed(i)
    /\ calls' = [calls EXCEPT ![i].outcome = "timeout"]
    /\ UNCHANGED <<stdoutQ, written, pipe, chunk>>

-----------------------------------------------------------------------------
Next ==
    \/ \E t \in Texts : Write(t)
    \/ \E n \in 1..Len(pipe) : OnData(n)
    \/ EnqueueLine
    \/ \E kind \in {"expect", "expectNext"}, c \in Texts : Expect(kind, c)
    \/ \E i \in 1..Len(calls) : Search(i) \/ TakeOne(i) \/ Timeout(i)

Spec == Init /\ [][Next]_expectVars

\* The event loop runs what is due; the operating system hands over what the
\* child wrote; timers expire.  The child need not write, nor the test call.
FairSpec ==
    /\ Spec
    /\ WF_expectVars(EnqueueLine)
    /\ WF_expectVars(\E n \in 1..Len(pipe) : OnData(n))
    /\ \A i \in 1..MaxExpects :
           WF_expectVars(i <= Len(calls) /\ (Search(i) \/ TakeOne(i) \/ Timeout(i)))
-----------------------------------------------------------------------------
(* Properties *)

\* What is left of output without its ends of line.
Fragments(s) ==
    FlattenSeq([i \in 1..Len(s) |-> IF s[i] = EOL THEN <<>> ELSE <<s[i]>>])

\* Nothing the child wrote is lost, repeated or reordered on its way: what the
\* queue was given, the rest of the running callback's pieces and the pipe are
\* together the child's output, wherever the chunks were cut.
OutputConserved ==
    FlattenSeq(Q!Sent) \o FlattenSeq(chunk) \o Fragments(pipe)
        = Fragments(FlattenSeq([k \in 1..Len(written) |-> Line(written[k])]))

\* As long as neither it nor an earlier call has timed out, a call starts with
\* the piece of output after the last one its predecessor took, skips only
\* pieces that do not match, and finds the first one that does.
FindsFirstMatch ==
    LET Position(i) == CHOOSE k \in 1..Len(taken) : taken[k] = calls[i].entry
        Piece(k) == Q!Sent[k]
    IN  \A i \in 1..Len(calls) :
            (\A j \in 1..i : calls[j].outcome # "timeout") =>
                /\ calls[i].from = IF i = 1 THEN 1 ELSE Position(i - 1) + 1
                /\ \A k \in calls[i].from..(Position(i) - 1) :
                       ~Match(calls[i].cond, Piece(k))
                /\ calls[i].outcome = "found" =>
                       Match(calls[i].cond, Piece(Position(i)))
                /\ calls[i].outcome = "failed" =>
                       ~Match(calls[i].cond, Piece(Position(i)))

\* No expect() leaves its caller waiting for ever: AsyncTimeout() settles it
\* whatever the child does, also when the output ends in the middle of a line.
ExpectSettles ==
    \A i \in 1..MaxExpects :
        (i <= Len(calls) /\ calls[i].kind = "expect")
            ~> (i <= Len(calls) /\ calls[i].outcome # "pending")
=============================================================================
