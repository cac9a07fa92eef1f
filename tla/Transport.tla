----------------------------- MODULE Transport -----------------------------
(***************************************************************************)
(* Transport/Transmission.hpp and Reliable.hpp: the loops that read or     *)
(* write a whole buffer, one read or write with a completion handler, and  *)
(* the bridge that gives a transmission with awaitables only such a        *)
(* handler.  The layer is a Reliable with its socket, or a transmission of *)
(* the program's own, which answers as it likes.  One executor runs it;    *)
(* there is one read and one write at a time.                              *)
(*                                                                         *)
(* A byte is its position: in the stream of the peer for a read, in the    *)
(* caller's buffer for a write.                                            *)
(***************************************************************************)
EXTENDS Integers, Sequences, SequencesExt

CONSTANTS Transfers, Sizes,      \* of the buffers
          MaxArrivals           \* bound on the bytes that the peer sends

ASSUME TransportAssumption == Sizes \subseteq Nat /\ MaxArrivals \in Nat

VARIABLES
    layer, transfer,
    socket,                     \* "none" once it was released
    writes,                     \* the sending direction is not shut down
    arrived, taken, ending,     \* the peer's stream
    wire                        \* the bytes that were sent: their transfer and position
transportVars == <<layer, transfer, socket, writes, arrived, taken, ending, wire>>

Unused == [phase |-> "idle"]
TransportInit ==
    /\ layer \in {"Reliable", "custom"}
    /\ transfer = [t \in Transfers |-> Unused]
    /\ socket = "open" /\ writes = TRUE
    /\ arrived = 0 /\ taken = 0 /\ ending = "none" /\ wire = <<>>

Working(x) == x.phase \in {"waiting", "answered"}
Buffered == SubSeq([i \in 1..MaxArrivals |-> i], taken + 1, arrived)

-----------------------------------------------------------------------------
\* Fault::ToCode, in the awaitables of Reliable.
ToCode(error) ==
    CASE error = "none" -> "none"
      [] error = "eof" -> "Eof"
      [] error = "operation_aborted" -> "Canceled"
      [] error = "connection_reset" -> "ConnectionReset"
      [] OTHER -> "IoError"

\* Mutant: the handler is kept after it was called.
CompleteAgain(x, Ec, bytes) ==
    IF ~x.held THEN x
    ELSE [x EXCEPT !.phase = "done", !.called = @ + 1, !.Ec = Ec, !.total = bytes]

\* CompletionState::Complete gives up the handler before it calls it.
Complete(x, Ec, bytes) ==
    IF ~x.held THEN x
    ELSE [x EXCEPT !.phase = "done", !.held = FALSE, !.called = @ + 1,
                   !.Ec = Ec, !.total = bytes]

\* Mutant: every round of the loop is given the whole buffer again.
RemainingWhole(x) == [from |-> 0, size |-> x.size - x.total]

\* Buffer.subspan(total).
Remaining(x) == [from |-> x.total, size |-> x.size - x.total]

\* The next AsyncReadSome or AsyncWriteSome: refused without a socket, answered at
\* once on a closed one or for an empty buffer.
Ask(x) ==
    IF layer = "Reliable" /\ socket = "none" THEN
        IF x.way = "some" THEN Complete(x, "operation_aborted", 0)
        ELSE [x EXCEPT !.phase = "done", !.Ec = "InvalidArgument"]
    ELSE IF layer = "Reliable" /\ socket = "closed" THEN
        [x EXCEPT !.phase = "answered", !.answer = [n |-> 0, Ec |-> "bad_descriptor"]]
    ELSE IF layer = "Reliable" /\ Remaining(x).size = 0 THEN
        [x EXCEPT !.phase = "answered", !.answer = [n |-> 0, Ec |-> "none"]]
    ELSE [x EXCEPT !.phase = "waiting"]

\* The test of the loops in AsyncRead and AsyncWrite.
Loop(x) == IF x.total < x.size THEN Ask(x) ELSE [x EXCEPT !.phase = "done"]

New(op, way, size) ==
    [phase |-> "new", op |-> op, way |-> way, size |-> size, total |-> 0, got |-> <<>>,
     Ec |-> "none", answer |-> [n |-> 0, Ec |-> "none"], held |-> way # "all", called |-> 0]
Quietly == UNCHANGED <<layer, socket, writes, arrived, taken, ending, wire>>
MayStart(t, op) ==
    /\ transfer[t].phase = "idle"
    /\ \A u \in Transfers : Working(transfer[u]) => transfer[u].op # op

\* AsyncRead or AsyncWrite of a whole buffer.
StartWhole(t) ==
    /\ \E op \in {"read", "write"}, size \in Sizes :
          /\ MayStart(t, op)
          /\ transfer' = [transfer EXCEPT ![t] = Loop(New(op, "all", size))]
    /\ Quietly

\* Reliable's own AsyncReadSome or AsyncWriteSome with a handler.
StartSome(t) ==
    /\ layer = "Reliable"
    /\ \E op \in {"read", "write"}, size \in Sizes :
          /\ MayStart(t, op)
          /\ transfer' = [transfer EXCEPT ![t] = Ask(New(op, "some", size))]
    /\ Quietly

\* The ones of Transmission spawn BridgeRead or BridgeWrite.  There may be no owner
\* or executor, the spawning may fail, or the bridge may run at once to its end and
\* the handler throw: what is caught then would call the handler again.
StartBridged(t) ==
    /\ layer = "custom"
    /\ \E op \in {"read", "write"}, size \in Sizes :
          LET x == New(op, "bridge", size)
          IN  /\ MayStart(t, op)
              /\ \E y \in {Complete(x, "operation_aborted", 0), Ask(x),
                           Complete(Complete(x, "none", 0), "operation_aborted", 0)} :
                    transfer' = [transfer EXCEPT ![t] = y]
    /\ Quietly

-----------------------------------------------------------------------------
\* Bytes that have arrived are put where the round was told to put them.
Filled(x, n) ==
    [x EXCEPT !.phase = "answered", !.answer = [n |-> n, Ec |-> "none"],
              !.got = SubSeq(@, 1, Remaining(x).from) \o SubSeq(Buffered, 1, n)]
ReceiveBytes(t) ==
    LET x == transfer[t]
    IN  /\ x.phase = "waiting" /\ x.op = "read" /\ ending # "connection_reset"
        /\ \E n \in 1..Remaining(x).size :
              /\ n <= Len(Buffered)
              /\ transfer' = [transfer EXCEPT ![t] = Filled(x, n)]
              /\ taken' = taken + n
        /\ UNCHANGED <<layer, socket, writes, arrived, ending, wire>>

SendBytes(t) ==
    LET x == transfer[t]
    IN  /\ x.phase = "waiting" /\ x.op = "write" /\ ending # "connection_reset" /\ writes
        /\ \E n \in 1..Remaining(x).size :
              /\ transfer' = [transfer EXCEPT ![t].phase = "answered",
                                 ![t].answer = [n |-> n, Ec |-> "none"]]
              /\ wire' = wire \o [i \in 1..n |-> <<t, Remaining(x).from + i>>]
        /\ UNCHANGED <<layer, socket, writes, arrived, taken, ending>>

WithAnswer(x, n, Ec) == [x EXCEPT !.phase = "answered", !.answer = [n |-> n, Ec |-> Ec]]
SocketFails(t) ==
    LET x == transfer[t]
    IN  /\ layer = "Reliable" /\ x.phase = "waiting"
        /\ \E Ec \in {"eof", "connection_reset", "broken_pipe"} :
              /\ CASE Ec = "eof" -> x.op = "read" /\ ending = "eof" /\ Buffered = <<>>
                   [] Ec = "broken_pipe" -> x.op = "write" /\ ~writes
                   [] OTHER -> ending = Ec
              /\ transfer' = [transfer EXCEPT ![t] = WithAnswer(x, 0, Ec)]
        /\ Quietly

\* A transmission of the program's own fails, answers more or less than it was asked
\* for, or throws out of the awaitable.
CustomAnswers(t) ==
    LET x == transfer[t]
    IN  /\ layer = "custom" /\ x.phase = "waiting"
        /\ \E y \in {WithAnswer(x, 0, "none"), WithAnswer(x, 0, "failed"),
                     WithAnswer(x, Remaining(x).size + 1, "none"),
                     IF x.way = "bridge" THEN Complete(x, "operation_aborted", 0)
                     ELSE [x EXCEPT !.phase = "done", !.Ec = "thrown"]} :
              transfer' = [transfer EXCEPT ![t] = y]
        /\ Quietly

\* One round of AsyncRead or AsyncWrite after its answer.
Round(x) ==
    LET n == x.answer.n
        Ec == IF layer = "Reliable" THEN ToCode(x.answer.Ec) ELSE x.answer.Ec
        more == [x EXCEPT !.total = @ + n]
    IN  IF n > Remaining(x).size THEN [x EXCEPT !.phase = "done", !.Ec = "message_size"]
        ELSE IF Ec # "none" THEN [more EXCEPT !.phase = "done", !.Ec = Ec]
        ELSE IF n = 0 THEN [x EXCEPT !.phase = "done", !.Ec = "io_error"]
        ELSE Loop(more)

\* The executor resumes the coroutine or calls the handler.
Resume(t) ==
    LET x == transfer[t]
    IN  /\ x.phase = "answered"
        /\ transfer' = [transfer EXCEPT ![t] =
               IF x.way = "all" THEN Round(x) ELSE Complete(x, x.answer.Ec, x.answer.n)]
        /\ Quietly

-----------------------------------------------------------------------------
Aborted(x) == IF x.phase = "waiting" THEN WithAnswer(x, 0, "operation_aborted") ELSE x
\* Whatever was answered already is not undone.
Cancel ==
    /\ layer = "Reliable" /\ socket # "none"
    /\ transfer' = [t \in Transfers |-> Aborted(transfer[t])]
    /\ Quietly
Close ==
    /\ layer = "Reliable" /\ socket # "none"
    /\ socket' = "closed"
    /\ transfer' = [t \in Transfers |-> Aborted(transfer[t])]
    /\ UNCHANGED <<layer, writes, arrived, taken, ending, wire>>
ShutdownWrite ==
    /\ layer = "Reliable" /\ socket = "open" /\ writes
    /\ writes' = FALSE
    /\ UNCHANGED <<layer, transfer, socket, arrived, taken, ending, wire>>
\* The waiting operations go with the socket; its new owner may close it.
ReleaseSocket ==
    /\ layer = "Reliable" /\ socket # "none"
    /\ socket' = "none"
    /\ UNCHANGED <<layer, transfer, writes, arrived, taken, ending, wire>>
OwnerCloses(t) ==
    /\ socket = "none" /\ transfer[t].phase = "waiting"
    /\ transfer' = [transfer EXCEPT ![t] = Aborted(@)]
    /\ Quietly

Arrive ==
    /\ ending = "none"
    /\ \/ arrived < MaxArrivals /\ arrived' = arrived + 1 /\ UNCHANGED ending
       \/ ending' \in {"eof", "connection_reset"} /\ UNCHANGED arrived
    /\ UNCHANGED <<layer, transfer, socket, writes, taken, wire>>

TransportNext ==
    \/ \E t \in Transfers :
        \/ StartWhole(t) \/ StartSome(t) \/ StartBridged(t)
        \/ ReceiveBytes(t) \/ SendBytes(t) \/ SocketFails(t) \/ CustomAnswers(t)
        \/ Resume(t) \/ OwnerCloses(t)
    \/ Cancel \/ Close \/ ShutdownWrite \/ ReleaseSocket \/ Arrive
TransportSpec == TransportInit /\ [][TransportNext]_transportVars

-----------------------------------------------------------------------------
\* The handler of a transfer is called once, when it is done (CompletionState).
CalledOnce(x) == x.called = IF x.phase = "done" /\ x.way # "all" THEN 1 ELSE 0
\* A total stays within the buffer, and success of a whole transfer means all of it.
TotalRight(x) ==
    /\ layer = "Reliable" \/ x.way = "all" => x.total <= x.size
    /\ x.phase = "done" /\ x.way = "all" /\ x.Ec = "none" => x.total = x.size
\* The first n bytes of its buffer, and no other byte of transfer t, are on the wire,
\* each once and in order.
OnWire(t, n) ==
    /\ \A k \in DOMAIN wire : wire[k][1] = t => wire[k][2] \in 1..n
    /\ \A i \in 1..n : \E k \in DOMAIN wire : wire[k] = <<t, i>>
    /\ \A j, k \in DOMAIN wire :
          j < k /\ wire[j][1] = t /\ wire[k][1] = t => wire[j][2] < wire[k][2]
\* n bytes were read, the next ones of the stream, each once and in order.
Got(x, n) == n = Len(x.got) /\ \A i \in 1..(n - 1) : x.got[i + 1] = x.got[i] + 1
\* As many bytes were moved as a transfer of a Reliable reports, and all of them when a
\* whole transfer succeeds.
BytesRight(t, x) ==
    \E n \in 0..(Len(x.got) + Len(wire)) :
        /\ x.op = "read" => Got(x, n)
        /\ x.op = "write" => OnWire(t, n)
        /\ layer = "Reliable" =>
              n = IF x.phase = "answered" THEN x.total + x.answer.n ELSE x.total
        /\ x.phase = "done" /\ x.way = "all" /\ x.Ec = "none" => n = x.size

\* All of it, however a transfer is cut into rounds and whatever ends it
\* (Transmission.hpp:378-439, Reliable.hpp:106-188).
HandlersOnce == \A t \in Transfers : transfer[t].phase # "idle" => CalledOnce(transfer[t])
TotalsRight == \A t \in Transfers : transfer[t].phase # "idle" => TotalRight(transfer[t])
TransfersRight ==
    /\ HandlersOnce /\ TotalsRight
    /\ \A t \in Transfers : transfer[t].phase # "idle" => BytesRight(t, transfer[t])
=============================================================================
